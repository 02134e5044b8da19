------------------------- MODULE SecurityPersistence -------------------------
(***************************************************************************)
(* The OCI security persistence service                                    *)
(* (deployment/security/persistence.py) as the host commands drive it:     *)
(* `init` prepares the durable files, runs a product bootstrap over them   *)
(* and finalizes; `deploy` materializes a plaintext staging tree;          *)
(* `secret-import` stores one operator-created key; `destroy` deletes      *)
(* durable roots.  Every read or write of the Vault, of a durable file or  *)
(* of the staging tree is a step of its own, because each is an OCI CLI    *)
(* call or a system call of a process that can fail, or be overtaken by    *)
(* another one, in between.                                                *)
(*                                                                         *)
(* Plaintexts are versions: the n-th value ever created for a file is n,   *)
(* so "newer" is "greater" and 0 is "no value".  Master keys are numbered  *)
(* the same way.                                                           *)
(***************************************************************************)
EXTENDS Naturals

CONSTANTS
  Files,       \* security files, each the rank of its path in sorted order
  Private,     \* the files _source_mode gives mode 0600
  VaultRank,   \* VaultRank[f]: rank of f's secret name in Vault's sorted list
  Commands,    \* host command slots; each runs one command at a time
  Overlap,     \* when two commands may run at once: see MayStart
  MaxVersion,  \* bound: values ever created for one file
  MaxMaster,   \* bound: master keys ever generated
  MaxFaults    \* bound: failed commands, power losses and VM rebuilds

ASSUME FilesAssumption == Files \subseteq Nat /\ Private \subseteq Files
ASSUME VaultRankAssumption ==
  /\ VaultRank \in [Files -> Nat]
  /\ \A f, g \in Files : VaultRank[f] = VaultRank[g] => f = g
ASSUME OverlapAssumption == Overlap \in {"never", "provisioned", "always"}
ASSUME BoundsAssumption ==
  MaxVersion \in Nat /\ MaxMaster \in Nat /\ MaxFaults \in Nat

VARIABLES
  vault,        \* vault[f]: CURRENT version of the Vault secret of f, or 0
  master,       \* number of the CURRENT anu-masker-key in Vault, or 0
  minted,       \* master keys generated so far
  disk,         \* disk[f]: durable file under ANU_HOME
  born,         \* born[f]: values created for f so far
  staging,      \* staging[f]: plaintext under the host staging tree, or 0
  pc,           \* pc[c]: next step of command c
  op,           \* op[c]: what c is doing
  key,          \* key[c]: master key number of c's AesGcmFileCipher
  todo,         \* todo[c]: files left in c's current loop
  buf,          \* buf[c]: plaintext c holds between a read and a write
  interrupted,  \* history: an init stopped early since the last full finalize
  halfImported, \* history: files imported into Vault but not yet on disk
  faults        \* faults so far

stores == <<vault, master, minted, disk, born, staging>>
locals == <<pc, op, key, todo, buf>>
history == <<interrupted, halfImported, faults>>
vars == <<vault, master, minted, disk, born, staging,
          pc, op, key, todo, buf, interrupted, halfImported, faults>>

-----------------------------------------------------------------------------
(* Values *)

Version == 0 .. MaxVersion
Master == 0 .. MaxMaster

Entry == [form : {"absent", "plain", "sealed"}, key : Master, val : Version]

Absent == [form |-> "absent", key |-> 0, val |-> 0]
Plain(v) == [form |-> "plain", key |-> 0, val |-> v]
Sealed(k, v) == [form |-> "sealed", key |-> k, val |-> v]

\* Mutant of Cached: private material misclassified as public.
CachedInClear(f, k, v) == Plain(v)

\* Mutant of Cached: the envelope loses the key it was sealed with.
CachedKeyless(f, k, v) ==
  IF f \in Private THEN [form |-> "sealed", val |-> v] ELSE Plain(v)

\* What the cache holds for plaintext v: only private material is encrypted.
Cached(f, k, v) == IF f \in Private THEN Sealed(k, v) ELSE Plain(v)

OnDisk == {f \in Files : disk[f].form # "absent"}

PC == {"idle", "master", "mint", "list", "exists", "fetch", "cache",
       "scan", "unseal", "unsealed", "bootstrap",
       "seal", "sealput", "sealwrite",
       "clear", "stage", "staged", "up", "importput", "importwrite"}

\* "unscoped" is an init whose product, component and force scope make the
\* bootstrap return False; "finalize" is an init past its bootstrap.
Op == {"none", "init", "unscoped", "finalize", "deploy", "import"}

InitOps == {"init", "unscoped", "finalize"}

TypeOK ==
  /\ vault \in [Files -> Version]
  /\ master \in Master
  /\ minted \in Master
  /\ disk \in [Files -> Entry]
  /\ born \in [Files -> Version]
  /\ staging \in [Files -> Version]
  /\ pc \in [Commands -> PC]
  /\ op \in [Commands -> Op]
  /\ key \in [Commands -> Master]
  /\ todo \in [Commands -> SUBSET Files]
  /\ buf \in [Commands -> Version]
  /\ interrupted \in BOOLEAN
  /\ halfImported \in SUBSET Files
  /\ faults \in 0 .. MaxFaults

Init ==
  /\ vault = [f \in Files |-> 0]
  /\ master = 0
  /\ minted = 0
  /\ disk = [f \in Files |-> Absent]
  /\ born = [f \in Files |-> 0]
  /\ staging = [f \in Files |-> 0]
  /\ pc = [c \in Commands |-> "idle"]
  /\ op = [c \in Commands |-> "none"]
  /\ key = [c \in Commands |-> 0]
  /\ todo = [c \in Commands |-> {}]
  /\ buf = [c \in Commands |-> 0]
  /\ interrupted = FALSE
  /\ halfImported = {}
  /\ faults = 0

-----------------------------------------------------------------------------
(* Control flow *)

\* A loop over durable files visits them in sorted path order.
IsFirst(f, S) == f \in S /\ \A g \in S : f <= g

\* The restore loop visits them in the order of their Vault names, which are
\* base32 encodings and so sort in another order than the paths.
IsNextName(f, S) == f \in S /\ \A g \in S : VaultRank[f] <= VaultRank[g]

Goto(c, label) == pc' = [pc EXCEPT ![c] = label]

\* The command leaves the host process; nothing of its memory survives.
Exit(c) ==
  /\ Goto(c, "idle")
  /\ op' = [op EXCEPT ![c] = "none"]
  /\ key' = [key EXCEPT ![c] = 0]
  /\ todo' = [todo EXCEPT ![c] = {}]
  /\ buf' = [buf EXCEPT ![c] = 0]

AllIdle == \A c \in Commands : pc[c] = "idle"

\* Nothing in the code locks.  The operators' schedule is the parameter:
\* "never" runs one command at a time, "provisioned" overlaps them once the
\* master key exists, "always" overlaps them from the first command on.
MayStart ==
  \/ AllIdle
  \/ Overlap = "provisioned" /\ master # 0
  \/ Overlap = "always"

\* Begin operation o at a label.
Start(c, o, label) ==
  /\ pc[c] = "idle"
  /\ MayStart
  /\ Goto(c, label)
  /\ op' = [op EXCEPT ![c] = o]

StartInit(c) ==
  /\ Start(c, "init", "master")
  /\ UNCHANGED <<stores, key, todo, buf, history>>

\* For example PRODUCT=nebula COMPONENT=migrate, which has nothing durable.
StartUnscopedInit(c) ==
  /\ Start(c, "unscoped", "master")
  /\ UNCHANGED <<stores, key, todo, buf, history>>

StartDeploy(c) ==
  /\ Start(c, "deploy", "master")
  /\ UNCHANGED <<stores, key, todo, buf, history>>

\* secret-import of an operator-created key for private file f.
StartImport(c, f) ==
  /\ born[f] < MaxVersion
  /\ Start(c, "import", "importput")
  /\ born' = [born EXCEPT ![f] = @ + 1]
  /\ todo' = [todo EXCEPT ![c] = {f}]
  /\ buf' = [buf EXCEPT ![c] = born[f] + 1]
  /\ UNCHANGED <<vault, master, minted, disk, staging, key, history>>

-----------------------------------------------------------------------------
(* _cipher: the master key, created when Vault has none *)

AfterCipher(o) ==
  CASE o = "finalize" -> "scan"
    [] o = "import" -> "importwrite"
    [] OTHER -> "list"

\* Mutant of ReadMaster: a fresh master key for every command.
ReadMasterAlwaysMint(c) ==
  /\ pc[c] = "master"
  /\ Goto(c, "mint")
  /\ UNCHANGED <<stores, op, key, todo, buf, history>>

ReadMaster(c) ==
  /\ pc[c] = "master"
  /\ key' = [key EXCEPT ![c] = master]
  /\ Goto(c, IF master = 0 THEN "mint" ELSE AfterCipher(op[c]))
  /\ UNCHANGED <<stores, op, todo, buf, history>>

\* generate_key, then vault.put: creates the secret, or publishes a new
\* CURRENT version of one that appeared since the read.
MintMaster(c) ==
  /\ pc[c] = "mint"
  /\ minted < MaxMaster
  /\ minted' = minted + 1
  /\ master' = minted + 1
  /\ key' = [key EXCEPT ![c] = minted + 1]
  /\ Goto(c, AfterCipher(op[c]))
  /\ UNCHANGED <<vault, disk, born, staging, op, todo, buf, history>>

-----------------------------------------------------------------------------
(* _restore_from_vault: recreate the cache files Vault has and disk lacks *)

\* Mutant of ListNames: the prefix filter drops public files.
ListPrivateNames(c) ==
  /\ pc[c] = "list"
  /\ todo' = [todo EXCEPT ![c] = {f \in Private : vault[f] # 0}]
  /\ Goto(c, "exists")
  /\ UNCHANGED <<stores, op, key, buf, history>>

ListNames(c) ==
  /\ pc[c] = "list"
  /\ todo' = [todo EXCEPT ![c] = {f \in Files : vault[f] # 0}]
  /\ Goto(c, "exists")
  /\ UNCHANGED <<stores, op, key, buf, history>>

CheckExists(c, f) ==
  /\ pc[c] = "exists"
  /\ IsNextName(f, todo[c])
  /\ IF f \in OnDisk
       THEN /\ todo' = [todo EXCEPT ![c] = @ \ {f}]
            /\ UNCHANGED pc
       ELSE /\ Goto(c, "fetch")
            /\ UNCHANGED todo
  /\ UNCHANGED <<stores, op, key, buf, history>>

FetchSecret(c, f) ==
  /\ pc[c] = "fetch"
  /\ IsNextName(f, todo[c])
  /\ buf' = [buf EXCEPT ![c] = vault[f]]
  /\ Goto(c, "cache")
  /\ UNCHANGED <<stores, op, key, todo, history>>

WriteCache(c, f) ==
  /\ pc[c] = "cache"
  /\ IsNextName(f, todo[c])
  /\ disk' = [disk EXCEPT ![f] = Cached(f, key[c], buf[c])]
  /\ todo' = [todo EXCEPT ![c] = @ \ {f}]
  /\ halfImported' = halfImported \ {f}
  /\ Goto(c, "exists")
  /\ UNCHANGED <<vault, master, minted, born, staging, op, key, buf,
                 interrupted, faults>>

RestoreDone(c) ==
  /\ pc[c] = "exists"
  /\ todo[c] = {}
  /\ Goto(c, IF op[c] = "deploy" THEN "clear" ELSE "scan")
  /\ UNCHANGED <<stores, op, key, todo, buf, history>>

-----------------------------------------------------------------------------
(* _security_files: the snapshot of durable files a loop runs over *)

LoopOf(o) ==
  CASE o \in {"init", "unscoped"} -> "unseal"
    [] o = "deploy" -> "stage"
    [] OTHER -> "seal"

Scan(c) ==
  /\ pc[c] = "scan"
  /\ todo' = [todo EXCEPT ![c] = OnDisk]
  /\ Goto(c, LoopOf(op[c]))
  /\ UNCHANGED <<stores, op, key, buf, history>>

\* read_bytes and, for an encrypted payload, an authenticated decryption.
Opens(c, f) ==
  /\ f \in OnDisk
  /\ disk[f].form = "sealed" => disk[f].key = key[c]

ReadFile(c, f, loop, label) ==
  /\ pc[c] = loop
  /\ IsFirst(f, todo[c])
  /\ Opens(c, f)
  /\ buf' = [buf EXCEPT ![c] = disk[f].val]
  /\ Goto(c, label)
  /\ UNCHANGED <<stores, op, key, todo, history>>

-----------------------------------------------------------------------------
(* prepare_for_initialization: unseal the cache in place *)

\* A plaintext payload is left as it is.
SkipPlain(c, f) ==
  /\ pc[c] = "unseal"
  /\ IsFirst(f, todo[c])
  /\ disk[f].form = "plain"
  /\ todo' = [todo EXCEPT ![c] = @ \ {f}]
  /\ UNCHANGED <<stores, pc, op, key, buf, history>>

ReadSealed(c, f) ==
  /\ disk[f].form = "sealed"
  /\ ReadFile(c, f, "unseal", "unsealed")

WriteUnsealed(c, f) ==
  /\ pc[c] = "unsealed"
  /\ IsFirst(f, todo[c])
  /\ disk' = [disk EXCEPT ![f] = Plain(buf[c])]
  /\ todo' = [todo EXCEPT ![c] = @ \ {f}]
  /\ Goto(c, "unseal")
  /\ UNCHANGED <<vault, master, minted, born, staging, op, key, buf, history>>

\* An applicable bootstrap has some files to create or, under --force, to
\* replace; todo holds those it has not written yet.  An inapplicable one has
\* none.
UnsealDone(c) ==
  /\ pc[c] = "unseal"
  /\ todo[c] = {}
  /\ \E W \in SUBSET {f \in Files : born[f] < MaxVersion} :
       /\ op[c] = "unscoped" => W = {}
       /\ todo' = [todo EXCEPT ![c] = W]
  /\ Goto(c, "bootstrap")
  /\ UNCHANGED <<stores, op, key, buf, history>>

-----------------------------------------------------------------------------
(* The product bootstrap, between prepare and finalize *)

\* A forced rotation unlinks the old certificate and key first.
BootstrapUnlink(c, f) ==
  /\ pc[c] = "bootstrap"
  /\ f \in todo[c] \cap OnDisk
  /\ disk' = [disk EXCEPT ![f] = Absent]
  /\ halfImported' = halfImported \ {f}
  /\ UNCHANGED <<vault, master, minted, born, staging, locals,
                 interrupted, faults>>

BootstrapWrite(c, f) ==
  /\ pc[c] = "bootstrap"
  /\ f \in todo[c]
  /\ born[f] < MaxVersion
  /\ born' = [born EXCEPT ![f] = @ + 1]
  /\ disk' = [disk EXCEPT ![f] = Plain(born[f] + 1)]
  /\ todo' = [todo EXCEPT ![c] = @ \ {f}]
  /\ halfImported' = halfImported \ {f}
  /\ UNCHANGED <<vault, master, minted, staging, pc, op, key, buf,
                 interrupted, faults>>

\* Mutant of BootstrapApplicable: _initialize forgets to finalize.
BootstrapWithoutFinalize(c) ==
  /\ pc[c] = "bootstrap" /\ op[c] = "init" /\ todo[c] = {}
  /\ Exit(c)
  /\ interrupted' = TRUE
  /\ UNCHANGED <<stores, halfImported, faults>>

\* initialize returns True: finalize_initialization calls _cipher again.
BootstrapApplicable(c) ==
  /\ pc[c] = "bootstrap" /\ op[c] = "init" /\ todo[c] = {}
  /\ op' = [op EXCEPT ![c] = "finalize"]
  /\ Goto(c, "master")
  /\ UNCHANGED <<stores, key, todo, buf, history>>

\* initialize returns False having written nothing: _initialize ends without
\* calling finalize_initialization.
BootstrapNotApplicable(c) ==
  /\ pc[c] = "bootstrap" /\ op[c] = "unscoped"
  /\ Exit(c)
  /\ interrupted' = TRUE
  /\ UNCHANGED <<stores, halfImported, faults>>

-----------------------------------------------------------------------------
(* finalize_initialization: upload each file, then write its cache entry *)

\* Mutant of ReadForSeal: the cache entry is written without an upload.
ReadForSealOnly(c, f) == ReadFile(c, f, "seal", "sealwrite")

ReadForSeal(c, f) == ReadFile(c, f, "seal", "sealput")

PutSecret(c, f) ==
  /\ pc[c] = "sealput"
  /\ IsFirst(f, todo[c])
  /\ vault' = [vault EXCEPT ![f] = buf[c]]
  /\ halfImported' = halfImported \ {f}
  /\ Goto(c, "sealwrite")
  /\ UNCHANGED <<master, minted, disk, born, staging, op, key, todo, buf,
                 interrupted, faults>>

WriteSealed(c, f) ==
  /\ pc[c] = "sealwrite"
  /\ IsFirst(f, todo[c])
  /\ disk' = [disk EXCEPT ![f] = Cached(f, key[c], buf[c])]
  /\ todo' = [todo EXCEPT ![c] = @ \ {f}]
  /\ Goto(c, "seal")
  /\ UNCHANGED <<vault, master, minted, born, staging, op, key, buf, history>>

SealDone(c) ==
  /\ pc[c] = "seal"
  /\ todo[c] = {}
  /\ Exit(c)
  /\ interrupted' = FALSE
  /\ UNCHANGED <<stores, halfImported, faults>>

-----------------------------------------------------------------------------
(* prepare_for_deployment: rebuild the plaintext staging tree *)

\* Mutant of ClearStaging: stale staging content survives.
KeepStaging(c) ==
  /\ pc[c] = "clear"
  /\ Goto(c, "scan")
  /\ UNCHANGED <<stores, op, key, todo, buf, history>>

ClearStaging(c) ==
  /\ pc[c] = "clear"
  /\ staging' = [f \in Files |-> 0]
  /\ Goto(c, "scan")
  /\ UNCHANGED <<vault, master, minted, disk, born, op, key, todo, buf, history>>

ReadForStage(c, f) == ReadFile(c, f, "stage", "staged")

WriteStaged(c, f) ==
  /\ pc[c] = "staged"
  /\ IsFirst(f, todo[c])
  /\ staging' = [staging EXCEPT ![f] = buf[c]]
  /\ todo' = [todo EXCEPT ![c] = @ \ {f}]
  /\ Goto(c, "stage")
  /\ UNCHANGED <<vault, master, minted, disk, born, op, key, buf, history>>

StageDone(c) ==
  /\ pc[c] = "stage"
  /\ todo[c] = {}
  /\ Goto(c, "up")
  /\ UNCHANGED <<stores, op, key, todo, buf, history>>

\* docker compose up: the containers mount what is staged.
ComposeUp(c) ==
  /\ pc[c] = "up"
  /\ Exit(c)
  /\ UNCHANGED <<stores, history>>

-----------------------------------------------------------------------------
(* import_secret: Vault first, then the encrypted file *)

ImportPut(c, f) ==
  /\ pc[c] = "importput"
  /\ IsFirst(f, todo[c])
  /\ vault' = [vault EXCEPT ![f] = buf[c]]
  /\ halfImported' = halfImported \cup {f}
  /\ Goto(c, "master")
  /\ UNCHANGED <<master, minted, disk, born, staging, op, key, todo, buf,
                 interrupted, faults>>

\* Mutant of ImportWrite: an existing file is kept, as _restore does.
ImportWriteIfMissing(c, f) ==
  /\ pc[c] = "importwrite"
  /\ IsFirst(f, todo[c])
  /\ disk' = IF f \in OnDisk THEN disk
             ELSE [disk EXCEPT ![f] = Sealed(key[c], buf[c])]
  /\ halfImported' = halfImported \ {f}
  /\ Exit(c)
  /\ UNCHANGED <<vault, master, minted, born, staging, interrupted, faults>>

ImportWrite(c, f) ==
  /\ pc[c] = "importwrite"
  /\ IsFirst(f, todo[c])
  /\ disk' = [disk EXCEPT ![f] = Sealed(key[c], buf[c])]
  /\ halfImported' = halfImported \ {f}
  /\ Exit(c)
  /\ UNCHANGED <<vault, master, minted, born, staging, interrupted, faults>>

-----------------------------------------------------------------------------
(* Failures and the other commands that touch durable files *)

\* An OCI CLI call fails, the bootstrap raises, or the process is killed.  A
\* file that overlapping commands removed or sealed under another key, which
\* read_bytes or decrypt raises on, ends the command in the same way.
Abort(c) ==
  /\ pc[c] # "idle"
  /\ faults < MaxFaults
  /\ Exit(c)
  /\ interrupted' = (interrupted \/ op[c] \in InitOps)
  /\ faults' = faults + 1
  /\ UNCHANGED <<stores, halfImported>>

\* No process survives.
AllExit ==
  /\ pc' = [c \in Commands |-> "idle"]
  /\ op' = [c \in Commands |-> "none"]
  /\ key' = [c \in Commands |-> 0]
  /\ todo' = [c \in Commands |-> {}]
  /\ buf' = [c \in Commands |-> 0]

\* The VM loses power: tmpfs staging is gone, durable files stay.
PowerLoss ==
  /\ faults < MaxFaults
  /\ AllExit
  /\ staging' = [f \in Files |-> 0]
  /\ interrupted' =
       (interrupted \/ \E c \in Commands : op[c] \in InitOps)
  /\ faults' = faults + 1
  /\ UNCHANGED <<vault, master, minted, disk, born, halfImported>>

\* VM-only rebuild: only Vault survives.
Rebuild ==
  /\ faults < MaxFaults
  /\ AllExit
  /\ staging' = [f \in Files |-> 0]
  /\ disk' = [f \in Files |-> Absent]
  /\ interrupted' = FALSE
  /\ halfImported' = {}
  /\ faults' = faults + 1
  /\ UNCHANGED <<vault, master, minted, born>>

\* `destroy` removes durable roots (rmtree with ignore_errors may leave any
\* part of them); it never touches Vault or the staging tree.
Destroy(D) ==
  /\ MayStart
  /\ \E f \in D : f \in OnDisk
  /\ disk' = [f \in Files |-> IF f \in D THEN Absent ELSE disk[f]]
  /\ halfImported' = halfImported \ D
  /\ UNCHANGED <<vault, master, minted, born, staging, locals,
                 interrupted, faults>>

-----------------------------------------------------------------------------

CipherStep(c) == ReadMaster(c) \/ MintMaster(c)

RestoreStep(c) ==
  \/ ListNames(c)
  \/ \E f \in Files : CheckExists(c, f) \/ FetchSecret(c, f) \/ WriteCache(c, f)
  \/ RestoreDone(c)

UnsealStep(c) ==
  \/ \E f \in Files : SkipPlain(c, f) \/ ReadSealed(c, f) \/ WriteUnsealed(c, f)
  \/ UnsealDone(c)

BootstrapStep(c) ==
  \/ \E f \in Files : BootstrapUnlink(c, f) \/ BootstrapWrite(c, f)
  \/ BootstrapApplicable(c)
  \/ BootstrapNotApplicable(c)

SealStep(c) ==
  \/ \E f \in Files : ReadForSeal(c, f) \/ PutSecret(c, f) \/ WriteSealed(c, f)
  \/ SealDone(c)

StageStep(c) ==
  \/ ClearStaging(c)
  \/ \E f \in Files : ReadForStage(c, f) \/ WriteStaged(c, f)
  \/ StageDone(c)
  \/ ComposeUp(c)

ImportStep(c) == \E f \in Private : ImportPut(c, f) \/ ImportWrite(c, f)

\* What a running command does by itself.
Run(c) ==
  \/ CipherStep(c)
  \/ RestoreStep(c)
  \/ Scan(c)
  \/ UnsealStep(c)
  \/ BootstrapStep(c)
  \/ SealStep(c)
  \/ StageStep(c)
  \/ ImportStep(c)

Next ==
  \/ \E c \in Commands :
       \/ StartInit(c)
       \/ StartUnscopedInit(c)
       \/ StartDeploy(c)
       \/ \E f \in Private : StartImport(c, f)
       \/ Run(c)
       \/ Abort(c)
  \/ PowerLoss
  \/ Rebuild
  \/ \E D \in SUBSET Files : Destroy(D)

Spec == Init /\ [][Next]_vars

\* A started command keeps running until it ends; operators rerun an
\* applicable init again and again (docs/SETUP-OCI.md: "rerun the application phases").
Fairness ==
  \A c \in Commands : WF_vars(Run(c)) /\ SF_vars(StartInit(c))

FairSpec == Spec /\ Fairness

-----------------------------------------------------------------------------
(* Properties *)

\* Every encrypted cache file can be opened with the master key that Vault
\* serves: _cipher never hands out, and never leaves on disk, a key that a
\* later _cipher would not return.
CacheDecryptable ==
  \A f \in Files : disk[f].form = "sealed" => disk[f].key = master

\* A value sealed on disk is already in Vault, or Vault has a newer one: an
\* encrypted cache entry is never the only copy (finalize_initialization and
\* import_secret upload before they seal), so a rebuilt VM loses none.
SealedIsBacked ==
  \A f \in Files : disk[f].form = "sealed" => disk[f].val <= vault[f]

Exposed == \E f \in Private : disk[f].form = "plain"

\* Private material lies in plaintext on the persistent disk only while an
\* init runs, or after one that stopped before its finalize completed.
ExposureOnlyWhenInterrupted ==
  AllIdle /\ Exposed => interrupted

\* The cache is behind Vault only for a file whose import stopped between the
\* Vault write and the file write.
StaleOnlyAfterHalfImport ==
  \A f \in OnDisk :
    disk[f].val < vault[f] => f \in halfImported

\* "OCI Vault is authoritative" (persistence.py:3) up to one gap: a Vault value
\* is replaced by an older one only by a finalize over a file whose import
\* stopped half way.
RegressionOnlyAfterHalfImport ==
  [][\A f \in Files : vault'[f] < vault[f] => f \in halfImported]_vars

\* Between the restore and the end of its command every secret in Vault is a
\* durable file, except one the running bootstrap has unlinked to replace it: a
\* rebuilt VM is never bootstrapped, sealed or staged over a hole, and a
\* rotation that finalizes leaves none behind.
RestoreComplete ==
  \A c \in Commands :
    pc[c] \in {"clear", "unseal", "unsealed", "bootstrap", "stage", "staged", "up",
              "seal", "sealput", "sealwrite"}
      => \A f \in Files : vault[f] # 0 /\ f \notin OnDisk
                          => pc[c] = "bootstrap" /\ f \in todo[c]

\* When Compose starts containers the staging tree is exactly the plaintext
\* of the durable files: nothing stale, nothing missing, nothing encrypted.
StagingFaithful ==
  \A c \in Commands : pc[c] = "up" =>
    staging = [f \in Files |-> disk[f].val]

\* Exposure heals: once faults cease, rerunning init completes a finalize.
ExposureHeals == interrupted ~> ~interrupted

\* Private material is never at rest in plaintext on the persistent disk
\* (persistence.py:3-4 and docs/SETUP-OCI.md:68-69).
NoPlaintextAtRest == AllIdle => ~Exposed

=============================================================================
