---------------------- MODULE SecurityPersistenceProofs ----------------------
(***************************************************************************)
(* Theorems about SecurityPersistence, for every set of files, every       *)
(* number of concurrent commands and every bound.                          *)
(***************************************************************************)
EXTENDS SecurityPersistence, TLAPS

-----------------------------------------------------------------------------
(* Type correctness *)

\* Every step of every command, and every failure, keeps the types of the
\* stores and of the commands' local state.
LEMMA TypeStep == TypeOK /\ [Next]_vars => TypeOK'
<1> SUFFICES ASSUME TypeOK, [Next]_vars PROVE TypeOK'
  OBVIOUS
<1> USE FilesAssumption, BoundsAssumption DEF TypeOK, stores, locals, history,
        Version, Master, Entry, PC, Op, Goto, Exit, Absent, Plain, Sealed, Cached
<1>1. ASSUME NEW c \in Commands, StartInit(c) \/ StartUnscopedInit(c) \/ StartDeploy(c)
      PROVE TypeOK'
  BY <1>1 DEF StartInit, StartUnscopedInit, StartDeploy, Start
<1>2. ASSUME NEW c \in Commands, NEW f \in Private, StartImport(c, f)
      PROVE TypeOK'
  BY <1>2 DEF StartImport, Start
<1>3. ASSUME NEW c \in Commands, CipherStep(c)
      PROVE TypeOK'
  BY <1>3 DEF CipherStep, ReadMaster, MintMaster, AfterCipher
<1>4. ASSUME NEW c \in Commands, RestoreStep(c)
      PROVE TypeOK'
  <2>1. CASE ListNames(c)
    BY <2>1 DEF ListNames
  <2>2. ASSUME NEW f \in Files, CheckExists(c, f)
        PROVE TypeOK'
    BY <2>2 DEF CheckExists
  <2>3. ASSUME NEW f \in Files, FetchSecret(c, f)
        PROVE TypeOK'
    BY <2>3 DEF FetchSecret
  <2>4. ASSUME NEW f \in Files, WriteCache(c, f)
        PROVE TypeOK'
    BY <2>4 DEF WriteCache
  <2>5. CASE RestoreDone(c)
    BY <2>5 DEF RestoreDone
  <2>6. QED
    BY <1>4, <2>1, <2>2, <2>3, <2>4, <2>5 DEF RestoreStep
<1>5. ASSUME NEW c \in Commands, Scan(c)
      PROVE TypeOK'
  BY <1>5 DEF Scan, LoopOf, OnDisk
<1>6. ASSUME NEW c \in Commands, NEW f \in Files, NEW loop \in PC, NEW label \in PC,
             ReadFile(c, f, loop, label)
      PROVE TypeOK'
  BY <1>6 DEF ReadFile
<1>7. ASSUME NEW c \in Commands, UnsealStep(c)
      PROVE TypeOK'
  <2>1. ASSUME NEW f \in Files, SkipPlain(c, f)
        PROVE TypeOK'
    BY <2>1 DEF SkipPlain
  <2>2. ASSUME NEW f \in Files, ReadSealed(c, f)
        PROVE TypeOK'
    BY <2>2, <1>6 DEF ReadSealed
  <2>3. ASSUME NEW f \in Files, WriteUnsealed(c, f)
        PROVE TypeOK'
    BY <2>3 DEF WriteUnsealed
  <2>4. CASE UnsealDone(c)
    BY <2>4 DEF UnsealDone
  <2>5. QED
    BY <1>7, <2>1, <2>2, <2>3, <2>4 DEF UnsealStep
<1>8. ASSUME NEW c \in Commands, BootstrapApplicable(c) \/ BootstrapNotApplicable(c)
      PROVE TypeOK'
  <2>1. CASE BootstrapApplicable(c)
    BY <2>1 DEF BootstrapApplicable
  <2>2. CASE BootstrapNotApplicable(c)
    <3>1. interrupted' \in BOOLEAN
      BY <2>2 DEF BootstrapNotApplicable
    <3>2. QED
      BY <2>2, <3>1 DEF BootstrapNotApplicable
  <2>3. QED
    BY <1>8, <2>1, <2>2
<1>9. ASSUME NEW c \in Commands, NEW f \in Files,
             BootstrapUnlink(c, f) \/ BootstrapWrite(c, f)
      PROVE TypeOK'
  <2>1. CASE BootstrapUnlink(c, f)
    BY <2>1 DEF BootstrapUnlink
  <2>2. CASE BootstrapWrite(c, f)
    BY <2>2 DEF BootstrapWrite
  <2>3. QED
    BY <1>9, <2>1, <2>2
<1>10. ASSUME NEW c \in Commands, SealStep(c)
       PROVE TypeOK'
  <2>1. ASSUME NEW f \in Files, ReadForSeal(c, f)
        PROVE TypeOK'
    BY <2>1, <1>6 DEF ReadForSeal
  <2>2. ASSUME NEW f \in Files, PutSecret(c, f)
        PROVE TypeOK'
    BY <2>2 DEF PutSecret
  <2>3. ASSUME NEW f \in Files, WriteSealed(c, f)
        PROVE TypeOK'
    BY <2>3 DEF WriteSealed
  <2>4. CASE SealDone(c)
    <3>1. interrupted' \in BOOLEAN
      BY <2>4 DEF SealDone
    <3>2. QED
      BY <2>4, <3>1 DEF SealDone
  <2>5. QED
    BY <1>10, <2>1, <2>2, <2>3, <2>4 DEF SealStep
<1>11. ASSUME NEW c \in Commands, StageStep(c)
       PROVE TypeOK'
  <2>1. CASE ClearStaging(c)
    BY <2>1 DEF ClearStaging
  <2>2. ASSUME NEW f \in Files, ReadForStage(c, f)
        PROVE TypeOK'
    BY <2>2, <1>6 DEF ReadForStage
  <2>3. ASSUME NEW f \in Files, WriteStaged(c, f)
        PROVE TypeOK'
    BY <2>3 DEF WriteStaged
  <2>4. CASE StageDone(c)
    BY <2>4 DEF StageDone
  <2>5. CASE ComposeUp(c)
    BY <2>5 DEF ComposeUp
  <2>6. QED
    BY <1>11, <2>1, <2>2, <2>3, <2>4, <2>5 DEF StageStep
<1>12. ASSUME NEW c \in Commands, NEW f \in Private, ImportPut(c, f)
       PROVE TypeOK'
  BY <1>12 DEF ImportPut
<1>13. ASSUME NEW c \in Commands, NEW f \in Private, ImportWrite(c, f)
       PROVE TypeOK'
  BY <1>13 DEF ImportWrite
<1>15. ASSUME NEW c \in Commands, Abort(c)
       PROVE TypeOK'
  BY <1>15 DEF Abort, InitOps
<1>16. CASE PowerLoss
  BY <1>16 DEF PowerLoss, AllExit, InitOps
<1>17. CASE Rebuild
  <2>1. interrupted' \in BOOLEAN
    BY <1>17 DEF Rebuild
  <2>2. QED
    BY <1>17, <2>1 DEF Rebuild, AllExit
<1>18. ASSUME NEW D \in SUBSET Files, Destroy(D)
       PROVE TypeOK'
  BY <1>18 DEF Destroy
<1>19. CASE UNCHANGED vars
  BY <1>19 DEF vars
<1>20. QED
  BY <1>1, <1>2, <1>3, <1>4, <1>5, <1>7, <1>8, <1>9, <1>10, <1>11, <1>12,
     <1>13, <1>15, <1>16, <1>17, <1>18, <1>19
  DEF Next, Run, BootstrapStep, ImportStep

\* The stores and the commands' local state always have their types.
THEOREM TypeCorrect == Spec => []TypeOK
<1>1. ASSUME Init PROVE TypeOK
  <2>1. 0 \in Version /\ 0 \in Master /\ 0 \in 0 .. MaxFaults
    BY BoundsAssumption DEF Version, Master
  <2>2. Absent \in Entry
    BY <2>1 DEF Absent, Entry
  <2>3. /\ vault \in [Files -> Version] /\ born \in [Files -> Version]
        /\ staging \in [Files -> Version] /\ disk \in [Files -> Entry]
        /\ master \in Master /\ minted \in Master /\ faults \in 0 .. MaxFaults
    BY <1>1, <2>1, <2>2 DEF Init
  <2>4. /\ pc \in [Commands -> PC] /\ op \in [Commands -> Op]
        /\ key \in [Commands -> Master] /\ buf \in [Commands -> Version]
        /\ todo \in [Commands -> SUBSET Files]
    BY <1>1, <2>1 DEF Init, PC, Op
  <2>5. interrupted \in BOOLEAN /\ halfImported \in SUBSET Files
    BY <1>1 DEF Init
  <2>6. QED
    BY <2>3, <2>4, <2>5 DEF TypeOK
<1>2. QED
  BY <1>1, TypeStep, PTL DEF Spec

-----------------------------------------------------------------------------
(* The master key *)

\* Labels at which a command holds a cipher it has just obtained or reuses.
HoldsCipher ==
  {"list", "exists", "fetch", "cache", "scan", "unseal", "unsealed", "bootstrap",
   "seal", "sealput", "sealwrite", "clear", "stage", "staged", "up", "importwrite"}

\* The inductive strengthening of CacheDecryptable: every cipher in use, and
\* every sealed file, belongs to the key Vault serves; a command mints only
\* while Vault has none, and then no other command runs.
KeyInv ==
  /\ \A f \in Files : disk[f].form = "sealed" => disk[f].key = master /\ master # 0
  /\ \A c \in Commands : pc[c] \in HoldsCipher => key[c] = master /\ master # 0
  /\ \A c \in Commands : pc[c] = "mint" => master = 0
  /\ master = 0 =>
       \A c, d \in Commands : pc[c] # "idle" /\ pc[d] # "idle" => c = d

\* While commands do not overlap before the master key exists, every step
\* keeps KeyInv.
LEMMA KeyStep ==
  ASSUME Overlap # "always", TypeOK, KeyInv, [Next]_vars
  PROVE  KeyInv'
<1> USE OverlapAssumption, FilesAssumption, BoundsAssumption
    DEF TypeOK, KeyInv, HoldsCipher, stores, locals, history, Goto, Exit,
        Absent, Plain, Sealed, Cached, Version, Master, Entry, PC
<1> DEFINE Goal == KeyInv'
<1>1. ASSUME NEW c \in Commands, StartInit(c) \/ StartUnscopedInit(c) \/ StartDeploy(c)
      PROVE Goal
  BY <1>1 DEF StartInit, StartUnscopedInit, StartDeploy, Start, MayStart, AllIdle
<1>2. ASSUME NEW c \in Commands, NEW f \in Private, StartImport(c, f)
      PROVE Goal
  BY <1>2 DEF StartImport, Start, MayStart, AllIdle
<1>3. ASSUME NEW c \in Commands, ReadMaster(c)
      PROVE Goal
  BY <1>3 DEF ReadMaster, AfterCipher
<1>4. ASSUME NEW c \in Commands, MintMaster(c)
      PROVE Goal
  BY <1>4 DEF MintMaster, AfterCipher
<1>5. ASSUME NEW c \in Commands, RestoreStep(c)
      PROVE Goal
  <2>1. CASE ListNames(c)
    BY <2>1 DEF ListNames
  <2>2. ASSUME NEW f \in Files, CheckExists(c, f)
        PROVE Goal
    BY <2>2 DEF CheckExists
  <2>3. ASSUME NEW f \in Files, FetchSecret(c, f)
        PROVE Goal
    BY <2>3 DEF FetchSecret
  <2>4. ASSUME NEW f \in Files, WriteCache(c, f)
        PROVE Goal
    BY <2>4 DEF WriteCache
  <2>5. CASE RestoreDone(c)
    BY <2>5 DEF RestoreDone
  <2>6. QED
    BY <1>5, <2>1, <2>2, <2>3, <2>4, <2>5 DEF RestoreStep
<1>6. ASSUME NEW c \in Commands, Scan(c)
      PROVE Goal
  BY <1>6 DEF Scan, LoopOf
<1>7. ASSUME NEW c \in Commands, NEW f \in Files,
             NEW loop \in HoldsCipher, NEW label \in HoldsCipher,
             ReadFile(c, f, loop, label)
      PROVE Goal
  BY <1>7 DEF ReadFile
<1>8. ASSUME NEW c \in Commands, UnsealStep(c)
      PROVE Goal
  <2>1. ASSUME NEW f \in Files, SkipPlain(c, f)
        PROVE Goal
    BY <2>1 DEF SkipPlain
  <2>2. ASSUME NEW f \in Files, ReadSealed(c, f)
        PROVE Goal
    BY <2>2, <1>7 DEF ReadSealed
  <2>3. ASSUME NEW f \in Files, WriteUnsealed(c, f)
        PROVE Goal
    BY <2>3 DEF WriteUnsealed
  <2>4. CASE UnsealDone(c)
    BY <2>4 DEF UnsealDone
  <2>5. QED
    BY <1>8, <2>1, <2>2, <2>3, <2>4 DEF UnsealStep
<1>9. ASSUME NEW c \in Commands, BootstrapApplicable(c) \/ BootstrapNotApplicable(c)
      PROVE Goal
  BY <1>9 DEF BootstrapApplicable, BootstrapNotApplicable
<1>10. ASSUME NEW c \in Commands, NEW f \in Files,
              BootstrapUnlink(c, f) \/ BootstrapWrite(c, f)
       PROVE Goal
  BY <1>10 DEF BootstrapUnlink, BootstrapWrite
<1>11. ASSUME NEW c \in Commands, SealStep(c)
       PROVE Goal
  <2>1. ASSUME NEW f \in Files, ReadForSeal(c, f)
        PROVE Goal
    BY <2>1, <1>7 DEF ReadForSeal
  <2>2. ASSUME NEW f \in Files, PutSecret(c, f)
        PROVE Goal
    BY <2>2 DEF PutSecret
  <2>3. ASSUME NEW f \in Files, WriteSealed(c, f)
        PROVE Goal
    BY <2>3 DEF WriteSealed
  <2>4. CASE SealDone(c)
    BY <2>4 DEF SealDone
  <2>5. QED
    BY <1>11, <2>1, <2>2, <2>3, <2>4 DEF SealStep
<1>12. ASSUME NEW c \in Commands, StageStep(c)
       PROVE Goal
  <2>1. CASE ClearStaging(c)
    BY <2>1 DEF ClearStaging
  <2>2. ASSUME NEW f \in Files, ReadForStage(c, f)
        PROVE Goal
    BY <2>2, <1>7 DEF ReadForStage
  <2>3. ASSUME NEW f \in Files, WriteStaged(c, f)
        PROVE Goal
    BY <2>3 DEF WriteStaged
  <2>4. CASE StageDone(c) \/ ComposeUp(c)
    BY <2>4 DEF StageDone, ComposeUp
  <2>5. QED
    BY <1>12, <2>1, <2>2, <2>3, <2>4 DEF StageStep
<1>13. ASSUME NEW c \in Commands, NEW f \in Private, ImportPut(c, f)
       PROVE Goal
  BY <1>13 DEF ImportPut
<1>14. ASSUME NEW c \in Commands, NEW f \in Private, ImportWrite(c, f)
       PROVE Goal
  BY <1>14 DEF ImportWrite
<1>16. ASSUME NEW c \in Commands, Abort(c)
       PROVE Goal
  BY <1>16 DEF Abort
<1>17. CASE PowerLoss \/ Rebuild
  BY <1>17 DEF PowerLoss, Rebuild, AllExit
<1>18. ASSUME NEW D \in SUBSET Files, Destroy(D)
       PROVE Goal
  BY <1>18 DEF Destroy
<1>19. CASE UNCHANGED vars
  BY <1>19 DEF vars
<1>20. QED
  BY <1>1, <1>2, <1>3, <1>4, <1>5, <1>6, <1>8, <1>9, <1>10, <1>11, <1>12,
     <1>13, <1>14, <1>16, <1>17, <1>18, <1>19
  DEF Next, Run, CipherStep, BootstrapStep, ImportStep

\* KeyInv is an invariant of every schedule that keeps commands apart until
\* the master key exists.
LEMMA KeyInvariance ==
  ASSUME Overlap # "always"
  PROVE  Spec => [](TypeOK /\ KeyInv)
<1>1. Init => KeyInv
  BY DEF Init, KeyInv, HoldsCipher, Absent
<1>2. TypeOK /\ KeyInv /\ [Next]_vars => KeyInv'
  BY KeyStep
<1>3. QED
  BY <1>1, <1>2, TypeCorrect, PTL DEF Spec

\* Every encrypted cache file opens with the key Vault serves.
THEOREM CacheStaysDecryptable ==
  ASSUME Overlap # "always"
  PROVE  Spec => []CacheDecryptable
<1>1. KeyInv => CacheDecryptable
  BY DEF KeyInv, CacheDecryptable
<1>2. QED
  BY <1>1, KeyInvariance, PTL

-----------------------------------------------------------------------------
(* Vault and cache, one command at a time *)

\* Loops have one current file.
LEMMA FirstIsUnique ==
  ASSUME NEW S \in SUBSET Files, NEW f, NEW g, IsFirst(f, S), IsFirst(g, S)
  PROVE  f = g
BY FilesAssumption DEF IsFirst

\* The restore loop has one current file too.
LEMMA NextNameIsUnique ==
  ASSUME NEW S \in SUBSET Files, NEW f, NEW g, IsNextName(f, S), IsNextName(g, S)
  PROVE  f = g
BY VaultRankAssumption DEF IsNextName

\* What command c knows about its current file f: the plaintext it carries is
\* the one on disk before an upload, and the one in Vault before a file write.
Carries(c, f) ==
  /\ pc[c] = "unsealed" => f \in OnDisk /\ buf[c] = disk[f].val
  /\ pc[c] = "sealput" => f \in OnDisk /\ buf[c] = disk[f].val
  /\ pc[c] = "sealwrite" => buf[c] = vault[f]
  /\ pc[c] = "importput" => buf[c] = born[f]
  /\ pc[c] \in {"master", "mint", "importwrite"} /\ op[c] = "import"
       => buf[c] = vault[f]
  /\ pc[c] = "importwrite" => op[c] = "import"

\* What the restore loop writes for f is what Vault holds.
Fetched(c, f) == pc[c] = "cache" => buf[c] = vault[f]

\* The inductive strengthening of SealedIsBacked and of the two properties
\* about half-done imports, for commands that never overlap.
SerialInv ==
  /\ \A f \in Files : vault[f] <= born[f] /\ disk[f].val <= born[f]
  /\ \A f \in Files : disk[f].form = "sealed" => disk[f].val <= vault[f]
  /\ \A f \in Files :
       disk[f].form # "absent" /\ disk[f].val < vault[f] => f \in halfImported
  /\ \A c, d \in Commands : pc[c] # "idle" /\ pc[d] # "idle" => c = d
  /\ \A c \in Commands, f \in Files : IsFirst(f, todo[c]) => Carries(c, f)
  /\ \A c \in Commands, f \in Files : IsNextName(f, todo[c]) => Fetched(c, f)

\* No command replaces a Vault value by an older one, except for a file whose
\* import stopped half way.
NoRegress == \A f \in Files : vault'[f] < vault[f] => f \in halfImported

\* A step that changes neither Vault, the disk nor the values created keeps
\* SerialInv when its command still carries what Carries and Fetched say.
LEMMA LocalStep ==
  ASSUME TypeOK, SerialInv, UNCHANGED <<vault, disk, born, halfImported>>,
         NEW c \in Commands, pc[c] # "idle" \/ AllIdle,
         pc' \in [Commands -> PC], op' \in [Commands -> Op],
         \A d \in Commands \ {c} : pc'[d] = pc[d],
         \A f \in Files : IsFirst(f, todo'[c]) => Carries(c, f)',
         \A f \in Files : IsNextName(f, todo'[c]) => Fetched(c, f)'
  PROVE  SerialInv' /\ NoRegress
<1>1. \A d \in Commands \ {c} : pc'[d] = "idle"
  BY DEF SerialInv, AllIdle
<1>2. \A d \in Commands \ {c}, f \in Files : Carries(d, f)' /\ Fetched(d, f)'
  BY <1>1 DEF Carries, Fetched
<1>3. NoRegress
  BY FilesAssumption DEF NoRegress, TypeOK, Version
<1>4. QED
  BY <1>1, <1>2, <1>3 DEF SerialInv

\* A step of the one running command that touches file f at most: the others
\* are idle, and the rest is about f.
LEMMA StoreStep ==
  ASSUME TypeOK, SerialInv, NEW c \in Commands, NEW f \in Files,
         pc[c] # "idle" \/ AllIdle,
         \A d \in Commands \ {c} : pc'[d] = pc[d],
         \A g \in Files : IsFirst(g, todo'[c]) => Carries(c, g)',
         pc'[c] # "cache",
         \A g \in Files \ {f} :
           /\ vault'[g] = vault[g] /\ disk'[g] = disk[g] /\ born'[g] = born[g]
           /\ g \in halfImported => g \in halfImported',
         vault'[f] <= born'[f], disk'[f].val <= born'[f],
         disk'[f].form = "sealed" => disk'[f].val <= vault'[f],
         disk'[f].form # "absent" /\ disk'[f].val < vault'[f] => f \in halfImported',
         vault'[f] < vault[f] => f \in halfImported
  PROVE  SerialInv' /\ NoRegress
<1>1. \A d \in Commands \ {c} : pc'[d] = "idle"
  BY DEF SerialInv, AllIdle
<1>2. \A d \in Commands \ {c}, g \in Files : Carries(d, g)' /\ Fetched(d, g)'
  BY <1>1 DEF Carries, Fetched
<1>3. \A g \in Files \ {f} : ~(vault'[g] < vault[g])
  BY FilesAssumption DEF TypeOK, Version
<1>4. NoRegress
  BY <1>3 DEF NoRegress
<1>5. \A g \in Files : vault'[g] <= born'[g] /\ disk'[g].val <= born'[g]
  BY DEF SerialInv
<1>6. \A g \in Files : disk'[g].form = "sealed" => disk'[g].val <= vault'[g]
  BY DEF SerialInv
<1>7. \A g \in Files :
        disk'[g].form # "absent" /\ disk'[g].val < vault'[g] => g \in halfImported'
  BY DEF SerialInv
<1>8. \A d, e \in Commands : pc'[d] # "idle" /\ pc'[e] # "idle" => d = e
  BY <1>1
<1>9. /\ \A d \in Commands, g \in Files : IsFirst(g, todo'[d]) => Carries(d, g)'
      /\ \A d \in Commands, g \in Files : IsNextName(g, todo'[d]) => Fetched(d, g)'
  BY <1>2 DEF Fetched
<1>10. QED
  BY <1>4, <1>5, <1>6, <1>7, <1>8, <1>9 DEF SerialInv, IsFirst, IsNextName

\* With one command at a time every step keeps SerialInv and moves no Vault
\* value backwards outside a half-done import.
LEMMA SerialStep ==
  ASSUME Overlap = "never", TypeOK, TypeOK', SerialInv, [Next]_vars
  PROVE  SerialInv' /\ NoRegress
<1> DEFINE Goal == SerialInv' /\ NoRegress
<1> USE FilesAssumption DEF stores, locals, history
<1>0. \A f \in Files :
        /\ vault[f] \in Nat /\ born[f] \in Nat /\ disk[f].val \in Nat
        /\ vault[f] <= born[f] /\ disk[f].val <= born[f]
        /\ disk[f].form # "absent" /\ disk[f].val < vault[f] => f \in halfImported
  BY DEF SerialInv, TypeOK, Version, Entry
<1>1. ASSUME NEW c \in Commands, StartInit(c) \/ StartUnscopedInit(c) \/ StartDeploy(c)
      PROVE Goal
  <2>1. AllIdle /\ pc' = [pc EXCEPT ![c] = "master"] /\ op'[c] # "import"
    BY <1>1 DEF StartInit, StartUnscopedInit, StartDeploy, Start, MayStart, Goto,
                TypeOK
  <2>2. \A d \in Commands, f \in Files : Carries(d, f)' /\ Fetched(d, f)'
    BY <2>1 DEF Carries, Fetched, AllIdle, TypeOK
  <2>3. UNCHANGED <<vault, disk, born, halfImported>>
    BY <1>1 DEF StartInit, StartUnscopedInit, StartDeploy
  <2>4. QED
    BY <2>1, <2>2, <2>3, LocalStep DEF TypeOK
<1>2. ASSUME NEW c \in Commands, NEW f \in Private, StartImport(c, f)
      PROVE Goal
  <2>1. AllIdle /\ pc' = [pc EXCEPT ![c] = "importput"] /\ op'[c] = "import"
    BY <1>2 DEF StartImport, Start, MayStart, Goto, TypeOK
  <2>2. \A g \in Files : IsFirst(g, todo'[c]) => Carries(c, g)'
    BY <1>2, <2>1 DEF StartImport, Carries, AllIdle, TypeOK, IsFirst
  <2>3. f \in Files /\ UNCHANGED <<vault, disk, halfImported>>
    BY <1>2 DEF StartImport
  <2>4. born' = [born EXCEPT ![f] = born[f] + 1]
    BY <1>2 DEF StartImport
  <2>5. vault'[f] <= born'[f] /\ disk'[f].val <= born'[f] /\ ~(vault'[f] < vault[f])
    BY <2>3, <2>4 DEF SerialInv, TypeOK, Version, Entry
  <2>6. QED
    BY <2>1, <2>2, <2>3, <2>4, <2>5, StoreStep DEF SerialInv, TypeOK
<1>3. ASSUME NEW c \in Commands, CipherStep(c)
      PROVE Goal
  <2>1. /\ pc[c] \in {"master", "mint"}
        /\ pc' = [pc EXCEPT ![c] = pc'[c]]
        /\ pc'[c] \in {"mint", "scan", "list", "importwrite"}
        /\ pc'[c] = "importwrite" => op[c] = "import"
    BY <1>3 DEF CipherStep, ReadMaster, MintMaster, AfterCipher, Goto, TypeOK, Op
  <2>2. UNCHANGED <<vault, disk, born, halfImported, op, todo, buf>>
    BY <1>3 DEF CipherStep, ReadMaster, MintMaster
  <2>3. \A f \in Files :
          (IsFirst(f, todo'[c]) => Carries(c, f)') /\ Fetched(c, f)'
    BY <2>1, <2>2 DEF SerialInv, Carries, Fetched
  <2>4. QED
    BY <2>1, <2>2, <2>3, LocalStep DEF TypeOK
<1>4. ASSUME NEW c \in Commands,
             \/ ListNames(c) \/ RestoreDone(c) \/ Scan(c) \/ UnsealDone(c)
             \/ ClearStaging(c) \/ StageDone(c)
             \/ BootstrapApplicable(c)
             \/ \E f \in Files : CheckExists(c, f) \/ SkipPlain(c, f) \/ WriteStaged(c, f)
      PROVE Goal
  <2>1. /\ pc[c] # "idle"
        /\ pc' = [pc EXCEPT ![c] = pc'[c]]
        /\ pc'[c] \in {"exists", "fetch", "clear", "scan", "unseal", "stage", "seal",
                       "bootstrap", "up", "master"}
        /\ pc'[c] = "master" => op'[c] # "import"
        /\ UNCHANGED <<vault, disk, born, halfImported>>
    BY <1>4 DEF ListNames, RestoreDone, Scan, UnsealDone, ClearStaging, StageDone,
                BootstrapApplicable, CheckExists, SkipPlain, WriteStaged, LoopOf,
                Goto, TypeOK
  <2>2. \A f \in Files : Carries(c, f)' /\ Fetched(c, f)'
    BY <2>1 DEF Carries, Fetched
  <2>3. QED
    BY <2>1, <2>2, LocalStep DEF TypeOK
<1>5. ASSUME NEW c \in Commands, NEW f \in Files, FetchSecret(c, f)
      PROVE Goal
  <2>1. /\ pc[c] # "idle" /\ pc' = [pc EXCEPT ![c] = "cache"]
        /\ UNCHANGED <<vault, disk, born, halfImported, todo>>
        /\ IsNextName(f, todo[c]) /\ buf'[c] = vault[f]
    BY <1>5 DEF FetchSecret, Goto, TypeOK
  <2>2. /\ \A g \in Files : Carries(c, g)'
        /\ \A g \in Files : IsNextName(g, todo'[c]) => Fetched(c, g)'
    BY <2>1, NextNameIsUnique DEF Carries, Fetched, TypeOK
  <2>3. QED
    BY <2>1, <2>2, LocalStep DEF TypeOK
<1>6. ASSUME NEW c \in Commands, NEW f \in Files, NEW label,
             \/ ReadSealed(c, f) /\ label = "unsealed"
             \/ ReadForSeal(c, f) /\ label = "sealput"
             \/ ReadForStage(c, f) /\ label = "staged"
      PROVE Goal
  <2>1. /\ pc[c] # "idle" /\ pc' = [pc EXCEPT ![c] = label]
        /\ UNCHANGED <<vault, disk, born, halfImported, todo>>
        /\ IsFirst(f, todo[c]) /\ f \in OnDisk /\ buf'[c] = disk[f].val
    BY <1>6 DEF ReadSealed, ReadForSeal, ReadForStage, ReadFile, Opens, Goto, TypeOK
  <2>2. \A g \in Files : IsFirst(g, todo'[c]) => Carries(c, g)'
    BY <1>6, <2>1, FirstIsUnique DEF Carries, TypeOK, OnDisk
  <2>3. \A g \in Files : Fetched(c, g)'
    BY <1>6, <2>1 DEF Fetched, TypeOK
  <2>4. QED
    BY <1>6, <2>1, <2>2, <2>3, LocalStep DEF TypeOK
<1>7. ASSUME NEW c \in Commands, NEW f \in Files, WriteCache(c, f)
      PROVE Goal
  <2>1. /\ pc[c] = "cache" /\ buf[c] = vault[f]
        /\ UNCHANGED <<vault, born>>
        /\ disk' = [disk EXCEPT ![f] = Cached(f, key[c], vault[f])]
        /\ halfImported' = halfImported \ {f}
        /\ pc' = [pc EXCEPT ![c] = "exists"]
    BY <1>7 DEF WriteCache, SerialInv, Fetched, Goto
  <2>2. \A g \in Files : Carries(c, g)'
    BY <2>1 DEF Carries, TypeOK
  <2>3. disk'[f].val = vault[f]
    BY <2>1 DEF TypeOK, Cached, Sealed, Plain
  <2>4. vault'[f] <= born'[f] /\ disk'[f].val <= vault'[f] /\ ~(disk'[f].val < vault'[f])
    <3>1. vault'[f] = vault[f] /\ born'[f] = born[f] /\ vault[f] <= born[f] /\ vault[f] \in Nat
      BY <1>0, <2>1
    <3>2. QED
      BY <2>3, <3>1
  <2>5. QED
    BY <2>1, <2>2, <2>3, <2>4, StoreStep DEF TypeOK
<1>8. ASSUME NEW c \in Commands, NEW f \in Files, WriteUnsealed(c, f)
      PROVE Goal
  <2>1. /\ pc[c] = "unsealed" /\ f \in OnDisk
        /\ UNCHANGED <<vault, born, halfImported>>
        /\ disk' = [disk EXCEPT ![f] = Plain(disk[f].val)]
        /\ pc' = [pc EXCEPT ![c] = "unseal"]
    BY <1>8 DEF WriteUnsealed, SerialInv, Carries, Goto
  <2>2. \A g \in Files : Carries(c, g)'
    BY <2>1 DEF Carries, TypeOK
  <2>3. disk'[f].val = disk[f].val /\ disk'[f].form = "plain" /\ disk[f].form # "absent"
    BY <2>1 DEF TypeOK, Plain, OnDisk
  <2>4. /\ vault'[f] <= born'[f] /\ disk'[f].val <= born'[f] /\ ~(vault'[f] < vault[f])
        /\ disk'[f].val < vault'[f] => f \in halfImported'
    BY <1>0, <2>1, <2>3
  <2>5. QED
    BY <2>1, <2>2, <2>3, <2>4, StoreStep DEF TypeOK
<1>9. ASSUME NEW c \in Commands, NEW f \in Files,
             BootstrapUnlink(c, f) \/ BootstrapWrite(c, f)
      PROVE Goal
  <2>1. /\ pc[c] = "bootstrap" /\ UNCHANGED <<vault, pc>>
        /\ halfImported' = halfImported \ {f}
    BY <1>9 DEF BootstrapUnlink, BootstrapWrite
  <2>2. \A g \in Files : Carries(c, g)'
    BY <2>1 DEF Carries, TypeOK
  <2>3. CASE BootstrapUnlink(c, f)
    <3>1. born' = born /\ disk' = [disk EXCEPT ![f] = Absent]
      BY <2>3 DEF BootstrapUnlink
    <3>2. disk'[f].val = 0 /\ disk'[f].form = "absent"
      BY <3>1 DEF TypeOK, Absent
    <3>3. vault'[f] <= born'[f] /\ disk'[f].val <= born'[f] /\ ~(vault'[f] < vault[f])
      BY <2>1, <3>1, <3>2 DEF SerialInv, TypeOK, Version
    <3>4. QED
      BY <2>1, <2>2, <3>1, <3>2, <3>3, StoreStep DEF TypeOK
  <2>4. CASE BootstrapWrite(c, f)
    <3>1. /\ born' = [born EXCEPT ![f] = born[f] + 1]
          /\ disk' = [disk EXCEPT ![f] = Plain(born[f] + 1)]
      BY <2>4 DEF BootstrapWrite
    <3>2. disk'[f].val = born[f] + 1 /\ born'[f] = born[f] + 1 /\ disk'[f].form = "plain"
      BY <3>1 DEF TypeOK, Plain
    <3>3. /\ vault'[f] <= born'[f] /\ disk'[f].val <= born'[f]
          /\ ~(disk'[f].val < vault'[f]) /\ ~(vault'[f] < vault[f])
      BY <2>1, <3>2 DEF SerialInv, TypeOK, Version
    <3>4. QED
      BY <2>1, <2>2, <3>1, <3>2, <3>3, StoreStep DEF TypeOK
  <2>5. QED
    BY <1>9, <2>3, <2>4
<1>10. ASSUME NEW c \in Commands, NEW f \in Files, PutSecret(c, f)
       PROVE Goal
  <2>1. /\ pc[c] = "sealput" /\ f \in OnDisk
        /\ IsFirst(f, todo[c]) /\ buf[c] = disk[f].val
        /\ UNCHANGED <<disk, born, op, todo, buf>>
        /\ vault' = [vault EXCEPT ![f] = disk[f].val]
        /\ halfImported' = halfImported \ {f}
        /\ pc' = [pc EXCEPT ![c] = "sealwrite"]
    BY <1>10 DEF PutSecret, SerialInv, Carries, Goto
  <2>2. \A g \in Files : IsFirst(g, todo'[c]) => Carries(c, g)'
    BY <2>1, FirstIsUnique DEF Carries, TypeOK
  <2>3. vault'[f] = disk[f].val /\ disk'[f] = disk[f] /\ disk[f].form # "absent"
    BY <2>1 DEF TypeOK, OnDisk
  <2>4. disk[f] \in Entry
    BY DEF TypeOK
  <2>5. disk[f].val \in Nat
    BY <2>4 DEF Entry, Version
  <2>6. /\ vault'[f] <= born'[f] /\ disk'[f].val <= vault'[f] /\ ~(disk'[f].val < vault'[f])
        /\ disk'[f].val <= born'[f]
    <3>1. disk[f].val <= born[f] /\ born'[f] = born[f]
      BY <1>0, <2>1
    <3>2. QED
      BY <2>3, <2>5, <3>1
  <2>7. vault'[f] < vault[f] => f \in halfImported
    BY <2>3 DEF SerialInv
  <2>8. QED
    BY <2>1, <2>2, <2>3, <2>6, <2>7, StoreStep DEF TypeOK
<1>11. ASSUME NEW c \in Commands, NEW f \in Files, WriteSealed(c, f)
       PROVE Goal
  <2>1. /\ pc[c] = "sealwrite" /\ UNCHANGED <<vault, born, halfImported>>
        /\ disk' = [disk EXCEPT ![f] = Cached(f, key[c], vault[f])]
        /\ pc' = [pc EXCEPT ![c] = "seal"]
    BY <1>11 DEF WriteSealed, SerialInv, Carries, Goto
  <2>2. \A g \in Files : Carries(c, g)'
    BY <2>1 DEF Carries, TypeOK
  <2>3. disk'[f].val = vault[f]
    BY <2>1 DEF TypeOK, Cached, Sealed, Plain
  <2>4. vault'[f] <= born'[f] /\ disk'[f].val <= vault'[f] /\ ~(disk'[f].val < vault'[f])
    <3>1. vault'[f] = vault[f] /\ born'[f] = born[f] /\ vault[f] <= born[f] /\ vault[f] \in Nat
      BY <1>0, <2>1
    <3>2. QED
      BY <2>3, <3>1
  <2>5. QED
    BY <2>1, <2>2, <2>3, <2>4, StoreStep DEF TypeOK
<1>12. ASSUME NEW c \in Commands, NEW f \in Private, ImportPut(c, f)
       PROVE Goal
  <2>1. /\ pc[c] = "importput" /\ IsFirst(f, todo[c]) /\ buf[c] = born[f]
        /\ UNCHANGED <<disk, born, op, todo, buf>>
        /\ vault' = [vault EXCEPT ![f] = born[f]]
        /\ halfImported' = halfImported \cup {f}
        /\ pc' = [pc EXCEPT ![c] = "master"]
    BY <1>12 DEF ImportPut, SerialInv, Carries, Goto
  <2>2. \A g \in Files : IsFirst(g, todo'[c]) => Carries(c, g)'
    BY <2>1, FirstIsUnique DEF Carries, TypeOK
  <2>3. f \in Files /\ vault'[f] = born[f] /\ f \in halfImported'
    BY <2>1 DEF TypeOK
  <2>4. /\ vault'[f] <= born'[f] /\ disk'[f].val <= born'[f] /\ disk'[f].val <= vault'[f]
        /\ ~(vault'[f] < vault[f])
    BY <2>1, <2>3 DEF SerialInv, TypeOK, Version, Entry
  <2>5. QED
    BY <2>1, <2>2, <2>3, <2>4, StoreStep DEF TypeOK
<1>13. ASSUME NEW c \in Commands, NEW f \in Private, ImportWrite(c, f)
       PROVE Goal
  <2>1. /\ pc[c] = "importwrite" /\ f \in Files /\ UNCHANGED <<vault, born>>
        /\ disk' = [disk EXCEPT ![f] = Sealed(key[c], vault[f])]
        /\ halfImported' = halfImported \ {f}
        /\ pc' = [pc EXCEPT ![c] = "idle"]
    BY <1>13 DEF ImportWrite, SerialInv, Carries, Goto, Exit
  <2>2. \A g \in Files : Carries(c, g)'
    BY <2>1 DEF Carries, TypeOK
  <2>3. disk'[f].val = vault[f]
    BY <2>1 DEF TypeOK, Sealed
  <2>4. vault'[f] <= born'[f] /\ disk'[f].val <= vault'[f] /\ ~(disk'[f].val < vault'[f])
    <3>1. vault'[f] = vault[f] /\ born'[f] = born[f] /\ vault[f] <= born[f] /\ vault[f] \in Nat
      BY <1>0, <2>1
    <3>2. QED
      BY <2>3, <3>1
  <2>5. QED
    BY <2>1, <2>2, <2>3, <2>4, StoreStep DEF TypeOK
<1>14. ASSUME NEW c \in Commands,
              \/ BootstrapNotApplicable(c) \/ SealDone(c) \/ ComposeUp(c) \/ Abort(c)
       PROVE Goal
  <2>1. /\ pc[c] # "idle" /\ pc' = [pc EXCEPT ![c] = "idle"]
        /\ UNCHANGED <<vault, disk, born, halfImported>>
    BY <1>14 DEF BootstrapNotApplicable, SealDone, ComposeUp, Abort, Exit, Goto
  <2>2. \A f \in Files : Carries(c, f)' /\ Fetched(c, f)'
    BY <2>1 DEF Carries, Fetched, TypeOK
  <2>3. QED
    BY <2>1, <2>2, LocalStep DEF TypeOK
<1>15. CASE PowerLoss \/ Rebuild
  <2>1. /\ \A d \in Commands : pc'[d] = "idle"
        /\ UNCHANGED <<vault, born>>
        /\ \/ UNCHANGED <<disk, halfImported>>
           \/ \A f \in Files : disk'[f] = Absent
    BY <1>15 DEF PowerLoss, Rebuild, AllExit
  <2>2. \A d \in Commands, g \in Files : Carries(d, g)' /\ Fetched(d, g)'
    BY <2>1 DEF Carries, Fetched
  <2>3. QED
    BY <2>1, <2>2 DEF SerialInv, NoRegress, TypeOK, Version, Absent
<1>16. ASSUME NEW D \in SUBSET Files, Destroy(D)
       PROVE Goal
  <2>1. /\ AllIdle /\ UNCHANGED <<vault, born, pc>>
        /\ disk' = [f \in Files |-> IF f \in D THEN Absent ELSE disk[f]]
        /\ halfImported' = halfImported \ D
    BY <1>16 DEF Destroy, MayStart
  <2>2. \A d \in Commands, g \in Files : Carries(d, g)' /\ Fetched(d, g)'
    BY <2>1 DEF Carries, Fetched, AllIdle
  <2>3. QED
    BY <2>1, <2>2 DEF SerialInv, NoRegress, AllIdle, TypeOK, Version, Absent
<1>17. CASE UNCHANGED vars
  BY <1>17 DEF vars, SerialInv, Carries, Fetched, OnDisk, NoRegress, TypeOK, Version
<1>18. QED
  BY <1>1, <1>2, <1>3, <1>4, <1>5, <1>6, <1>7, <1>8, <1>9, <1>10, <1>11, <1>12,
     <1>13, <1>14, <1>15, <1>16, <1>17
  DEF Next, Run, RestoreStep, UnsealStep, BootstrapStep, SealStep, StageStep, ImportStep

\* SerialInv is an invariant when commands run one at a time.
LEMMA SerialInvariance ==
  ASSUME Overlap = "never"
  PROVE  Spec => [](TypeOK /\ SerialInv)
<1>1. Init => SerialInv
  BY FilesAssumption DEF Init, SerialInv, Carries, Fetched, Absent
<1>2. TypeOK /\ TypeOK' /\ SerialInv /\ [Next]_vars => SerialInv'
  BY SerialStep
<1>3. QED
  BY <1>1, <1>2, TypeCorrect, PTL DEF Spec

\* With one command at a time a sealed file is never the only copy of its
\* value: Vault has it or a newer one, so a VM rebuild loses nothing sealed.
THEOREM SealedFilesAreBacked ==
  ASSUME Overlap = "never"
  PROVE  Spec => []SealedIsBacked
<1>1. SerialInv => SealedIsBacked
  BY DEF SerialInv, SealedIsBacked
<1>2. QED
  BY <1>1, SerialInvariance, PTL

\* With one command at a time the cache falls behind Vault only through an
\* import that stopped between its two writes.
THEOREM CacheFreshness ==
  ASSUME Overlap = "never"
  PROVE  Spec => []StaleOnlyAfterHalfImport
<1>1. SerialInv => StaleOnlyAfterHalfImport
  BY DEF SerialInv, StaleOnlyAfterHalfImport, OnDisk
<1>2. QED
  BY <1>1, SerialInvariance, PTL

\* With one command at a time Vault loses a newer value only to the finalize
\* that follows such an import.
THEOREM VaultRegression ==
  ASSUME Overlap = "never"
  PROVE  Spec => RegressionOnlyAfterHalfImport
<1>1. TypeOK /\ TypeOK' /\ SerialInv /\ [Next]_vars
        => [\A f \in Files : vault'[f] < vault[f] => f \in halfImported]_vars
  BY SerialStep DEF NoRegress
<1>2. QED
  BY <1>1, SerialInvariance, PTL DEF Spec, RegressionOnlyAfterHalfImport

=============================================================================
