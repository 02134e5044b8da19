--------------------------- MODULE ProductResources ---------------------------
(***************************************************************************)
(* The durable security files of the products, as the bootstrap services   *)
(* (deploy/support/bootstrap.py) create, copy and rotate them and as       *)
(* `destroy` (deploy/lifecycle.py) removes them: the shared CA, one TLS    *)
(* identity per service, the PostgreSQL password and its copies, OAuth's   *)
(* signing key and the public half it publishes from its data.  On the     *)
(* OCI target an init first restores missing files from Vault and at its   *)
(* end uploads all of them; how a file is sealed is in                     *)
(* SecurityPersistence.                                                    *)
(*                                                                         *)
(* Host commands run one at a time and may stop between any two steps.     *)
(* Every key, password or certificate is the generation that made it: 0 is *)
(* "no file".                                                              *)
(***************************************************************************)
EXTENDS Naturals, Sequences

CONSTANTS
  LocalHosts,  \* LOCAL installations, each the set of its services
  OciHosts,    \* OCI installations
  MaxMade,     \* bound: generations of one key or password
  MaxFaults    \* bound: interrupted commands, partial removals, VM rebuilds

NebulaServices == {"database", "core", "console", "explorer"}

AllServices == NebulaServices \cup {"oauth", "policy", "playground"}

Services == UNION (LocalHosts \cup OciHosts)

ASSUME HostsAssumption ==
  \A S \in LocalHosts \cup OciHosts : S # {} /\ S \subseteq AllServices
ASSUME BoundsAssumption == MaxMade \in Nat \ {0} /\ MaxFaults \in Nat

\* ANU_HOME/nebula holds core and console; every other service has its own.
Root == [s \in AllServices |-> IF s \in {"core", "console"} THEN "nebula" ELSE s]

Product == [s \in AllServices |-> IF s \in NebulaServices THEN "nebula" ELSE s]

\* A file is <<kind, owner>>; "ca" owns the tree shared by all products.
Cert(s) == <<"cert", s>>
Key(s) == <<"key", s>>
CaCert == <<"cert", "ca">>
CaKey == <<"key", "ca">>
Password == <<"password", "database">>
CorePassword == <<"password", "core">>
OAuthPassword == <<"password", "oauth">>
CoreCaKey == <<"cakey", "core">>
SigningKey == <<"signing", "oauth">>

Files ==
  {Cert(s) : s \in Services} \cup {Key(s) : s \in Services}
    \cup {CaCert, CaKey, Password, CorePassword, OAuthPassword, CoreCaKey, SigningKey}

\* The files that are generated; the others are copies or are made with them.
Sources == {Key(s) : s \in Services} \cup {CaKey, Password, SigningKey}

\* sorted() of the absolute paths: trees by name, certs before secrets.
PathOrder ==
  <<Cert("database"), Key("database"), Password, Cert("explorer"), Key("explorer"),
    Cert("console"), Key("console"), Cert("core"), Key("core"), CorePassword,
    CoreCaKey, CaCert, CaKey, Cert("oauth"), Key("oauth"), OAuthPassword, SigningKey,
    Cert("playground"), Key("playground"), Cert("policy"), Key("policy")>>

\* sorted() of the secret names: base32 sorts "-" before "/", "k" before "c".
RestoreOrder ==
  <<Cert("database"), Key("database"), Password, Cert("explorer"), Key("explorer"),
    Cert("oauth"), Key("oauth"), OAuthPassword, SigningKey, CaCert, CaKey,
    Key("console"), Cert("console"), Cert("core"), Key("core"), CorePassword,
    CoreCaKey, Cert("playground"), Key("playground"), Cert("policy"), Key("policy")>>

VARIABLES
  host,         \* its target, "local" or "oci", and its services
  disk,         \* disk[f]: the durable file, [made, ca]; ca only in identities
  vault,        \* vault[f]: its Vault secret (OCI)
  made,         \* made[f]: generations of source f so far
  roots,        \* durable product roots that exist
  cluster,      \* password PostgreSQL's data was initialized with; 0: no data
  verification, \* the signing key whose public half lies in OAuth's data
  pc,           \* next step of the running command
  scope,        \* its product, component selection and force scope
  todo,         \* services left in its current loop
  torn,         \* history: the last upload to Vault stopped half way
  mixed,        \* history: a restore put files of two generations together
  halfRemoved,  \* history: a removal left part of the database tree
  interrupted,  \* history: OAuth's last init stopped before its end, or its tree
                \*   was restored or removed in part
  faults        \* faults so far

durable == <<disk, vault, made, roots, cluster, verification>>
command == <<pc, scope, todo>>
history == <<torn, mixed, halfRemoved, interrupted, faults>>
vars == <<host, disk, vault, made, roots, cluster, verification,
          pc, scope, todo,
          torn, mixed, halfRemoved, interrupted, faults>>

Installed == host.services

Made == 0 .. MaxMade
File == [made : Made, ca : Made]
NoFile == [made |-> 0, ca |-> 0]

Present(f) == disk[f] # NoFile

PC == {"idle", "restore", "begin", "password", "copy", "ca", "coreca",
       "identities", "issue", "sign", "signing", "publish", "oauth",
       "finish", "up", "remove", "sharedca"}

ForceScope == {"none", "pki", "database", "all"}

\* whole: no component was named.
Scope == [op : {"none", "init", "deploy", "destroy"},
          product : AllServices \cup {"nebula"}, whole : BOOLEAN,
          selected : SUBSET Services, force : ForceScope]

NoScope == [op |-> "none", product |-> "nebula", whole |-> TRUE,
            selected |-> {}, force |-> "none"]

TypeOK ==
  /\ host \in [target : {"local", "oci"}, services : LocalHosts \cup OciHosts]
  /\ disk \in [Files -> File]
  /\ vault \in [Files -> File]
  /\ made \in [Sources -> Made]
  /\ roots \subseteq {"nebula"} \cup {Root[s] : s \in Installed}
  /\ cluster \in Made
  /\ verification \in Made
  /\ pc \in PC
  /\ scope \in Scope
  /\ todo \subseteq AllServices
  /\ {torn, mixed, halfRemoved, interrupted} \subseteq BOOLEAN
  /\ faults \in 0 .. MaxFaults

Init ==
  /\ host \in [target : {"local"}, services : LocalHosts]
              \cup [target : {"oci"}, services : OciHosts]
  /\ disk = [f \in Files |-> NoFile]
  /\ vault = [f \in Files |-> NoFile]
  /\ made = [f \in Sources |-> 0]
  /\ roots = {}
  /\ cluster = 0
  /\ verification = 0
  /\ pc = "idle"
  /\ scope = NoScope
  /\ todo = {}
  /\ torn = FALSE
  /\ mixed = FALSE
  /\ halfRemoved = FALSE
  /\ interrupted = FALSE
  /\ faults = 0
-----------------------------------------------------------------------------
(* Control flow *)

\* x is the first member of S in the order of a sequence.
IsFirst(x, S, order) ==
  /\ x \in S
  /\ \E i \in DOMAIN order : order[i] = x /\ \A j \in 1 .. i - 1 : order[j] \notin S

\* The members of S up to x.
UpTo(x, S, order) ==
  {y \in S : \E i, j \in DOMAIN order : i <= j /\ order[i] = y /\ order[j] = x}

Goto(label) == pc' = label

Exit ==
  /\ Goto("idle")
  /\ scope' = NoScope
  /\ todo' = {}

Start(op, label, product, whole, selected, force) ==
  /\ pc = "idle"
  /\ Goto(label)
  /\ scope' = [op |-> op, product |-> product, whole |-> whole,
               selected |-> selected, force |-> force]

\* What a command may name: a product, or one component of it.
Selections ==
  {<<p, TRUE, {s \in Installed : Product[s] = p}>> :
       p \in {Product[s] : s \in Installed}}
    \cup {<<Product[s], FALSE, {s}>> : s \in Installed}

Rotates(force, f) ==
  IF f = Password THEN force \in {"database", "all"}
  ELSE IF f = SigningKey THEN force = "all"
  ELSE f # CaKey /\ force \in {"pki", "all"}

Recoverable(f) == Present(f) \/ (host.target = "oci" /\ vault[f] # NoFile)

\* What an init with this force may make: keys and certificates go together.
Makes(force) ==
  {f \in Sources : \/ Rotates(force, f) \/ ~Recoverable(f)
                   \/ f[1] = "key" /\ ~Recoverable(Cert(f[2]))}

\* Bound: an init starts only while every source it may make has room.
Room(force) == \A f \in Makes(force) : made[f] < MaxMade

\* Which services are selected is all an init keeps of the component.
StartInit(product, selected, force) ==
  /\ Start("init", IF host.target = "oci" THEN "restore" ELSE "begin",
           product, TRUE, selected, force)
  /\ Room(force)
  /\ UNCHANGED <<host, durable, todo, history>>

\* Of a deploy, only the start of PostgreSQL concerns these files.
StartDeploy ==
  /\ Start("deploy", IF host.target = "oci" THEN "restore" ELSE "up",
           "nebula", TRUE, {}, "none")
  /\ UNCHANGED <<host, durable, todo, history>>

\* _durable_targets names the trees of a whole product, installed or not.
Targets(product, whole, selected) ==
  IF whole THEN {s \in AllServices : Product[s] = product} ELSE selected

StartDestroy(product, whole, selected) ==
  /\ Start("destroy", "remove", product, whole, selected, "none")
  /\ todo' = Targets(product, whole, selected)
  /\ UNCHANGED <<host, durable, history>>

-----------------------------------------------------------------------------
(* OCI: restore what Vault has and the disk lacks *)

Missing == {f \in Files : vault[f] # NoFile /\ ~Present(f)}

\* No other command runs: of the states between two files only those count
\* in which the restore stops.
Restored(S) ==
  /\ pc = "restore"
  /\ disk' = [f \in Files |-> IF f \in S THEN vault[f] ELSE disk[f]]
  /\ roots' = roots \cup {Root[f[2]] : f \in {g \in S : g[2] # "ca"}}
  /\ mixed' =
       (mixed \/ (S # {} /\ (torn \/ \E g \in Files : Present(g) /\ disk[g] # vault[g])))

\* OAuth's data is not in Vault: its signing key comes without the public half.
Unpublished(S) == interrupted \/ SigningKey \in S

Restore ==
  /\ Restored(Missing)
  /\ interrupted' = Unpublished(Missing)
  /\ Goto(IF scope.op = "deploy" THEN "up" ELSE "begin")
  /\ UNCHANGED <<host, vault, made, cluster, verification, scope, todo,
                 torn, halfRemoved, faults>>

-----------------------------------------------------------------------------
(* initialize of the product's bootstrap service *)

Applicable == scope.selected # {} /\ (scope.product = "nebula" \/ scope.force # "database")

RotatesPassword == "database" \in scope.selected /\ Rotates(scope.force, Password)

\* migrate, which selects nothing, or a force scope the product does not have.
NotApplicable ==
  /\ pc = "begin"
  /\ ~Applicable
  /\ Exit
  /\ UNCHANGED <<host, durable, history>>

\* Mutant of PasswordInUse: the validation is dropped.
NeverInUse == FALSE

\* _validate_database_password_rotation.
PasswordInUse == Present(Password) /\ cluster # 0

RefuseRotation ==
  /\ pc = "begin"
  /\ Applicable
  /\ RotatesPassword /\ PasswordInUse
  /\ Exit
  /\ UNCHANGED <<host, durable, history>>

BeginInit ==
  /\ pc = "begin"
  /\ Applicable
  /\ ~(RotatesPassword /\ PasswordInUse)
  /\ roots' = roots \cup {Root[s] : s \in scope.selected}
  /\ Goto(IF "database" \in scope.selected THEN "password" ELSE "ca")
  /\ UNCHANGED <<host, disk, vault, made, cluster, verification, scope, todo, history>>

\* _ensure_database_password.
EnsurePassword ==
  /\ pc = "password"
  /\ IF RotatesPassword \/ ~Present(Password)
       THEN /\ made' = [made EXCEPT ![Password] = @ + 1]
            /\ disk' = [disk EXCEPT ![Password] = [made |-> made[Password] + 1, ca |-> 0]]
       ELSE UNCHANGED <<made, disk>>
  /\ Goto("copy")
  /\ UNCHANGED <<host, vault, roots, cluster, verification, scope, todo, history>>

\* Mutant of CopyToCore: an existing copy is kept.
CopyToCoreIfMissing ==
  /\ pc = "copy"
  /\ disk' = IF Present(CorePassword) THEN disk
             ELSE [disk EXCEPT ![CorePassword] = disk[Password]]
  /\ roots' = roots \cup {"nebula"}
  /\ Goto("ca")
  /\ UNCHANGED <<host, vault, made, cluster, verification, scope, todo, history>>

\* _synchronize_database_password creates the Core secrets directory.
CopyToCore ==
  /\ pc = "copy"
  /\ disk' = [disk EXCEPT ![CorePassword] = disk[Password]]
  /\ roots' = roots \cup {"nebula"}
  /\ Goto("ca")
  /\ UNCHANGED <<host, vault, made, cluster, verification, scope, todo, history>>

\* After ensure_ca: Core's copy of the CA key, then the identities.
AfterCa ==
  /\ Goto(IF "core" \in scope.selected THEN "coreca" ELSE "identities")
  /\ todo' = scope.selected

KeepCa ==
  /\ pc = "ca"
  /\ Present(CaCert) /\ Present(CaKey)
  /\ AfterCa
  /\ UNCHANGED <<host, durable, scope, history>>

\* No init forces the CA; anu_ensure_local_ca makes a missing one.
CreateCa ==
  /\ pc = "ca"
  /\ ~(Present(CaCert) /\ Present(CaKey))
  /\ made' = [made EXCEPT ![CaKey] = @ + 1]
  /\ disk' = [f \in Files |->
       IF f \in {CaCert, CaKey} THEN [made |-> made[CaKey] + 1, ca |-> 0] ELSE disk[f]]
  /\ AfterCa
  /\ UNCHANGED <<host, vault, roots, cluster, verification, scope, history>>

\* An init of OAuth counts as interrupted when it ends here.
Broken == scope.op = "init" /\ "oauth" \in scope.selected

Fail ==
  /\ Exit
  /\ interrupted' = (interrupted \/ Broken)

\* A certificate without its key, or the reverse, may also be an error.
RejectCa ==
  /\ pc = "ca"
  /\ Present(CaCert) # Present(CaKey)
  /\ Fail
  /\ UNCHANGED <<host, durable, torn, mixed, halfRemoved, faults>>

CopyCaKey ==
  /\ pc = "coreca"
  /\ disk' = [disk EXCEPT ![CoreCaKey] = disk[CaKey]]
  /\ Goto("identities")
  /\ UNCHANGED <<host, vault, made, roots, cluster, verification, scope, todo, history>>

\* The order of the identities; the other products have one service each.
IssueOrder ==
  <<"core", "console", "explorer", "database", "oauth", "policy", "playground">>

\* _identity_matches: both files exist and the names are covered.  Which CA
\* signed the certificate, and whether the key fits, is not looked at.
IdentityMatches(s) == Present(Cert(s)) /\ Present(Key(s))

KeepIdentity(s) ==
  /\ pc = "identities"
  /\ IsFirst(s, todo, IssueOrder)
  /\ IdentityMatches(s) /\ ~Rotates(scope.force, Key(s))
  /\ todo' = todo \ {s}
  /\ UNCHANGED <<host, durable, pc, scope, history>>

MustIssue(s) ==
  /\ pc = "identities"
  /\ IsFirst(s, todo, IssueOrder)
  /\ ~IdentityMatches(s) \/ Rotates(scope.force, Key(s))

\* Mutant of DropIdentity: the old certificate stays until it is replaced.
DropKeyOnly(s) ==
  /\ MustIssue(s)
  /\ disk' = [disk EXCEPT ![Key(s)] = NoFile]
  /\ Goto("issue")
  /\ UNCHANGED <<host, vault, made, roots, cluster, verification, scope, todo, history>>

DropIdentity(s) ==
  /\ MustIssue(s)
  /\ disk' = [disk EXCEPT ![Cert(s)] = NoFile, ![Key(s)] = NoFile]
  /\ Goto("issue")
  /\ UNCHANGED <<host, vault, made, roots, cluster, verification, scope, todo, history>>

\* anu_issue_local_server_certificate: a new key, then a certificate for it.
IssueKey(s) ==
  /\ pc = "issue"
  /\ IsFirst(s, todo, IssueOrder)
  /\ made' = [made EXCEPT ![Key(s)] = @ + 1]
  /\ disk' = [disk EXCEPT ![Key(s)] = [made |-> made[Key(s)] + 1, ca |-> 0]]
  /\ Goto("sign")
  /\ UNCHANGED <<host, vault, roots, cluster, verification, scope, todo,
                 history>>

\* Mutant of SignCert: the certificate has no issuer.
SignWithoutCa(s) ==
  /\ pc = "sign"
  /\ IsFirst(s, todo, IssueOrder)
  /\ disk' = [disk EXCEPT ![Cert(s)] = [made |-> disk[Key(s)].made]]
  /\ todo' = todo \ {s}
  /\ Goto("identities")
  /\ UNCHANGED <<host, vault, made, roots, cluster, verification, scope,
                 history>>

SignCert(s) ==
  /\ pc = "sign"
  /\ IsFirst(s, todo, IssueOrder)
  /\ disk' = [disk EXCEPT ![Cert(s)] =
       [made |-> disk[Key(s)].made, ca |-> disk[CaKey].made]]
  /\ todo' = todo \ {s}
  /\ Goto("identities")
  /\ UNCHANGED <<host, vault, made, roots, cluster, verification, scope,
                 history>>

IdentitiesDone ==
  /\ pc = "identities"
  /\ todo = {}
  /\ Goto(IF scope.product = "oauth" THEN "signing" ELSE "finish")
  /\ UNCHANGED <<host, durable, scope, todo, history>>

MakeSigningKey ==
  /\ pc = "signing"
  /\ IF Rotates(scope.force, SigningKey) \/ ~Present(SigningKey)
       THEN /\ made' = [made EXCEPT ![SigningKey] = @ + 1]
            /\ disk' = [disk EXCEPT ![SigningKey] = [made |-> made[SigningKey] + 1, ca |-> 0]]
       ELSE UNCHANGED <<made, disk>>
  /\ Goto("publish")
  /\ UNCHANGED <<host, vault, roots, cluster, verification, scope, todo,
                 history>>

\* Mutant of PublishKey: a public half that is there is kept.
PublishKeyIfMissing ==
  /\ pc = "publish"
  /\ verification' = IF verification = 0 THEN disk[SigningKey].made ELSE verification
  /\ Goto("oauth")
  /\ UNCHANGED <<host, disk, vault, made, roots, cluster, scope, todo,
                 history>>

\* signing-public.pem and then the verification key, made anew by every init.
PublishKey ==
  /\ pc = "publish"
  /\ verification' = disk[SigningKey].made
  /\ Goto("oauth")
  /\ UNCHANGED <<host, disk, vault, made, roots, cluster, scope, todo,
                 history>>

\* OAuth takes its copy last, and raises when the database has no password.
CopyToOAuth ==
  /\ pc = "oauth"
  /\ Present(Password)
  /\ disk' = [disk EXCEPT ![OAuthPassword] = disk[Password]]
  /\ Goto("finish")
  /\ UNCHANGED <<host, vault, made, roots, cluster, verification, scope, todo,
                 history>>

RejectOAuth ==
  /\ pc = "oauth"
  /\ ~Present(Password)
  /\ Fail
  /\ UNCHANGED <<host, durable, torn, mixed, halfRemoved, faults>>

-----------------------------------------------------------------------------
(* initialize returned True: LOCAL is done, OCI uploads what is on disk *)

Complete ==
  /\ Exit
  /\ interrupted' = (interrupted /\ "oauth" \notin scope.selected)

FinishLocal ==
  /\ pc = "finish"
  /\ host.target = "local"
  /\ Complete
  /\ UNCHANGED <<host, durable, torn, mixed, halfRemoved, faults>>

\* Again only the states in which an upload stops count.
Uploaded(S) ==
  /\ vault' = [f \in Files |-> IF f \in S THEN disk[f] ELSE vault[f]]
  /\ torn' = \E f \in Files : Present(f) /\ vault'[f] # disk[f]

OnDisk == {f \in Files : Present(f)}

FinishOci ==
  /\ pc = "finish"
  /\ host.target = "oci"
  /\ Uploaded(OnDisk)
  /\ Complete
  /\ UNCHANGED <<host, disk, made, roots, cluster, verification, mixed, halfRemoved,
                 faults>>

UploadPart ==
  /\ pc = "finish"
  /\ host.target = "oci"
  /\ \E f \in OnDisk : Uploaded(UpTo(f, OnDisk, PathOrder))

-----------------------------------------------------------------------------
(* PostgreSQL: an empty data directory is initialized with the password     *)
(* file; existing data keeps the password it was initialized with           *)

StartPostgres ==
  /\ pc = "up"
  /\ cluster' = IF cluster = 0 THEN disk[Password].made ELSE cluster
  /\ Exit
  /\ UNCHANGED <<host, disk, vault, made, roots, verification, history>>

-----------------------------------------------------------------------------
(* destroy: the durable targets one by one, then the CA nobody else uses *)

RemoveOrder ==
  <<"core", "console", "database", "explorer", "oauth", "policy", "playground">>

\* One target: the nebula directory is removed as a whole, or by component.
RemovedWith(s) ==
  IF scope.whole THEN {t \in todo : Root[t] = Root[s]} ELSE {s}

\* A component of nebula or playground is a directory below its root.
RootsWithout(s) ==
  IF scope.whole \/ s \notin {"core", "console", "playground"}
    THEN roots \ {Root[s]}
    ELSE roots

RemoveTarget(s) ==
  /\ pc = "remove"
  /\ IsFirst(s, todo, RemoveOrder)
  /\ LET G == RemovedWith(s)
     IN /\ disk' = [f \in Files |-> IF f[2] \in G THEN NoFile ELSE disk[f]]
        /\ cluster' = IF "database" \in G THEN 0 ELSE cluster
        /\ verification' = IF "oauth" \in G THEN 0 ELSE verification
        /\ halfRemoved' = (halfRemoved /\ "database" \notin G)
        /\ interrupted' = (interrupted /\ "oauth" \notin G)
        /\ todo' = todo \ G
  /\ roots' = RootsWithout(s)
  /\ UNCHANGED <<host, vault, made, pc, scope,
                 torn, mixed, faults>>

\* rmtree(ignore_errors=True), or its process, may leave any part of a tree.
RemovePart(s) ==
  /\ pc = "remove"
  /\ faults < MaxFaults
  /\ IsFirst(s, todo, RemoveOrder)
  /\ LET G == RemovedWith(s)
     IN /\ \E Kept \in SUBSET {f \in Files : f[2] \in G /\ Present(f)} :
             disk' = [f \in Files |-> IF f[2] \in G /\ f \notin Kept THEN NoFile ELSE disk[f]]
        /\ cluster' \in IF "database" \in G THEN {0, cluster} ELSE {cluster}
        /\ verification' \in IF "oauth" \in G THEN {0, verification} ELSE {verification}
        /\ interrupted' = (interrupted \/ "oauth" \in G)
        /\ halfRemoved' = (halfRemoved \/ "database" \in G)
        /\ todo' = todo \ G
  /\ faults' = faults + 1
  /\ UNCHANGED <<host, vault, made, roots, pc, scope,
                 torn, mixed>>

TargetsDone ==
  /\ pc = "remove"
  /\ todo = {}
  /\ IF scope.whole
       THEN Goto("sharedca") /\ UNCHANGED <<scope, todo>>
       ELSE Exit
  /\ UNCHANGED <<host, durable, history>>

\* Mutants of CaUnused: some of the roots are forgotten.
NebulaGone == roots \cap {"nebula", "database", "explorer"} = {}

StandaloneGone == roots \cap {"oauth", "policy", "playground"} = {}

CaUnused == roots = {}

\* _remove_shared_ca_when_unused.
RemoveSharedCa ==
  /\ pc = "sharedca"
  /\ disk' = IF CaUnused
               THEN [disk EXCEPT ![CaCert] = NoFile, ![CaKey] = NoFile]
               ELSE disk
  /\ Exit
  /\ UNCHANGED <<host, vault, made, roots, cluster, verification, history>>

\* Its rmtree(ignore_errors=True), too, may leave one of the two.
RemoveCaPart ==
  /\ pc = "sharedca"
  /\ faults < MaxFaults
  /\ CaUnused
  /\ \E f \in {CaCert, CaKey} : disk' = [disk EXCEPT ![f] = NoFile]
  /\ Exit
  /\ faults' = faults + 1
  /\ UNCHANGED <<host, vault, made, roots, cluster, verification,
                 torn, mixed, halfRemoved, interrupted>>

-----------------------------------------------------------------------------
(* Failures *)

\* A call raises, or the process is killed.
Stop ==
  /\ pc # "idle"
  /\ faults < MaxFaults
  /\ Fail
  /\ faults' = faults + 1
  /\ UNCHANGED <<host, durable, torn, mixed, halfRemoved>>

\* A Vault call fails while files are being restored.
StopRestore ==
  /\ pc = "restore"
  /\ faults < MaxFaults
  /\ \E f \in Missing :
       /\ Restored(UpTo(f, Missing, RestoreOrder))
       /\ interrupted' = (Unpublished(UpTo(f, Missing, RestoreOrder)) \/ Broken)
  /\ Exit
  /\ faults' = faults + 1
  /\ UNCHANGED <<host, vault, made, cluster, verification, torn, halfRemoved>>

\* A Vault call fails while files are being uploaded.
StopUpload ==
  /\ faults < MaxFaults
  /\ UploadPart
  /\ Fail
  /\ faults' = faults + 1
  /\ UNCHANGED <<host, disk, made, roots, cluster, verification, mixed, halfRemoved>>

\* VM-only rebuild: Vault survives, the VM's files and data do not.
Rebuild ==
  /\ host.target = "oci"
  /\ faults < MaxFaults
  /\ UploadPart \/ UNCHANGED <<vault, torn>>
  /\ Exit
  /\ disk' = [f \in Files |-> NoFile]
  /\ roots' = {}
  /\ cluster' = 0
  /\ verification' = 0
  /\ halfRemoved' = FALSE
  /\ interrupted' = (interrupted \/ Broken)
  /\ faults' = faults + 1
  /\ UNCHANGED <<host, made, mixed>>

-----------------------------------------------------------------------------

Begin ==
  \/ \E sel \in Selections, force \in ForceScope :
       StartInit(sel[1], sel[3], force)
  \/ StartInit("nebula", {}, "none")
  \/ \E sel \in Selections : StartDestroy(sel[1], sel[2], sel[3])
  \/ StartDeploy

Run ==
  \/ Restore \/ NotApplicable \/ RefuseRotation \/ BeginInit
  \/ EnsurePassword \/ CopyToCore
  \/ KeepCa \/ CreateCa \/ RejectCa \/ CopyCaKey
  \/ \E s \in Services : KeepIdentity(s) \/ DropIdentity(s)
                         \/ IssueKey(s) \/ SignCert(s)
  \/ IdentitiesDone \/ MakeSigningKey \/ PublishKey \/ CopyToOAuth \/ RejectOAuth
  \/ FinishLocal \/ FinishOci
  \/ StartPostgres
  \/ \E s \in AllServices : RemoveTarget(s)
  \/ TargetsDone \/ RemoveSharedCa

Faulty ==
  \/ \E s \in AllServices : RemovePart(s)
  \/ RemoveCaPart
  \/ Stop
  \/ StopRestore
  \/ StopUpload
  \/ Rebuild

Next == Begin \/ Run \/ Faulty

Spec == Init /\ [][Next]_vars

-----------------------------------------------------------------------------
(* Properties *)

\* Every server certificate on disk is signed by the CA on disk: no sequence
\* of inits, forces and destroys rotates or removes the shared CA under an
\* identity that was issued from it.
IdentitiesTrusted ==
  ~mixed /\ Present(CaCert) =>
    \A s \in Services : Present(Cert(s)) => disk[Cert(s)].ca = disk[CaCert].made

\* A certificate lies beside its own private key, also after a rotation that
\* stopped between dropping the old pair and issuing the new one.
PairsMatch ==
  ~mixed =>
    \A s \in Services \cup {"ca"} :
      Present(Cert(s)) /\ Present(Key(s)) => disk[Cert(s)].made = disk[Key(s)].made

\* The CA key Core signs with is the key of the shared CA.
CoreCaKeyCurrent ==
  ~mixed /\ Present(CoreCaKey) /\ Present(CaKey) => disk[CoreCaKey] = disk[CaKey]

\* The password file opens the existing PostgreSQL data: neither an init nor a
\* restore replaces or loses the password under data, unless a removal left half
\* of the database tree.
PasswordOpensCluster ==
  ~halfRemoved /\ cluster # 0 => disk[Password].made = cluster

\* The password and those of its copies that an init of these services makes.
CopiesAgree(m, selected) ==
  /\ "database" \in selected => m[CorePassword] = m[Password]
  /\ "oauth" \in selected => m[OAuthPassword] = m[Password]

\* An init of the database, or of OAuth, that ends well leaves one password: its
\* copy is the database's on disk and, on OCI, in Vault, from where a rebuilt VM
\* takes both.  Whatever came before is repaired: an init cut off between the
\* password and its copy (bootstrap.py:378), a rotation that OAuth did not see
\* (:578), a destroy of Core alone, whose own init makes no copy (:319), a restore
\* of two generations, an upload that stopped half way.
InitSyncsCopies ==
  [][FinishLocal \/ FinishOci =>
       /\ CopiesAgree(disk', scope.selected)
       /\ host.target = "oci" => CopiesAgree(vault', scope.selected)]_vars

\* Between commands OAuth publishes the key it signs with: a forced rotation, an
\* init that fails on the missing database password, a destroy and a restore
\* leave a stale public half only until an OAuth init ends well (bootstrap.py:557).
SigningKeyPublished ==
  pc = "idle" /\ Present(SigningKey) /\ ~interrupted =>
    verification = disk[SigningKey].made

\* initialize is idempotent and _identity_matches accepts "an existing
\* key/certificate pair" (bootstrap.py:241): when an init ends, a service's
\* certificate and private key belong together.
InitYieldsPairs ==
  pc = "finish" =>
    \A s \in scope.selected : disk[Cert(s)].made = disk[Key(s)].made

=============================================================================
