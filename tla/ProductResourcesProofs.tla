------------------------ MODULE ProductResourcesProofs ------------------------
(***************************************************************************)
(* What holds of the products' durable files for any hosts, any number of  *)
(* key generations and any number of faults: every state invariant that    *)
(* ProductResources states of the shared CA, the identities, the passwords *)
(* and OAuth's signing key, with the inductive invariants they need.       *)
(***************************************************************************)
EXTENDS ProductResources, TLAPS

-----------------------------------------------------------------------------
(* The inductive invariants *)

\* The steps of an init once its restore is over.
InitSteps ==
  {"begin", "password", "copy", "ca", "coreca", "identities", "issue", "sign",
   "signing", "publish", "oauth", "finish"}

\* The steps that come after ensure_ca.
CaSteps == {"coreca", "identities", "issue", "sign", "signing", "publish", "oauth", "finish"}

\* The type invariant without the bound of the generations.
WeakFile == [made : Nat, ca : Nat]

WeakTypeOK ==
  /\ host \in [target : {"local", "oci"}, services : LocalHosts \cup OciHosts]
  /\ disk \in [Files -> WeakFile]
  /\ vault \in [Files -> WeakFile]
  /\ made \in [Sources -> Nat]
  /\ cluster \in Nat
  /\ verification \in Nat
  /\ pc \in PC
  /\ scope \in Scope
  /\ todo \subseteq AllServices
  /\ torn \in BOOLEAN /\ mixed \in BOOLEAN /\ halfRemoved \in BOOLEAN
  /\ interrupted \in BOOLEAN
  /\ faults \in 0 .. MaxFaults

\* Which command runs at which step, and what it has selected.
Control ==
  /\ pc = "idle" => scope.op = "none"
  /\ pc = "restore" => scope.op \in {"init", "deploy"} /\ host.target = "oci"
  /\ pc = "up" => scope.op = "deploy"
  /\ pc \in {"remove", "sharedca"} => scope.op = "destroy"
  /\ pc \in InitSteps => scope.op = "init"
  /\ scope.selected \subseteq Installed
  /\ scope.selected # {} => (scope.product = "oauth" <=> "oauth" \in scope.selected)
  /\ pc \in {"password", "copy"} => "database" \in scope.selected
  /\ pc = "coreca" => "core" \in scope.selected
  /\ pc \in InitSteps \ {"begin"} => scope.selected # {}
  /\ pc \in {"coreca", "identities", "issue", "sign"} => todo \subseteq scope.selected
  /\ pc \in {"signing", "publish", "oauth"} => scope.product = "oauth"
  /\ scope.op = "destroy" /\ scope.whole =>
       \A s, t \in AllServices : s \in todo /\ Root[t] = Root[s] => t \in todo

ControlInv == WeakTypeOK /\ Control

\* The identity an init is issuing.
Current(s) == IsFirst(s, todo, IssueOrder)

\* A file or secret that is there holds some generation.
Generated ==
  \A f \in Files :
    /\ disk[f].made = 0 => disk[f] = NoFile
    /\ vault[f].made = 0 => vault[f] = NoFile

\* What earlier steps of an init have left on disk for the later ones.
Ready ==
  /\ pc = "copy" => Present(Password)
  /\ pc \in CaSteps => Present(CaCert) /\ Present(CaKey)
  /\ \A s \in Services : pc \in {"issue", "sign"} /\ Current(s) => ~Present(Cert(s))
  /\ \A s \in Services : pc = "sign" /\ Current(s) => Present(Key(s))

\* The files an init has dropped to issue them again.
Dropped(f) ==
  \E s \in Services :
    Current(s) /\ \/ pc = "issue" /\ f \in {Cert(s), Key(s)}
                  \/ pc = "sign" /\ f = Cert(s)

\* After its restore an init has on disk all that is in Vault, but those files.
HasVault ==
  /\ host.target = "local" => \A f \in Files : vault[f] = NoFile
  /\ pc \in InitSteps => \A f \in Files : vault[f] # NoFile => Present(f) \/ Dropped(f)

FilesInv == ControlInv /\ Generated /\ Ready /\ HasVault

\* OAuth's data holds the public half of its signing key.
SigningInv ==
  /\ pc # "publish" /\ Present(SigningKey) /\ ~interrupted =>
       verification = disk[SigningKey].made
  /\ pc \in {"oauth", "finish"} /\ scope.product = "oauth" =>
       verification = disk[SigningKey].made

\* An init that would replace the password under data does not get that far.
ClusterInv ==
  /\ PasswordOpensCluster
  /\ pc = "password" => ~(RotatesPassword /\ PasswordInUse)

\* Files lie only in trees of installed services, of Core or of the CA, and a
\* tree with files has its root.
Owned ==
  /\ \A f \in Files : Present(f) \/ vault[f] # NoFile => f[2] \in Installed \cup {"core", "ca"}
  /\ \A f \in Files : Present(f) /\ f[2] # "ca" => Root[f[2]] \in roots
  /\ roots \subseteq {"nebula"} \cup {Root[s] : s \in Installed}
  /\ pc \in InitSteps \ {"begin"} => \A s \in scope.selected : Root[s] \in roots

\* A set of files, on disk or in Vault, whose keys fit each other.  The CA may be
\* there in part, when nothing that hangs on it is.
Consistent(m) ==
  /\ m[CaCert] # NoFile /\ m[CaKey] # NoFile => m[CaCert].made = m[CaKey].made
  /\ \A s \in Services : m[Cert(s)] # NoFile =>
       m[CaCert] # NoFile /\ m[CaKey] # NoFile /\ m[Cert(s)].ca = m[CaCert].made
  /\ m[CoreCaKey] # NoFile => m[CaCert] # NoFile /\ m[CoreCaKey] = m[CaKey]
  /\ \A s \in Services : m[Cert(s)] # NoFile /\ m[Key(s)] # NoFile =>
       m[Cert(s)].made = m[Key(s)].made

\* The disk holds a part of what Vault holds whole: a restore or a removal
\* stopped half way, and every later init restores the rest first.
PartOfVault ==
  /\ host.target = "oci" /\ ~torn /\ pc \notin InitSteps
  /\ \A f \in Files : Present(f) => disk[f] = vault[f]

KeysInv ==
  ~mixed => /\ ~torn => Consistent(vault)
            /\ Consistent(disk) \/ PartOfVault

\* What an init has left of the password once it is past the copies.
CopiesInv ==
  /\ "database" \in scope.selected /\ pc \in CaSteps \cup {"ca"} =>
       Present(Password) /\ disk[CorePassword] = disk[Password]
  /\ "oauth" \in scope.selected /\ pc = "finish" =>
       Present(Password) /\ disk[OAuthPassword] = disk[Password]

\* The sources a running init has not come to yet.
Pending(f) ==
  \/ f = Password /\ pc \in {"restore", "begin", "password"}
  \/ f = CaKey /\ pc \in {"restore", "begin", "password", "copy", "ca"}
  \/ f = SigningKey /\ pc \in ({"restore"} \cup InitSteps) \ {"publish", "oauth", "finish"}
  \/ f[1] = "key" /\ f # CaKey /\
       \/ pc \in {"restore", "begin", "password", "copy", "ca", "coreca"}
       \/ pc \in {"identities", "issue"} /\ f[2] \in todo
       \/ pc = "sign" /\ f[2] \in todo /\ ~Current(f[2])

\* They have room for one more generation, if the init will make one.
SpareInv ==
  scope.op = "init" =>
    /\ \A f \in Sources : Pending(f) /\ f \in Makes(scope.force) => made[f] < MaxMade
    /\ \A s \in Services : pc = "issue" /\ Current(s) => made[Key(s)] < MaxMade

Bounded ==
  /\ \A f \in Files : disk[f] \in File /\ vault[f] \in File
  /\ \A f \in Sources : made[f] \in Made
  /\ cluster \in Made /\ verification \in Made

\* The inductive invariant.
ResourcesInv ==
  /\ FilesInv /\ SigningInv /\ ClusterInv /\ Owned /\ KeysInv /\ CopiesInv
  /\ SpareInv /\ Bounded

-----------------------------------------------------------------------------
(* The files *)

\* The services of a host are services there are, and there is no service "ca".
LEMMA ServicesFact == Services \subseteq AllServices /\ "ca" \notin AllServices
BY HostsAssumption DEF Services, AllServices, NebulaServices

\* What is installed is one of the services.
LEMMA InstalledFact == WeakTypeOK => Installed \subseteq Services
BY DEF WeakTypeOK, Installed, Services

\* Which files there are, and that they are different files.
LEMMA FilesFact ==
  /\ \A s \in Services : Cert(s) \in Files /\ Key(s) \in Files
  /\ {CaCert, CaKey, Password, CorePassword, OAuthPassword, CoreCaKey, SigningKey} \subseteq Files
  /\ \A s \in Services : Key(s) \in Sources
  /\ {CaKey, Password, SigningKey} \subseteq Sources
  /\ Sources \subseteq Files
BY DEF Files, Sources

\* The identities are files of their own.
LEMMA DistinctFact ==
  /\ \A s, t : Cert(s) = Cert(t) => s = t
  /\ \A s, t : Key(s) = Key(t) => s = t
  /\ \A s, t : Cert(s) # Key(t)
  /\ \A s : {Cert(s), Key(s)} \cap {Password, CorePassword, OAuthPassword, CoreCaKey, SigningKey} = {}
  /\ \A s \in Services : Cert(s) # CaCert /\ Key(s) # CaKey
  /\ \A s : Cert(s) # CaKey /\ Key(s) # CaCert
BY ServicesFact DEF Cert, Key, CaCert, CaKey, Password, CorePassword, OAuthPassword,
  CoreCaKey, SigningKey

\* So are the files that have a name.
LEMMA NamedFact ==
  /\ CaCert # CaKey
  /\ {CaCert, CaKey} \cap {Password, CorePassword, OAuthPassword, CoreCaKey, SigningKey} = {}
  /\ Password # CorePassword /\ Password # OAuthPassword /\ Password # CoreCaKey
  /\ Password # SigningKey /\ CorePassword # OAuthPassword /\ CorePassword # CoreCaKey
  /\ CorePassword # SigningKey /\ OAuthPassword # CoreCaKey /\ OAuthPassword # SigningKey
  /\ CoreCaKey # SigningKey
BY DEF CaCert, CaKey, Password, CorePassword, OAuthPassword, CoreCaKey, SigningKey

\* Who owns each file.
LEMMA OwnerFact ==
  /\ \A s : Cert(s)[2] = s /\ Key(s)[2] = s /\ Cert(s)[1] = "cert" /\ Key(s)[1] = "key"
  /\ CaCert[2] = "ca" /\ CaKey[2] = "ca" /\ Password[2] = "database"
  /\ CorePassword[2] = "core" /\ OAuthPassword[2] = "oauth" /\ CoreCaKey[2] = "core"
  /\ SigningKey[2] = "oauth"
  /\ \A f \in Files : f[2] \in AllServices \cup {"ca"}
BY ServicesFact DEF Files, Cert, Key, CaCert, CaKey, Password, CorePassword, OAuthPassword,
  CoreCaKey, SigningKey, AllServices, NebulaServices

\* Only one member of a set is its first.
LEMMA FirstIsUnique ==
  ASSUME NEW x, NEW y, NEW S, NEW order \in Seq(AllServices),
         IsFirst(x, S, order), IsFirst(y, S, order)
  PROVE  x = y
<1>1. PICK i \in DOMAIN order : order[i] = x /\ \A k \in 1 .. i - 1 : order[k] \notin S
  BY DEF IsFirst
<1>2. PICK j \in DOMAIN order : order[j] = y /\ \A k \in 1 .. j - 1 : order[k] \notin S
  BY DEF IsFirst
<1>3. i \in 1 .. Len(order) /\ j \in 1 .. Len(order) /\ Len(order) \in Nat
  OBVIOUS
<1>4. ~(i < j) /\ ~(j < i)
  BY <1>1, <1>2, <1>3 DEF IsFirst
<1> QED
  BY <1>1, <1>2, <1>3, <1>4

\* An init issues one identity at a time.
LEMMA CurrentIsUnique ==
  ASSUME NEW s, NEW t, Current(s), Current(t)
  PROVE  s = t
<1>1. IssueOrder \in Seq(AllServices)
  BY DEF IssueOrder, AllServices, NebulaServices
<1> QED
  BY <1>1, FirstIsUnique DEF Current

-----------------------------------------------------------------------------
(* Control and types *)

\* The program starts idle, with every variable of its type.
LEMMA InitControlInv == Init => ControlInv
<1> SUFFICES ASSUME Init PROVE ControlInv
  OBVIOUS
<1>1. host \in [target : {"local", "oci"}, services : LocalHosts \cup OciHosts]
  BY DEF Init
<1>2. disk \in [Files -> WeakFile] /\ vault \in [Files -> WeakFile] /\ made \in [Sources -> Nat]
  BY DEF Init, WeakFile, NoFile
<1>3. scope \in Scope /\ scope.op = "none" /\ scope.selected = {} /\ pc = "idle"
  BY DEF Init, NoScope, Scope, ForceScope
<1>4. cluster \in Nat /\ verification \in Nat /\ pc \in PC /\ faults \in 0 .. MaxFaults
  BY BoundsAssumption DEF Init, PC
<1>5. todo \subseteq AllServices /\ interrupted \in BOOLEAN
  BY DEF Init
<1>6. torn \in BOOLEAN /\ mixed \in BOOLEAN /\ halfRemoved \in BOOLEAN
  BY DEF Init
<1>7. WeakTypeOK
  BY <1>1, <1>2, <1>3, <1>4, <1>5, <1>6 DEF WeakTypeOK
<1>8. Control
  BY <1>3 DEF Init, Control, InitSteps
<1> QED
  BY <1>7, <1>8 DEF ControlInv

\* Every exit ends the command.
LEMMA ExitFact ==
  ASSUME Exit
  PROVE  /\ pc' = "idle" /\ pc' \in PC
         /\ scope' = NoScope /\ scope' \in Scope
         /\ scope'.op = "none" /\ scope'.selected = {}
         /\ todo' = {}
         /\ Control'
<1>1. pc' = "idle" /\ scope' = NoScope /\ todo' = {}
  BY DEF Exit, Goto
<1>2. scope' \in Scope /\ scope'.op = "none" /\ scope'.selected = {} /\ pc' \in PC
  BY <1>1 DEF NoScope, Scope, ForceScope, PC
<1>3. Control'
  BY <1>1, <1>2 DEF Control, InitSteps
<1> QED
  BY <1>1, <1>2, <1>3

\* The product of each service, and the services of each product.
LEMMA ProductFact ==
  ASSUME NEW I \in SUBSET AllServices
  PROVE  /\ \A s \in I : Product[s] \in AllServices \cup {"nebula"}
         /\ \A s \in I : Product[s] = "oauth" <=> s = "oauth"
         /\ \A p \in {Product[s] : s \in I} :
              p = "oauth" <=> "oauth" \in {s \in I : Product[s] = p}
BY DEF Product, AllServices, NebulaServices

\* What a command may name: a product or a component that is installed.
LEMMA SelectionFact ==
  ASSUME WeakTypeOK, NEW sel \in Selections
  PROVE  /\ sel[1] \in AllServices \cup {"nebula"} /\ sel[2] \in BOOLEAN
         /\ sel[3] \subseteq Installed
         /\ sel[3] # {} => (sel[1] = "oauth" <=> "oauth" \in sel[3])
<1>1. Installed \in SUBSET AllServices
  BY InstalledFact, ServicesFact
<1>2. CASE \E p \in {Product[s] : s \in Installed} :
             sel = <<p, TRUE, {s \in Installed : Product[s] = p}>>
  <2>1. PICK p \in {Product[s] : s \in Installed} :
          sel = <<p, TRUE, {s \in Installed : Product[s] = p}>>
    BY <1>2
  <2>2. PICK S : S = {s \in Installed : Product[s] = p}
    OBVIOUS
  <2>3. sel[1] = p /\ sel[2] = TRUE /\ sel[3] = S
    BY <2>1, <2>2
  <2>4. p \in AllServices \cup {"nebula"}
    BY <1>1, ProductFact
  <2>5. S \subseteq Installed /\ (p = "oauth" <=> "oauth" \in S)
    BY <1>1, <2>2, ProductFact
  <2> QED
    BY <2>3, <2>4, <2>5, Zenon
<1>3. CASE \E s \in Installed : sel = <<Product[s], FALSE, {s}>>
  <2>1. PICK s \in Installed : sel = <<Product[s], FALSE, {s}>>
    BY <1>3
  <2>2. PICK p, S : p = Product[s] /\ S = {s}
    OBVIOUS
  <2>3. sel[1] = p /\ sel[2] = FALSE /\ sel[3] = S
    BY <2>1, <2>2
  <2>4. p \in AllServices \cup {"nebula"}
    BY <1>1, <2>2, ProductFact
  <2>5. S \subseteq Installed /\ (p = "oauth" <=> "oauth" \in S)
    BY <1>1, <2>2, ProductFact
  <2> QED
    BY <2>3, <2>4, <2>5, Zenon
<1> QED
  BY <1>2, <1>3 DEF Selections

\* Every step keeps the types, and the command where it belongs.
LEMMA StepControlInv ==
  ASSUME ControlInv, [Next]_vars
  PROVE  ControlInv'
<1> USE ServicesFact, FilesFact
<1>1. ASSUME NEW sel \in Selections, NEW force \in ForceScope, StartInit(sel[1], sel[3], force)
      PROVE  ControlInv'
  <2>1. /\ sel[1] \in AllServices \cup {"nebula"} /\ sel[3] \subseteq Installed
        /\ sel[3] # {} => (sel[1] = "oauth" <=> "oauth" \in sel[3])
    BY SelectionFact DEF ControlInv
  <2>2. WeakTypeOK'
    BY <1>1, <2>1, InstalledFact
    DEF ControlInv, WeakTypeOK, StartInit, Start, Goto, Scope, PC, durable, history
  <2>3. Control'
    BY <1>1, <2>1, <2>2 DEF ControlInv, WeakTypeOK, Control, StartInit, Start, Goto, Scope,
       InitSteps, Installed
  <2> QED
    BY <2>2, <2>3 DEF ControlInv
<1>2. CASE StartInit("nebula", {}, "none")
  BY <1>2 DEF ControlInv, WeakTypeOK, Control, StartInit, Start, Goto, Scope, PC, durable,
     history, InitSteps, ForceScope, Installed
<1>3. CASE StartDeploy
  BY <1>3 DEF ControlInv, WeakTypeOK, Control, StartDeploy, Start, Goto, Scope, PC, durable,
     history, InitSteps, ForceScope, Installed
<1>4. ASSUME NEW sel \in Selections, StartDestroy(sel[1], sel[2], sel[3])
      PROVE  ControlInv'
  <2>1. /\ sel[1] \in AllServices \cup {"nebula"} /\ sel[3] \subseteq Installed
        /\ sel[2] \in BOOLEAN
        /\ sel[3] # {} => (sel[1] = "oauth" <=> "oauth" \in sel[3])
    BY SelectionFact DEF ControlInv
  <2>2. Targets(sel[1], sel[2], sel[3]) \subseteq AllServices
    BY <2>1, InstalledFact DEF Targets, ControlInv
  <2>3. WeakTypeOK'
    BY <1>4, <2>1, <2>2, InstalledFact
    DEF ControlInv, WeakTypeOK, StartDestroy, Start, Goto, Scope, PC, ForceScope, durable, history
  <2>4. sel[2] => \A s, t \in AllServices :
          s \in Targets(sel[1], sel[2], sel[3]) /\ Root[t] = Root[s] =>
            t \in Targets(sel[1], sel[2], sel[3])
    BY DEF Targets, Root, Product, AllServices, NebulaServices
  <2>5. Control'
    BY <1>4, <2>1, <2>3, <2>4 DEF ControlInv, WeakTypeOK, Control, StartDestroy, Start, Goto,
       Scope, InitSteps, Installed
  <2> QED
    BY <2>3, <2>5 DEF ControlInv
<1>5. CASE Restore \/ StopRestore
  <2>1. ASSUME NEW S, Restored(S), S \subseteq Missing
        PROVE  disk' \in [Files -> WeakFile]
    BY <2>1 DEF ControlInv, WeakTypeOK, Restored
  <2>2. \A f : UpTo(f, Missing, RestoreOrder) \subseteq Missing
    BY DEF UpTo
  <2>3. disk' \in [Files -> WeakFile] /\ mixed' \in BOOLEAN
    BY <1>5, <2>1, <2>2 DEF Restore, StopRestore, ControlInv, WeakTypeOK, Restored
  <2>4. interrupted' \in BOOLEAN
    BY <1>5 DEF Restore, StopRestore, ControlInv, WeakTypeOK, Unpublished, Broken
  <2>5. WeakTypeOK'
    <3>1. CASE Restore
      BY <3>1, <2>3, <2>4 DEF Restore, ControlInv, WeakTypeOK, Goto, PC
    <3>2. CASE StopRestore
      BY <3>2, <2>3, <2>4, ExitFact, BoundsAssumption DEF StopRestore, ControlInv, WeakTypeOK
    <3> QED
      BY <1>5, <3>1, <3>2
  <2>6. Control'
    BY <1>5, ExitFact DEF Restore, StopRestore, Restored, ControlInv, Control, Goto,
       InitSteps, Installed
  <2> QED
    BY <2>5, <2>6 DEF ControlInv
<1>6. CASE NotApplicable \/ RefuseRotation \/ StartPostgres \/ RejectCa \/ RejectOAuth \/ Stop
  <2>1. Exit
    BY <1>6 DEF NotApplicable, RefuseRotation, StartPostgres, RejectCa, RejectOAuth, Stop, Fail
  <2>2. cluster' \in Nat
    BY <1>6 DEF NotApplicable, RefuseRotation, StartPostgres, RejectCa, RejectOAuth, Stop,
       ControlInv, WeakTypeOK, WeakFile, durable
  <2>3. faults' \in 0 .. MaxFaults
    BY <1>6, BoundsAssumption DEF NotApplicable, RefuseRotation, StartPostgres, RejectCa,
       RejectOAuth, Stop, ControlInv, WeakTypeOK, history
  <2>4. WeakTypeOK'
    BY <1>6, <2>1, <2>2, <2>3, ExitFact DEF NotApplicable, RefuseRotation, StartPostgres, RejectCa,
       RejectOAuth, Stop, ControlInv, WeakTypeOK, Fail, Broken, durable, history
  <2> QED
    BY <2>1, <2>4, ExitFact DEF ControlInv
<1>7. CASE BeginInit
  BY <1>7 DEF BeginInit, Applicable, ControlInv, WeakTypeOK, Control, Goto, PC, InitSteps,
     Installed, history
<1>8. CASE EnsurePassword \/ CopyToCore
  <2>1. disk' \in [Files -> WeakFile] /\ made' \in [Sources -> Nat]
    <3>1. disk \in [Files -> WeakFile] /\ made \in [Sources -> Nat]
      BY DEF ControlInv, WeakTypeOK
    <3>2. made[Password] \in Nat
      BY <3>1
    <3> QED
      BY <1>8, <3>1, <3>2 DEF EnsurePassword, CopyToCore, WeakFile
  <2>2. WeakTypeOK'
    BY <1>8, <2>1 DEF EnsurePassword, CopyToCore, ControlInv, WeakTypeOK, Goto, PC, history
  <2>3. Control'
    BY <1>8 DEF EnsurePassword, CopyToCore, ControlInv, WeakTypeOK, Control, Goto, PC,
       InitSteps, Installed
  <2> QED
    BY <2>2, <2>3 DEF ControlInv
<1>9. CASE KeepCa \/ CreateCa \/ CopyCaKey
  <2>1. disk' \in [Files -> WeakFile]
    <3>1. CASE KeepCa
      BY <3>1 DEF KeepCa, ControlInv, WeakTypeOK, durable
    <3>2. CASE CreateCa
      <4>1. made[CaKey] \in Nat
        BY DEF ControlInv, WeakTypeOK
      <4> QED
        BY <3>2, <4>1 DEF CreateCa, ControlInv, WeakTypeOK, WeakFile
    <3>3. CASE CopyCaKey
      BY <3>3 DEF CopyCaKey, ControlInv, WeakTypeOK
    <3> QED
      BY <1>9, <3>1, <3>2, <3>3
  <2>2. scope.selected \subseteq AllServices /\ made' \in [Sources -> Nat]
    BY <1>9, InstalledFact DEF ControlInv, Control, KeepCa, CreateCa, CopyCaKey, WeakTypeOK, durable
  <2>3. WeakTypeOK'
    BY <1>9, <2>1, <2>2 DEF KeepCa, CreateCa, CopyCaKey, AfterCa, ControlInv, WeakTypeOK,
       Goto, PC, durable, history
  <2>4. pc' \in {"coreca", "identities"} /\ UNCHANGED <<host, scope>> /\ pc \in {"ca", "coreca"}
    BY <1>9 DEF KeepCa, CreateCa, CopyCaKey, AfterCa, Goto, durable
  <2>5. todo' \subseteq scope.selected /\ (pc' = "coreca" => "core" \in scope.selected)
    BY <1>9 DEF KeepCa, CreateCa, CopyCaKey, AfterCa, Goto, ControlInv, Control
  <2>6. Control'
    BY <2>4, <2>5 DEF ControlInv, Control, InitSteps, Installed
  <2> QED
    BY <2>3, <2>6 DEF ControlInv
<1>10. ASSUME NEW s \in Services,
              KeepIdentity(s) \/ DropIdentity(s) \/ IssueKey(s) \/ SignCert(s)
       PROVE  ControlInv'
  <2>1. disk' \in [Files -> WeakFile] /\ made' \in [Sources -> Nat]
    <3>1. disk \in [Files -> WeakFile] /\ made \in [Sources -> Nat]
      BY DEF ControlInv, WeakTypeOK
    <3> QED
      BY <1>10, <3>1 DEF KeepIdentity, DropIdentity, IssueKey, SignCert, WeakFile, NoFile, durable
  <2>2. WeakTypeOK'
    BY <1>10, <2>1 DEF KeepIdentity, DropIdentity, MustIssue, IssueKey, SignCert, ControlInv,
       WeakTypeOK, Goto, PC, durable, history
  <2>3. Control'
    BY <1>10, <2>2 DEF KeepIdentity, DropIdentity, MustIssue, IssueKey, SignCert, ControlInv,
       WeakTypeOK, Control, Goto, InitSteps, Installed
  <2> QED
    BY <2>2, <2>3 DEF ControlInv
<1>11. CASE IdentitiesDone \/ MakeSigningKey \/ PublishKey \/ CopyToOAuth
  <2>1. disk' \in [Files -> WeakFile] /\ made' \in [Sources -> Nat] /\ verification' \in Nat
    <3>1. /\ disk \in [Files -> WeakFile] /\ made \in [Sources -> Nat] /\ verification \in Nat
          /\ made[SigningKey] \in Nat
      BY DEF ControlInv, WeakTypeOK
    <3> QED
      BY <1>11, <3>1 DEF IdentitiesDone, MakeSigningKey, PublishKey, CopyToOAuth, WeakFile, durable
  <2>2. WeakTypeOK'
    BY <1>11, <2>1 DEF IdentitiesDone, MakeSigningKey, PublishKey, CopyToOAuth, ControlInv,
       WeakTypeOK, Goto, PC, durable, history
  <2>3. Control'
    BY <1>11, <2>2 DEF IdentitiesDone, MakeSigningKey, PublishKey, CopyToOAuth, ControlInv,
       WeakTypeOK, Control, Goto, InitSteps, Installed
  <2> QED
    BY <2>2, <2>3 DEF ControlInv
<1>12. CASE FinishLocal \/ FinishOci \/ StopUpload
  <2>1. vault' \in [Files -> WeakFile] /\ torn' \in BOOLEAN
    BY <1>12 DEF FinishLocal, FinishOci, StopUpload, UploadPart, Uploaded, ControlInv,
       WeakTypeOK, durable
  <2>2. Exit
    BY <1>12 DEF FinishLocal, FinishOci, StopUpload, Complete, Fail
  <2>3. faults' \in 0 .. MaxFaults
    BY <1>12, BoundsAssumption DEF FinishLocal, FinishOci, StopUpload, ControlInv, WeakTypeOK
  <2>4. WeakTypeOK'
    BY <1>12, <2>1, <2>2, <2>3, ExitFact DEF FinishLocal, FinishOci, StopUpload, Complete,
       Fail, Broken, ControlInv, WeakTypeOK, durable
  <2> QED
    BY <2>2, <2>4, ExitFact DEF ControlInv
<1>13. ASSUME NEW s \in AllServices, RemoveTarget(s) \/ RemovePart(s)
       PROVE  ControlInv'
  <2>1. RemovedWith(s) \subseteq AllServices
    BY DEF RemovedWith, ControlInv, WeakTypeOK
  <2>2. disk' \in [Files -> WeakFile]
    BY <1>13 DEF RemoveTarget, RemovePart, ControlInv, WeakTypeOK, WeakFile, NoFile
  <2>3. /\ cluster' \in Nat /\ verification' \in Nat
        /\ faults' \in 0 .. MaxFaults
    BY <1>13, BoundsAssumption DEF RemoveTarget, RemovePart, ControlInv, WeakTypeOK
  <2>8. halfRemoved' \in BOOLEAN
    BY <1>13, Zenon DEF RemoveTarget, RemovePart, ControlInv, WeakTypeOK
  <2>4. WeakTypeOK'
    BY <1>13, <2>1, <2>2, <2>3, <2>8 DEF RemoveTarget, RemovePart, ControlInv, WeakTypeOK
  <2>5. scope.whole => \A u, t \in AllServices :
          u \in todo \ RemovedWith(s) /\ Root[t] = Root[u] => t \in todo \ RemovedWith(s)
    BY <1>13 DEF RemoveTarget, RemovePart, RemovedWith, ControlInv, Control, WeakTypeOK
  <2>6. todo' = todo \ RemovedWith(s) /\ UNCHANGED <<host, pc, scope>> /\ pc = "remove"
    BY <1>13 DEF RemoveTarget, RemovePart
  <2>7. Control'
    BY <2>4, <2>5, <2>6 DEF ControlInv, Control, InitSteps, Installed
  <2> QED
    BY <2>4, <2>7 DEF ControlInv
<1>14. CASE TargetsDone \/ RemoveSharedCa \/ RemoveCaPart
  <2>1. disk' \in [Files -> WeakFile]
    BY <1>14 DEF TargetsDone, RemoveSharedCa, RemoveCaPart, ControlInv, WeakTypeOK, WeakFile,
       NoFile, durable
  <2>4. faults' \in 0 .. MaxFaults
    BY <1>14, BoundsAssumption DEF TargetsDone, RemoveSharedCa, RemoveCaPart, ControlInv,
       WeakTypeOK, history
  <2>2. CASE Exit
    BY <1>14, <2>1, <2>2, <2>4, ExitFact DEF TargetsDone, RemoveSharedCa, RemoveCaPart,
       ControlInv, WeakTypeOK, durable, history
  <2>3. CASE ~Exit
    BY <1>14, <2>3 DEF TargetsDone, RemoveSharedCa, RemoveCaPart, ControlInv, WeakTypeOK,
       Control, Goto, PC,
       InitSteps, Installed, durable, history
  <2> QED
    BY <2>2, <2>3
<1>15. CASE Rebuild
  <2>1. vault' \in [Files -> WeakFile] /\ torn' \in BOOLEAN /\ disk' \in [Files -> WeakFile]
    BY <1>15 DEF Rebuild, UploadPart, Uploaded, ControlInv, WeakTypeOK, WeakFile, NoFile
  <2>2. Exit
    BY <1>15 DEF Rebuild
  <2>3. faults' \in 0 .. MaxFaults
    BY <1>15, BoundsAssumption DEF Rebuild, ControlInv, WeakTypeOK
  <2>4. WeakTypeOK'
    BY <1>15, <2>1, <2>2, <2>3, ExitFact DEF Rebuild, Broken, ControlInv, WeakTypeOK
  <2> QED
    BY <2>2, <2>4, ExitFact DEF ControlInv
<1>16. CASE UNCHANGED vars
  BY <1>16 DEF vars, ControlInv, WeakTypeOK, Control, InitSteps, Installed
<1> QED
  BY <1>1, <1>2, <1>3, <1>4, <1>5, <1>6, <1>7, <1>8, <1>9, <1>10, <1>11, <1>12, <1>13, <1>14,
     <1>15, <1>16 DEF Next, Begin, Run, Faulty

\* The steps that issue an identity touch no other file.
LEMMA IdentityFrame ==
  ASSUME disk \in [Files -> WeakFile], NEW s \in Services,
         KeepIdentity(s) \/ DropIdentity(s) \/ IssueKey(s) \/ SignCert(s)
  PROVE  /\ \A f \in Files \ {Cert(s), Key(s)} : disk'[f] = disk[f]
         /\ UNCHANGED <<host, vault, roots, cluster, verification, scope, history>>
         /\ pc \in {"identities", "issue", "sign"} /\ pc' \in {"identities", "issue", "sign"}
<1>1. \A f \in Files \ {Cert(s), Key(s)} : disk'[f] = disk[f]
  <2>1. CASE KeepIdentity(s)
    BY <2>1 DEF KeepIdentity, durable
  <2>2. CASE DropIdentity(s)
    BY <2>2 DEF DropIdentity
  <2>3. CASE IssueKey(s)
    BY <2>3 DEF IssueKey
  <2>4. CASE SignCert(s)
    BY <2>4 DEF SignCert
  <2> QED
    BY <2>1, <2>2, <2>3, <2>4
<1> QED
  BY <1>1 DEF KeepIdentity, DropIdentity, MustIssue, IssueKey, SignCert, Goto, durable, history

-----------------------------------------------------------------------------
(* OAuth's signing key and its public half *)

\* A step that leaves the public half alone, and the key unless it is counted.
LEMMA QuietSigning ==
  ASSUME ControlInv, SigningInv, verification' = verification,
         Present(SigningKey)' /\ ~interrupted' =>
           disk'[SigningKey] = disk[SigningKey] /\ pc # "publish" /\ ~interrupted,
         pc' \in {"oauth", "finish"} /\ scope'.product = "oauth" =>
           /\ disk'[SigningKey] = disk[SigningKey]
           /\ pc \in {"oauth", "finish"} /\ scope.product = "oauth"
  PROVE  SigningInv'
BY DEF SigningInv, Present

\* Every step keeps the signing key and its public half together, or counts the
\* init, restore or removal of OAuth that does not.
LEMMA StepSigningInv ==
  ASSUME ControlInv, SigningInv, [Next]_vars
  PROVE  SigningInv'
<1> USE FilesFact, DistinctFact, NamedFact, OwnerFact
<1>t. /\ disk \in [Files -> WeakFile]
      /\ pc = "publish" => scope.op = "init" /\ "oauth" \in scope.selected
      /\ pc \in InitSteps /\ "oauth" \in scope.selected => scope.product = "oauth"
  BY DEF ControlInv, WeakTypeOK, Control, InitSteps
<1>1. ASSUME NEW product, NEW selected, NEW force, StartInit(product, selected, force)
      PROVE  SigningInv'
  BY <1>1, QuietSigning DEF StartInit, Start, Goto, Present, durable, history
<1>2. CASE StartDeploy
  BY <1>2, QuietSigning DEF StartDeploy, Start, Goto, Present, durable, history
<1>3. ASSUME NEW product, NEW whole, NEW selected, StartDestroy(product, whole, selected)
      PROVE  SigningInv'
  BY <1>3, QuietSigning DEF StartDestroy, Start, Goto, Present, durable, history
<1>4. ASSUME NEW S, Restored(S), Unpublished(S) => interrupted',
             verification' = verification, pc' \notin {"oauth", "finish"}
      PROVE  SigningInv'
  <2>1. SigningKey \notin S => disk'[SigningKey] = disk[SigningKey]
    BY <1>4 DEF Restored
  <2>2. SigningKey \in S => interrupted'
    BY <1>4 DEF Unpublished
  <2>3. (interrupted => interrupted') /\ pc = "restore"
    BY <1>4 DEF Unpublished, Restored
  <2> QED
    BY <1>4, <2>1, <2>2, <2>3, QuietSigning
<1>5. CASE Restore
  <2>1. Restored(Missing) /\ (Unpublished(Missing) => interrupted') /\ verification' = verification
    BY <1>5 DEF Restore
  <2>2. pc' \notin {"oauth", "finish"}
    BY <1>5 DEF Restore, Goto
  <2> QED
    BY <2>1, <2>2, <1>4
<1>6. CASE StopRestore
  <2>1. PICK f \in Missing :
          /\ Restored(UpTo(f, Missing, RestoreOrder))
          /\ interrupted' = (Unpublished(UpTo(f, Missing, RestoreOrder)) \/ Broken)
    BY <1>6 DEF StopRestore
  <2>2. pc' \notin {"oauth", "finish"} /\ verification' = verification
    BY <1>6, ExitFact DEF StopRestore
  <2> QED
    BY <2>1, <2>2, <1>4
<1>7. CASE NotApplicable \/ RefuseRotation \/ StartPostgres
  BY <1>7, ExitFact, QuietSigning DEF NotApplicable, RefuseRotation, StartPostgres,
     durable, history, Present
<1>8. CASE RejectCa \/ RejectOAuth \/ Stop
  <2>1. Exit /\ UNCHANGED <<disk, verification>> /\ interrupted' = (interrupted \/ Broken)
    BY <1>8 DEF RejectCa, RejectOAuth, Stop, Fail, durable
  <2> QED
    BY <2>1, <1>t, ExitFact, QuietSigning DEF Broken, Present
<1>9. CASE BeginInit \/ EnsurePassword \/ CopyToCore \/ KeepCa \/ CreateCa \/ CopyCaKey
  <2>1. disk'[SigningKey] = disk[SigningKey]
    BY <1>9, <1>t DEF BeginInit, EnsurePassword, CopyToCore, KeepCa, CreateCa, CopyCaKey, durable
  <2>2. UNCHANGED <<verification, interrupted>> /\ pc # "publish" /\ pc' \notin {"oauth", "finish"}
    BY <1>9 DEF BeginInit, EnsurePassword, CopyToCore, KeepCa, CreateCa, CopyCaKey, AfterCa,
       Goto, durable, history
  <2> QED
    BY <2>1, <2>2, QuietSigning DEF Present
<1>10. ASSUME NEW s \in Services,
              KeepIdentity(s) \/ DropIdentity(s) \/ IssueKey(s) \/ SignCert(s)
       PROVE  SigningInv'
  <2>1. disk'[SigningKey] = disk[SigningKey]
    BY <1>10, <1>t, IdentityFrame
  <2>2. UNCHANGED <<verification, interrupted>> /\ pc # "publish" /\ pc' \notin {"oauth", "finish"}
    BY <1>10, <1>t, IdentityFrame DEF history
  <2> QED
    BY <2>1, <2>2, QuietSigning DEF Present
<1>11. CASE IdentitiesDone
  BY <1>11, QuietSigning DEF IdentitiesDone, Goto, durable, history, Present
<1>12. CASE MakeSigningKey
  BY <1>12 DEF MakeSigningKey, Goto, SigningInv
<1>13. CASE PublishKey
  BY <1>13 DEF PublishKey, Goto, SigningInv, history
<1>14. CASE CopyToOAuth
  <2>1. disk'[SigningKey] = disk[SigningKey]
    BY <1>14, <1>t DEF CopyToOAuth
  <2> QED
    BY <2>1, <1>14, <1>t, QuietSigning DEF CopyToOAuth, Goto, history, Present
<1>15. CASE FinishLocal \/ FinishOci
  <2>1. /\ pc = "finish" /\ Exit /\ UNCHANGED <<disk, verification>>
        /\ interrupted' = (interrupted /\ "oauth" \notin scope.selected)
    BY <1>15 DEF FinishLocal, FinishOci, Complete, durable
  <2>2. "oauth" \in scope.selected => scope.product = "oauth"
    BY <2>1, <1>t DEF InitSteps
  <2> QED
    BY <2>1, <2>2, ExitFact DEF SigningInv, Present
<1>16. CASE StopUpload
  BY <1>16, ExitFact, QuietSigning DEF StopUpload, UploadPart, Fail, Present
<1>17. ASSUME NEW s \in AllServices, RemoveTarget(s) \/ RemovePart(s)
       PROVE  SigningInv'
  <2>1. CASE "oauth" \in RemovedWith(s)
    <3>1. CASE RemoveTarget(s)
      BY <3>1, <2>1 DEF RemoveTarget, SigningInv, Present
    <3>2. CASE RemovePart(s)
      BY <3>2, <2>1 DEF RemovePart, SigningInv
    <3> QED
      BY <1>17, <3>1, <3>2
  <2>2. CASE "oauth" \notin RemovedWith(s)
    <3>1. disk'[SigningKey] = disk[SigningKey] /\ verification' = verification
      BY <1>17, <2>2 DEF RemoveTarget, RemovePart
    <3>2. (interrupted' <=> interrupted) /\ pc = "remove" /\ pc' = pc
      BY <1>17, <2>2 DEF RemoveTarget, RemovePart
    <3> QED
      BY <3>1, <3>2, QuietSigning DEF Present
  <2> QED
    BY <2>1, <2>2
<1>18. CASE TargetsDone \/ RemoveSharedCa \/ RemoveCaPart
  <2>1. disk'[SigningKey] = disk[SigningKey]
    BY <1>18, <1>t DEF TargetsDone, RemoveSharedCa, RemoveCaPart, durable
  <2>2. /\ UNCHANGED <<verification, interrupted>> /\ pc # "publish"
        /\ pc' \notin {"oauth", "finish"}
    BY <1>18, ExitFact DEF TargetsDone, RemoveSharedCa, RemoveCaPart, Goto, durable, history
  <2> QED
    BY <2>1, <2>2, QuietSigning DEF Present
<1>19. CASE Rebuild
  BY <1>19, ExitFact DEF Rebuild, SigningInv, Present
<1>20. CASE UNCHANGED vars
  BY <1>20 DEF vars, SigningInv, Present
<1> QED
  BY <1>1, <1>2, <1>3, <1>5, <1>6, <1>7, <1>8, <1>9, <1>10, <1>11, <1>12, <1>13, <1>14, <1>15,
     <1>16, <1>17, <1>18, <1>19, <1>20 DEF Next, Begin, Run, Faulty

-----------------------------------------------------------------------------
(* The password of the PostgreSQL data *)

\* A step that leaves the data alone, and the password under data.
LEMMA QuietCluster ==
  ASSUME ClusterInv, cluster' = cluster, halfRemoved' = halfRemoved, pc' # "password",
         disk[Password].made # 0 => disk'[Password] = disk[Password]
  PROVE  ClusterInv'
BY DEF ClusterInv, PasswordOpensCluster

\* Every step keeps the password file and the data it opens together.
LEMMA StepClusterInv ==
  ASSUME ControlInv, ClusterInv, [Next]_vars
  PROVE  ClusterInv'
<1> USE FilesFact, DistinctFact, NamedFact, OwnerFact
<1>t. disk \in [Files -> WeakFile] /\ vault \in [Files -> WeakFile] /\ cluster \in Nat
  BY DEF ControlInv, WeakTypeOK
<1>p. disk[Password].made # 0 => Present(Password)
  BY DEF Present, NoFile
<1>1. ASSUME NEW product, NEW selected, NEW force, StartInit(product, selected, force)
      PROVE  ClusterInv'
  BY <1>1, QuietCluster DEF StartInit, Start, Goto, durable, history
<1>2. CASE StartDeploy
  BY <1>2, QuietCluster DEF StartDeploy, Start, Goto, durable, history
<1>3. ASSUME NEW product, NEW whole, NEW selected, StartDestroy(product, whole, selected)
      PROVE  ClusterInv'
  BY <1>3, QuietCluster DEF StartDestroy, Start, Goto, durable, history
<1>4. ASSUME NEW S, Restored(S), S \subseteq Missing,
             UNCHANGED <<cluster, halfRemoved>>, pc' # "password"
      PROVE  ClusterInv'
  <2>1. Present(Password) => Password \notin S
    BY <1>4 DEF Missing
  <2>2. disk[Password].made # 0 => disk'[Password] = disk[Password]
    BY <1>4, <2>1, <1>p DEF Restored
  <2> QED
    BY <2>2, <1>4, QuietCluster
<1>5. CASE Restore
  <2>1. Restored(Missing) /\ UNCHANGED <<cluster, halfRemoved>> /\ pc' # "password"
    BY <1>5 DEF Restore, Goto
  <2> QED
    BY <2>1, <1>4
<1>6. CASE StopRestore
  <2>1. PICK f \in Missing : Restored(UpTo(f, Missing, RestoreOrder))
    BY <1>6 DEF StopRestore
  <2>2. UNCHANGED <<cluster, halfRemoved>> /\ pc' # "password"
    BY <1>6, ExitFact DEF StopRestore
  <2>3. UpTo(f, Missing, RestoreOrder) \subseteq Missing
    BY DEF UpTo
  <2> QED
    BY <2>1, <2>2, <2>3, <1>4
<1>7. CASE NotApplicable \/ RefuseRotation \/ RejectCa \/ RejectOAuth \/ Stop
           \/ FinishLocal \/ FinishOci \/ StopUpload
  <2>1. Exit /\ UNCHANGED <<disk, cluster, halfRemoved>>
    BY <1>7 DEF NotApplicable, RefuseRotation, RejectCa, RejectOAuth, Stop, FinishLocal,
       FinishOci, StopUpload, Fail, Complete, durable, history
  <2> QED
    BY <2>1, ExitFact, QuietCluster
<1>8. CASE StartPostgres
  BY <1>8, <1>t, ExitFact DEF StartPostgres, ClusterInv, PasswordOpensCluster, history
<1>9. CASE BeginInit
  <2>1. ~(RotatesPassword /\ PasswordInUse)' /\ UNCHANGED <<disk, cluster, halfRemoved>>
    BY <1>9 DEF BeginInit, RotatesPassword, PasswordInUse, Present, history
  <2> QED
    BY <2>1 DEF ClusterInv, PasswordOpensCluster
<1>10. CASE EnsurePassword
  <2>1. /\ UNCHANGED <<cluster, halfRemoved>> /\ pc = "password" /\ pc' # "password"
        /\ ~(RotatesPassword \/ ~Present(Password)) => disk' = disk
    BY <1>10 DEF EnsurePassword, Goto, history
  <2>2. CASE ~halfRemoved /\ cluster # 0
    <3>1. disk[Password].made # 0 /\ ~(RotatesPassword \/ ~Present(Password))
      BY <2>1, <2>2, <1>p DEF ClusterInv, PasswordOpensCluster, PasswordInUse
    <3> QED
      BY <3>1, <2>1, QuietCluster
  <2>3. CASE ~(~halfRemoved /\ cluster # 0)
    BY <2>1, <2>3 DEF ClusterInv, PasswordOpensCluster
  <2> QED
    BY <2>2, <2>3
<1>11. CASE \/ CopyToCore \/ KeepCa \/ CreateCa \/ CopyCaKey
            \/ IdentitiesDone \/ MakeSigningKey \/ PublishKey \/ CopyToOAuth
            \/ TargetsDone \/ RemoveSharedCa \/ RemoveCaPart
  <2>1. disk'[Password] = disk[Password]
    BY <1>11, <1>t DEF CopyToCore, KeepCa, CreateCa, CopyCaKey, IdentitiesDone, MakeSigningKey,
       PublishKey, CopyToOAuth, TargetsDone, RemoveSharedCa, RemoveCaPart, durable
  <2>2. UNCHANGED <<cluster, halfRemoved>> /\ pc' # "password"
    BY <1>11, ExitFact DEF CopyToCore, KeepCa, CreateCa, CopyCaKey, IdentitiesDone,
       MakeSigningKey, PublishKey, CopyToOAuth, TargetsDone, RemoveSharedCa, RemoveCaPart,
       AfterCa, Goto, durable, history
  <2> QED
    BY <2>1, <2>2, QuietCluster
<1>12. ASSUME NEW s \in Services,
              KeepIdentity(s) \/ DropIdentity(s) \/ IssueKey(s) \/ SignCert(s)
       PROVE  ClusterInv'
  <2>1. disk'[Password] = disk[Password]
    BY <1>12, <1>t, IdentityFrame
  <2>2. UNCHANGED <<cluster, halfRemoved>> /\ pc' # "password"
    BY <1>12, <1>t, IdentityFrame DEF history
  <2> QED
    BY <2>1, <2>2, QuietCluster
<1>13. ASSUME NEW s \in AllServices, RemoveTarget(s) \/ RemovePart(s)
       PROVE  ClusterInv'
  <2>1. pc' = "remove"
    BY <1>13 DEF RemoveTarget, RemovePart
  <2>2. CASE "database" \in RemovedWith(s)
    BY <1>13, <2>1, <2>2 DEF RemoveTarget, RemovePart, ClusterInv, PasswordOpensCluster
  <2>3. CASE "database" \notin RemovedWith(s)
    <3>1. disk'[Password] = disk[Password] /\ cluster' = cluster
      BY <1>13, <2>3 DEF RemoveTarget, RemovePart
    <3>2. halfRemoved' <=> halfRemoved
      BY <1>13, <2>3 DEF RemoveTarget, RemovePart
    <3> QED
      BY <3>1, <3>2, <2>1 DEF ClusterInv, PasswordOpensCluster
  <2> QED
    BY <2>2, <2>3
<1>14. CASE Rebuild
  BY <1>14, ExitFact DEF Rebuild, ClusterInv, PasswordOpensCluster
<1>15. CASE UNCHANGED vars
  BY <1>15 DEF vars, ClusterInv, PasswordOpensCluster, RotatesPassword, PasswordInUse, Present
<1> QED
  BY <1>1, <1>2, <1>3, <1>5, <1>6, <1>7, <1>8, <1>9, <1>10, <1>11, <1>12, <1>13, <1>14,
     <1>15 DEF Next, Begin, Run, Faulty

-----------------------------------------------------------------------------
(* What an init has on disk *)

\* At first there are no files, so nothing is asked of them.
LEMMA InitFilesInv == Init => FilesInv
<1> SUFFICES ASSUME Init PROVE FilesInv
  OBVIOUS
<1>1. ControlInv
  BY InitControlInv
<1>2. pc = "idle" /\ \A f \in Files : disk[f] = NoFile /\ vault[f] = NoFile
  BY DEF Init
<1>3. Generated /\ Ready /\ HasVault
  BY <1>2 DEF Generated, Ready, HasVault, InitSteps, CaSteps
<1> QED
  BY <1>1, <1>3 DEF FilesInv

\* No identity is issued while another one is.
LEMMA IssuedFact ==
  ASSUME NEW s, IsFirst(s, todo, IssueOrder)
  PROVE  /\ Current(s) /\ \A t : Current(t) => t = s
         /\ todo' = todo => Current(s)' /\ \A t : Current(t)' => t = s
<1>1. Current(s)
  BY DEF Current
<1>2. \A t : Current(t) => t = s
  BY <1>1, CurrentIsUnique
<1>3. todo' = todo => \A t : Current(t)' <=> Current(t)
  BY DEF Current
<1> QED
  BY <1>1, <1>2, <1>3

\* A step after which no init is past its restore needs only its files generated.
LEMMA OutsideInit ==
  ASSUME FilesInv, ControlInv', Generated', pc' \notin InitSteps, UNCHANGED <<host, vault>>
  PROVE  FilesInv'
<1>1. Ready' /\ HasVault'
  BY DEF FilesInv, Ready, HasVault, InitSteps, CaSteps
<1> QED
  BY <1>1 DEF FilesInv

\* A step that leaves disk and Vault as they are.
LEMMA QuietGenerated ==
  ASSUME FilesInv, \A f \in Files : disk'[f] \in {NoFile, disk[f], vault[f]},
         \A f \in Files : vault'[f] \in {disk[f], vault[f]}
  PROVE  Generated'
BY DEF FilesInv, Generated, NoFile

\* An init that writes some files, and drops none.
LEMMA WriteHasVault ==
  ASSUME FilesInv, UNCHANGED <<host, vault>>, pc \in InitSteps, pc \notin {"issue", "sign"},
         \A f \in Files : disk'[f] = disk[f] \/ disk'[f].made # 0
  PROVE  HasVault'
<1>1. \A f \in Files : vault[f] # NoFile => Present(f)
  BY DEF FilesInv, HasVault, Dropped
<1>2. \A f \in Files : vault'[f] # NoFile => Present(f)'
  BY <1>1 DEF Present, NoFile
<1> QED
  BY <1>2 DEF FilesInv, HasVault

\* Such a write also keeps what earlier steps have made.
LEMMA WriteReady ==
  ASSUME FilesInv, pc' \notin {"issue", "sign"},
         \A f \in Files : disk'[f] = disk[f] \/ disk'[f].made # 0,
         pc' = "copy" => Present(Password)',
         pc' \in CaSteps /\ pc \notin CaSteps => Present(CaCert)' /\ Present(CaKey)'
  PROVE  Ready'
<1>1. \A f \in Files : Present(f) => Present(f)'
  BY DEF Present, NoFile
<1> QED
  BY <1>1, FilesFact DEF FilesInv, Ready

\* The writes of an init between its first step and its identities.
LEMMA StepFilesWrite ==
  ASSUME FilesInv, ControlInv',
         \/ BeginInit \/ EnsurePassword \/ CopyToCore \/ KeepCa \/ CreateCa \/ CopyCaKey
         \/ IdentitiesDone \/ MakeSigningKey \/ PublishKey \/ CopyToOAuth
  PROVE  FilesInv'
<1> USE FilesFact, DistinctFact, NamedFact
<1>t. /\ disk \in [Files -> WeakFile] /\ made \in [Sources -> Nat]
      /\ \A f \in Files : Present(f) => disk[f].made # 0
      /\ \A f \in Files : disk[f].made # 0 => Present(f)
  BY DEF FilesInv, ControlInv, WeakTypeOK, Generated, Present, NoFile
<1>1. UNCHANGED <<host, vault>>
  BY DEF BeginInit, EnsurePassword, CopyToCore, KeepCa, CreateCa, CopyCaKey, IdentitiesDone,
     MakeSigningKey, PublishKey, CopyToOAuth, durable, history
<1>2. pc \in InitSteps /\ pc \notin {"issue", "sign"} /\ pc' \notin {"issue", "sign"}
  BY DEF BeginInit, EnsurePassword, CopyToCore, KeepCa, CreateCa, CopyCaKey, IdentitiesDone,
     MakeSigningKey, PublishKey, CopyToOAuth, AfterCa, Goto, InitSteps
<1>3. \A f \in Files : disk'[f] = disk[f] \/ disk'[f].made # 0
  <2>1. CASE BeginInit \/ KeepCa \/ IdentitiesDone \/ PublishKey
    BY <2>1 DEF BeginInit, KeepCa, IdentitiesDone, PublishKey, durable, history
  <2>2. CASE EnsurePassword
    BY <2>2, <1>t DEF EnsurePassword
  <2>3. CASE CopyToCore
    <3>1. disk[Password].made # 0
      BY <2>3, <1>t DEF CopyToCore, FilesInv, Ready
    <3> QED
      BY <2>3, <3>1, <1>t DEF CopyToCore
  <2>4. CASE CreateCa
    <3>1. made[CaKey] \in Nat
      BY <1>t
    <3> QED
      BY <2>4, <3>1, <1>t DEF CreateCa
  <2>5. CASE CopyCaKey
    <3>1. disk[CaKey].made # 0
      BY <2>5, <1>t DEF CopyCaKey, FilesInv, Ready, CaSteps
    <3> QED
      BY <2>5, <3>1, <1>t DEF CopyCaKey
  <2>6. CASE MakeSigningKey
    BY <2>6, <1>t DEF MakeSigningKey
  <2>7. CASE CopyToOAuth
    <3>1. disk[Password].made # 0
      BY <2>7, <1>t DEF CopyToOAuth
    <3> QED
      BY <2>7, <3>1, <1>t DEF CopyToOAuth
  <2> QED
    BY <2>1, <2>2, <2>3, <2>4, <2>5, <2>6, <2>7
<1>4. pc' = "copy" => Present(Password)'
  <2>1. ASSUME pc' = "copy" PROVE EnsurePassword
    BY <2>1 DEF BeginInit, EnsurePassword, CopyToCore, KeepCa, CreateCa, CopyCaKey,
       IdentitiesDone, MakeSigningKey, PublishKey, CopyToOAuth, AfterCa, Goto
  <2>2. EnsurePassword => disk'[Password].made # 0
    BY <1>t DEF EnsurePassword
  <2> QED
    BY <2>1, <2>2 DEF Present, NoFile
<1>5. pc' \in CaSteps /\ pc \notin CaSteps => Present(CaCert)' /\ Present(CaKey)'
  <2>1. ASSUME pc' \in CaSteps, pc \notin CaSteps PROVE KeepCa \/ CreateCa
    BY <2>1 DEF BeginInit, EnsurePassword, CopyToCore, KeepCa, CreateCa, CopyCaKey,
       IdentitiesDone, MakeSigningKey, PublishKey, CopyToOAuth, AfterCa, Goto, CaSteps
  <2>2. KeepCa => Present(CaCert)' /\ Present(CaKey)'
    BY DEF KeepCa, durable, Present
  <2>3. CreateCa => Present(CaCert)' /\ Present(CaKey)'
    BY <1>t DEF CreateCa, Present, NoFile
  <2> QED
    BY <2>1, <2>2, <2>3
<1>6. Ready' /\ HasVault'
  BY <1>1, <1>2, <1>3, <1>4, <1>5, WriteReady, WriteHasVault
<1>7. Generated'
  BY <1>1, <1>3 DEF FilesInv, Generated
<1> QED
  BY <1>6, <1>7 DEF FilesInv

\* The identities: what is dropped is issued again before the next one.
LEMMA StepFilesIdentity ==
  ASSUME FilesInv, ControlInv', NEW s \in Services,
         KeepIdentity(s) \/ DropIdentity(s) \/ IssueKey(s) \/ SignCert(s)
  PROVE  FilesInv'
<1> USE FilesFact, DistinctFact, NamedFact
<1>t. /\ disk \in [Files -> WeakFile] /\ made \in [Sources -> Nat]
      /\ \A f \in Files : disk[f].made = 0 <=> ~Present(f)
  BY DEF FilesInv, ControlInv, WeakTypeOK, Generated, Present, NoFile
<1>1. /\ \A f \in Files \ {Cert(s), Key(s)} : disk'[f] = disk[f]
      /\ UNCHANGED <<host, vault>>
      /\ pc \in {"identities", "issue", "sign"} /\ pc' \in {"identities", "issue", "sign"}
  BY <1>t, IdentityFrame
<1>2. /\ Current(s) /\ \A t : Current(t) => t = s
      /\ todo' = todo => Current(s)' /\ \A t : Current(t)' => t = s
  BY IssuedFact DEF KeepIdentity, DropIdentity, MustIssue, IssueKey, SignCert
<1>3. Present(CaCert)' /\ Present(CaKey)' /\ disk[CaKey].made # 0
  BY <1>1, <1>t DEF FilesInv, Ready, CaSteps, Present
<1>4. \A f \in Files : vault[f] # NoFile => Present(f) \/ Dropped(f)
  BY <1>1 DEF FilesInv, HasVault, InitSteps
<1>5. CASE KeepIdentity(s)
  <2>1. disk' = disk /\ pc = "identities" /\ pc' = "identities"
    BY <1>5 DEF KeepIdentity, durable
  <2>2. \A f \in Files : ~Dropped(f)
    BY <2>1 DEF Dropped
  <2> QED
    BY <1>1, <1>3, <1>4, <2>1, <2>2 DEF FilesInv, Generated, Ready, HasVault, Present, InitSteps
<1>6. CASE DropIdentity(s)
  <2>1. /\ disk'[Cert(s)] = NoFile /\ disk'[Key(s)] = NoFile
        /\ pc = "identities" /\ pc' = "issue" /\ todo' = todo
    BY <1>6, <1>t DEF DropIdentity, MustIssue, Goto
  <2>2. \A f \in Files : ~Dropped(f)
    BY <2>1 DEF Dropped
  <2>3. Dropped(Cert(s))' /\ Dropped(Key(s))'
    BY <1>2, <2>1 DEF Dropped
  <2>4. Generated'
    BY <1>1, <2>1 DEF FilesInv, Generated
  <2>5. Ready'
    BY <1>2, <1>3, <2>1 DEF Ready, Present
  <2>6. HasVault'
    BY <1>1, <1>4, <2>1, <2>2, <2>3 DEF FilesInv, HasVault, Present
  <2> QED
    BY <2>4, <2>5, <2>6 DEF FilesInv
<1>7. CASE IssueKey(s)
  <2>1. /\ disk'[Cert(s)] = disk[Cert(s)] /\ disk'[Key(s)].made # 0
        /\ pc = "issue" /\ pc' = "sign" /\ todo' = todo
    BY <1>7, <1>t DEF IssueKey, Goto
  <2>2. \A f \in Files : Dropped(f) => f \in {Cert(s), Key(s)}
    BY <1>2, <2>1 DEF Dropped
  <2>3. Dropped(Cert(s))' /\ Present(Key(s))'
    BY <1>2, <2>1 DEF Dropped, Present, NoFile
  <2>4. Generated'
    BY <1>1, <2>1 DEF FilesInv, Generated
  <2>5. Ready'
    BY <1>2, <1>3, <2>1, <2>3 DEF FilesInv, Ready, Present
  <2>6. HasVault'
    BY <1>1, <1>4, <2>1, <2>2, <2>3 DEF FilesInv, HasVault, Present
  <2> QED
    BY <2>4, <2>5, <2>6 DEF FilesInv
<1>8. CASE SignCert(s)
  <2>1. /\ disk'[Key(s)] = disk[Key(s)] /\ pc = "sign" /\ pc' = "identities"
        /\ disk'[Cert(s)].made = disk[Key(s)].made
    BY <1>8, <1>t DEF SignCert, Goto
  <2>2. \A f \in Files : Dropped(f) => f = Cert(s)
    BY <1>2, <2>1 DEF Dropped
  <2>3. disk'[Cert(s)].made # 0
    BY <1>2, <1>t, <2>1 DEF FilesInv, Ready
  <2>4. Generated'
    BY <1>1, <2>1, <2>3 DEF FilesInv, Generated
  <2>5. Ready'
    BY <1>3, <2>1 DEF Ready
  <2>6. HasVault'
    BY <1>1, <1>4, <2>1, <2>2, <2>3 DEF FilesInv, HasVault, Present, NoFile
  <2> QED
    BY <2>4, <2>5, <2>6 DEF FilesInv
<1> QED
  BY <1>5, <1>6, <1>7, <1>8

\* Every step leaves on disk what the later steps of an init rely on.
LEMMA StepFilesInv ==
  ASSUME FilesInv, [Next]_vars
  PROVE  FilesInv'
<1>c. ControlInv /\ ControlInv'
  BY StepControlInv DEF FilesInv
<1>t. /\ disk \in [Files -> WeakFile] /\ vault \in [Files -> WeakFile]
      /\ host.target \in {"local", "oci"}
  BY <1>c DEF ControlInv, WeakTypeOK
<1>q. ASSUME disk' = disk, vault' = vault, host' = host, pc' \notin InitSteps
      PROVE  FilesInv'
  BY <1>q, <1>c, OutsideInit, QuietGenerated
<1>1. ASSUME NEW product, NEW selected, NEW force, StartInit(product, selected, force)
      PROVE  FilesInv'
  <2>1. UNCHANGED <<host, disk, vault>>
    BY <1>1 DEF StartInit, durable
  <2>2. CASE host.target = "local"
    <3>1. pc' = "begin" /\ \A f \in Files : vault[f] = NoFile
      BY <1>1, <2>2 DEF StartInit, Start, Goto, FilesInv, HasVault
    <3>2. Ready' /\ HasVault'
      BY <2>1, <3>1 DEF Ready, HasVault, CaSteps
    <3> QED
      BY <2>1, <3>2, <1>c, QuietGenerated DEF FilesInv
  <2>3. CASE host.target = "oci"
    <3>1. pc' \notin InitSteps
      BY <1>1, <2>3 DEF StartInit, Start, Goto, InitSteps
    <3> QED
      BY <2>1, <3>1, <1>q
  <2> QED
    BY <1>t, <2>2, <2>3
<1>2. CASE StartDeploy
  BY <1>2, <1>q DEF StartDeploy, Start, Goto, InitSteps, durable
<1>3. ASSUME NEW product, NEW whole, NEW selected, StartDestroy(product, whole, selected)
      PROVE  FilesInv'
  BY <1>3, <1>q DEF StartDestroy, Start, Goto, InitSteps, durable
<1>4. CASE Restore
  <2>1. /\ \A f \in Files : disk'[f] = IF f \in Missing THEN vault[f] ELSE disk[f]
        /\ UNCHANGED <<host, vault>> /\ pc' \in {"up", "begin"} /\ host.target = "oci"
    BY <1>4, <1>c DEF Restore, Restored, Goto, ControlInv, Control
  <2>2. Generated'
    BY <2>1, QuietGenerated
  <2>3. \A f \in Files : vault'[f] # NoFile => Present(f)'
    BY <2>1 DEF Missing, Present
  <2>4. Ready' /\ HasVault'
    BY <2>1, <2>3 DEF Ready, HasVault, CaSteps
  <2> QED
    BY <2>2, <2>4, <1>c DEF FilesInv
<1>5. CASE StopRestore
  <2>1. \A f \in Files : disk'[f] \in {disk[f], vault[f]}
    BY <1>5 DEF StopRestore, Restored
  <2>2. UNCHANGED <<host, vault>> /\ pc' \notin InitSteps
    BY <1>5, ExitFact DEF StopRestore, InitSteps
  <2> QED
    BY <2>1, <2>2, <1>c, QuietGenerated, OutsideInit
<1>6. CASE NotApplicable \/ RefuseRotation \/ RejectCa \/ RejectOAuth \/ Stop \/ StartPostgres
           \/ FinishLocal
  <2>1. Exit /\ UNCHANGED <<host, disk, vault>>
    BY <1>6 DEF NotApplicable, RefuseRotation, RejectCa, RejectOAuth, Stop, StartPostgres,
       FinishLocal, Fail, Complete, durable
  <2>2. pc' \notin InitSteps
    BY <2>1, ExitFact DEF InitSteps
  <2> QED
    BY <2>1, <2>2, <1>q
<1>7. CASE FinishOci \/ StopUpload \/ Rebuild
  <2>1. /\ Exit /\ host' = host /\ host.target = "oci"
        /\ \A f \in Files : vault'[f] \in {disk[f], vault[f]}
        /\ \A f \in Files : disk'[f] \in {NoFile, disk[f]}
    BY <1>7 DEF FinishOci, StopUpload, Rebuild, UploadPart, Uploaded, Fail, Complete
  <2>2. pc' \notin InitSteps
    BY <2>1, ExitFact DEF InitSteps
  <2>3. Ready' /\ HasVault'
    BY <2>1, <2>2 DEF Ready, HasVault, InitSteps, CaSteps
  <2> QED
    BY <2>1, <2>3, <1>c, QuietGenerated DEF FilesInv
<1>8. CASE BeginInit \/ EnsurePassword \/ CopyToCore \/ KeepCa \/ CreateCa \/ CopyCaKey
           \/ IdentitiesDone \/ MakeSigningKey \/ PublishKey \/ CopyToOAuth
  BY <1>8, <1>c, StepFilesWrite
<1>9. ASSUME NEW s \in Services,
             KeepIdentity(s) \/ DropIdentity(s) \/ IssueKey(s) \/ SignCert(s)
      PROVE  FilesInv'
  BY <1>9, <1>c, StepFilesIdentity
<1>10. ASSUME NEW s \in AllServices, RemoveTarget(s) \/ RemovePart(s)
       PROVE  FilesInv'
  <2>1. UNCHANGED <<host, vault>> /\ pc' \notin InitSteps
    BY <1>10 DEF RemoveTarget, RemovePart, InitSteps
  <2>2. \A f \in Files : disk'[f] \in {NoFile, disk[f]}
    BY <1>10 DEF RemoveTarget, RemovePart
  <2> QED
    BY <2>1, <2>2, <1>c, QuietGenerated, OutsideInit
<1>11. CASE TargetsDone \/ RemoveSharedCa \/ RemoveCaPart
  <2>1. UNCHANGED <<host, vault>> /\ pc' \notin InitSteps
    BY <1>11, ExitFact DEF TargetsDone, RemoveSharedCa, RemoveCaPart, Goto, durable, InitSteps
  <2>2. \A f \in Files : disk'[f] \in {NoFile, disk[f]}
    BY <1>11, <1>t DEF TargetsDone, RemoveSharedCa, RemoveCaPart, durable
  <2> QED
    BY <2>1, <2>2, <1>c, QuietGenerated, OutsideInit
<1>12. CASE UNCHANGED vars
  BY <1>12, <1>c DEF vars, FilesInv, Generated, Ready, HasVault, Present, Dropped, Current
<1> QED
  BY <1>1, <1>2, <1>3, <1>4, <1>5, <1>6, <1>7, <1>8, <1>9, <1>10, <1>11, <1>12
  DEF Next, Begin, Run, Faulty

-----------------------------------------------------------------------------
(* Whose files there are *)

\* A step that removes no root, and adds files only where a root is.
LEMMA QuietOwned ==
  ASSUME Owned, host' = host,
         \A f \in Files : Present(f)' =>
           \/ Present(f)
           \/ /\ f[2] \in Installed \cup {"core", "ca"}
              /\ f[2] # "ca" => Root[f[2]] \in roots',
         \A f \in Files : vault'[f] # NoFile => Present(f) \/ vault[f] # NoFile,
         roots \subseteq roots',
         roots' \subseteq {"nebula"} \cup {Root[s] : s \in Installed},
         pc' \in InitSteps \ {"begin"} => \A s \in scope'.selected : Root[s] \in roots'
  PROVE  Owned'
BY DEF Owned, Installed

\* A step of an init writes files of what it has selected, of Core or of the CA.
LEMMA WriteOwned ==
  ASSUME ControlInv, Owned, UNCHANGED <<host, vault, scope, roots>>, pc \in InitSteps \ {"begin"},
         \A f \in Files : disk'[f] = disk[f] \/ f[2] \in scope.selected \cup {"ca"}
  PROVE  Owned'
<1>1. \A s \in scope.selected : Root[s] \in roots /\ s \in Installed
  BY DEF Owned, ControlInv, Control
<1>2. \A f \in Files : Present(f)' =>
           \/ Present(f)
           \/ /\ f[2] \in Installed \cup {"core", "ca"}
              /\ f[2] # "ca" => Root[f[2]] \in roots'
  BY <1>1 DEF Present
<1>3. roots' \subseteq {"nebula"} \cup {Root[s] : s \in Installed}
  BY DEF Owned
<1> QED
  BY <1>1, <1>2, <1>3, QuietOwned

\* A removal leaves no file of a root it removes.
LEMMA RemoveOwned ==
  ASSUME ControlInv, Owned, UNCHANGED <<host, vault>>, pc' \notin InitSteps, NEW R,
         roots' = roots \ R,
         \A f \in Files : Present(f)' => Present(f) /\ (f[2] # "ca" => Root[f[2]] \notin R)
  PROVE  Owned'
BY DEF Owned, Installed

\* Every step keeps files in trees that have their root.
LEMMA StepOwned ==
  ASSUME ControlInv, ControlInv', Owned, [Next]_vars
  PROVE  Owned'
<1> USE FilesFact, OwnerFact
<1>t. /\ disk \in [Files -> WeakFile] /\ vault \in [Files -> WeakFile]
      /\ roots \subseteq {"nebula"} \cup {Root[s] : s \in Installed}
      /\ Root["core"] = "nebula"
      /\ scope.selected \subseteq Installed
  BY DEF ControlInv, WeakTypeOK, Control, Owned, Root, AllServices, NebulaServices
<1>q. ASSUME UNCHANGED <<host, roots>>, \A f \in Files : Present(f)' => Present(f),
             \A f \in Files : vault'[f] # NoFile => Present(f) \/ vault[f] # NoFile,
             pc' \notin InitSteps \ {"begin"}
      PROVE  Owned'
  BY <1>q, <1>t, QuietOwned
<1>1. ASSUME NEW product, NEW selected, NEW force, StartInit(product, selected, force)
      PROVE  Owned'
  BY <1>1, <1>q DEF StartInit, Start, Goto, InitSteps, Present, durable
<1>2. CASE StartDeploy
  BY <1>2, <1>q DEF StartDeploy, Start, Goto, InitSteps, Present, durable
<1>3. ASSUME NEW product, NEW whole, NEW selected, StartDestroy(product, whole, selected)
      PROVE  Owned'
  BY <1>3, <1>q DEF StartDestroy, Start, Goto, InitSteps, Present, durable
<1>4. ASSUME NEW S, S \subseteq Missing, Restored(S), UNCHANGED <<host, vault>>,
             pc' \notin InitSteps \ {"begin"}
      PROVE  Owned'
  <2>1. \A f \in S : f \in Files /\ f[2] \in Installed \cup {"core", "ca"}
    BY <1>4 DEF Missing, Owned
  <2>2. roots' = roots \cup {Root[f[2]] : f \in {g \in S : g[2] # "ca"}}
    BY <1>4 DEF Restored
  <2>3. roots' \subseteq {"nebula"} \cup {Root[s] : s \in Installed}
    BY <2>1, <2>2, <1>t
  <2>4. \A f \in Files : Present(f)' => Present(f) \/ f \in S
    BY <1>4 DEF Restored, Present
  <2>5. \A f \in S : f[2] # "ca" => Root[f[2]] \in roots'
    BY <2>2
  <2> QED
    BY <1>4, <2>1, <2>2, <2>3, <2>4, <2>5, QuietOwned
<1>5. CASE Restore
  <2>1. Restored(Missing) /\ UNCHANGED <<host, vault>> /\ pc' \notin InitSteps \ {"begin"}
    BY <1>5 DEF Restore, Goto, InitSteps
  <2> QED
    BY <2>1, <1>4
<1>6. CASE StopRestore
  <2>1. PICK f \in Missing : Restored(UpTo(f, Missing, RestoreOrder))
    BY <1>6 DEF StopRestore
  <2>2. UNCHANGED <<host, vault>> /\ pc' \notin InitSteps \ {"begin"}
    BY <1>6, ExitFact DEF StopRestore, InitSteps
  <2>3. UpTo(f, Missing, RestoreOrder) \subseteq Missing
    BY DEF UpTo
  <2> QED
    BY <2>1, <2>2, <2>3, <1>4
<1>7. CASE NotApplicable \/ RefuseRotation \/ RejectCa \/ RejectOAuth \/ Stop \/ StartPostgres
           \/ FinishLocal
  <2>1. Exit /\ UNCHANGED <<host, disk, vault, roots>>
    BY <1>7 DEF NotApplicable, RefuseRotation, RejectCa, RejectOAuth, Stop, StartPostgres,
       FinishLocal, Fail, Complete, durable
  <2>2. pc' \notin InitSteps
    BY <2>1, ExitFact DEF InitSteps
  <2> QED
    BY <2>1, <2>2, <1>q DEF Present
<1>8. CASE FinishOci \/ StopUpload
  <2>1. /\ Exit /\ UNCHANGED <<host, disk, roots>>
        /\ \A f \in Files : vault'[f] \in {disk[f], vault[f]}
    BY <1>8 DEF FinishOci, StopUpload, UploadPart, Uploaded, Fail, Complete
  <2>2. pc' \notin InitSteps
    BY <2>1, ExitFact DEF InitSteps
  <2> QED
    BY <2>1, <2>2, <1>q DEF Present
<1>9. CASE Rebuild
  <2>1. /\ Exit /\ host' = host /\ roots' = {}
        /\ \A f \in Files : ~Present(f)'
        /\ \A f \in Files : vault'[f] \in {disk[f], vault[f]}
    BY <1>9 DEF Rebuild, UploadPart, Uploaded, Present
  <2>2. pc' \notin InitSteps
    BY <2>1, ExitFact DEF InitSteps
  <2> QED
    BY <2>1, <2>2 DEF Owned, Present, Installed
<1>10. CASE BeginInit
  <2>1. /\ roots' = roots \cup {Root[s] : s \in scope.selected}
        /\ UNCHANGED <<host, disk, vault, scope>>
    BY <1>10 DEF BeginInit
  <2>2. roots' \subseteq {"nebula"} \cup {Root[s] : s \in Installed}
    BY <2>1, <1>t
  <2>3. \A s \in scope'.selected : Root[s] \in roots'
    BY <2>1
  <2> QED
    BY <2>1, <2>2, <2>3, QuietOwned DEF Present
<1>11. CASE EnsurePassword
  <2>1. \A f \in Files : disk'[f] = disk[f] \/ f = Password
    BY <1>11, <1>t DEF EnsurePassword
  <2>2. "database" \in scope.selected /\ UNCHANGED <<host, vault, scope, roots>> /\ pc = "password"
    BY <1>11 DEF EnsurePassword, ControlInv, Control
  <2> QED
    BY <2>1, <2>2, WriteOwned DEF InitSteps
<1>12. CASE CopyToCore
  <2>1. \A f \in Files : disk'[f] = disk[f] \/ f = CorePassword
    BY <1>12, <1>t DEF CopyToCore
  <2>2. UNCHANGED <<host, vault, scope>> /\ pc = "copy" /\ roots' = roots \cup {"nebula"}
    BY <1>12 DEF CopyToCore
  <2>3. roots' \subseteq {"nebula"} \cup {Root[s] : s \in Installed}
    BY <2>2, <1>t
  <2>4. \A s \in scope'.selected : Root[s] \in roots'
    BY <2>2 DEF Owned, InitSteps
  <2>5. \A f \in Files : Present(f)' =>
           \/ Present(f)
           \/ /\ f[2] \in Installed \cup {"core", "ca"}
              /\ f[2] # "ca" => Root[f[2]] \in roots'
    BY <2>1, <2>2, <1>t DEF Present
  <2> QED
    BY <2>2, <2>3, <2>4, <2>5, QuietOwned
<1>13. CASE KeepCa \/ CreateCa \/ CopyCaKey
  <2>1. \A f \in Files : disk'[f] = disk[f] \/ f \in {CaCert, CaKey} \/ (pc = "coreca" /\ f = CoreCaKey)
    BY <1>13, <1>t DEF KeepCa, CreateCa, CopyCaKey, durable
  <2>2. /\ UNCHANGED <<host, vault, scope, roots>> /\ pc \in {"ca", "coreca"}
        /\ pc = "coreca" => "core" \in scope.selected
    BY <1>13 DEF KeepCa, CreateCa, CopyCaKey, durable, ControlInv, Control
  <2> QED
    BY <2>1, <2>2, WriteOwned DEF InitSteps
<1>14. ASSUME NEW s \in Services,
              KeepIdentity(s) \/ DropIdentity(s) \/ IssueKey(s) \/ SignCert(s)
       PROVE  Owned'
  <2>1. /\ \A f \in Files : disk'[f] = disk[f] \/ f \in {Cert(s), Key(s)}
        /\ UNCHANGED <<host, vault, scope, roots>> /\ pc \in {"identities", "issue", "sign"}
    BY <1>14, <1>t, IdentityFrame
  <2>2. s \in scope.selected
    BY <1>14, <2>1 DEF KeepIdentity, DropIdentity, MustIssue, IssueKey, SignCert, IsFirst,
       ControlInv, Control
  <2> QED
    BY <2>1, <2>2, WriteOwned DEF InitSteps
<1>15. CASE IdentitiesDone \/ MakeSigningKey \/ PublishKey \/ CopyToOAuth
  <2>1. \/ disk' = disk
        \/ /\ pc \in {"signing", "oauth"}
           /\ \A f \in Files : disk'[f] = disk[f] \/ f \in {SigningKey, OAuthPassword}
    BY <1>15, <1>t DEF IdentitiesDone, MakeSigningKey, PublishKey, CopyToOAuth, durable
  <2>2. /\ UNCHANGED <<host, vault, scope, roots>>
        /\ pc \in {"identities", "signing", "publish", "oauth"}
    BY <1>15 DEF IdentitiesDone, MakeSigningKey, PublishKey, CopyToOAuth, durable
  <2>3. pc \in {"signing", "oauth"} => "oauth" \in scope.selected
    BY DEF ControlInv, Control, InitSteps
  <2> QED
    BY <2>1, <2>2, <2>3, WriteOwned DEF InitSteps
<1>16. ASSUME NEW s \in AllServices, RemoveTarget(s)
       PROVE  Owned'
  <2>1. /\ UNCHANGED <<host, vault>> /\ pc' \notin InitSteps
        /\ \A f \in Files : Present(f)' => Present(f) /\ f[2] \notin RemovedWith(s)
        /\ roots' = RootsWithout(s)
        /\ pc = "remove" /\ s \in todo
    BY <1>16 DEF RemoveTarget, Present, IsFirst, InitSteps
  <2>2. CASE scope.whole
    <3>1. roots' = roots \ {Root[s]}
      BY <2>1, <2>2 DEF RootsWithout
    <3>2. \A t \in AllServices : Root[t] = Root[s] => t \in RemovedWith(s)
      BY <2>1, <2>2 DEF RemovedWith, ControlInv, Control
    <3>3. \A f \in Files : Present(f)' => Present(f) /\ (f[2] # "ca" => Root[f[2]] \notin {Root[s]})
      BY <2>1, <3>2
    <3> QED
      BY <2>1, <3>1, <3>3, RemoveOwned
  <2>3. CASE ~scope.whole /\ s \in {"core", "console", "playground"}
    <3>1. roots' = roots
      BY <2>1, <2>3 DEF RootsWithout
    <3> QED
      BY <2>1, <3>1, <1>q
  <2>4. CASE ~scope.whole /\ s \notin {"core", "console", "playground"}
    <3>1. roots' = roots \ {Root[s]} /\ RemovedWith(s) = {s}
      BY <2>1, <2>4 DEF RootsWithout, RemovedWith
    <3>2. \A t \in AllServices : Root[t] = Root[s] => t = s
      BY <2>4 DEF Root, AllServices, NebulaServices
    <3>3. \A f \in Files : Present(f)' => Present(f) /\ (f[2] # "ca" => Root[f[2]] \notin {Root[s]})
      BY <2>1, <3>1, <3>2
    <3> QED
      BY <2>1, <3>1, <3>3, RemoveOwned
  <2> QED
    BY <2>2, <2>3, <2>4
<1>17. ASSUME NEW s \in AllServices, RemovePart(s)
       PROVE  Owned'
  <2>1. /\ UNCHANGED <<host, vault, roots>> /\ pc' \notin InitSteps
        /\ \A f \in Files : Present(f)' => Present(f)
    BY <1>17 DEF RemovePart, Present, InitSteps
  <2> QED
    BY <2>1, <1>q
<1>18. CASE TargetsDone \/ RemoveSharedCa \/ RemoveCaPart
  <2>1. UNCHANGED <<host, vault, roots>> /\ pc' \notin InitSteps
    BY <1>18, ExitFact DEF TargetsDone, RemoveSharedCa, RemoveCaPart, Goto, durable, InitSteps
  <2>2. \A f \in Files : Present(f)' => Present(f)
    BY <1>18, <1>t DEF TargetsDone, RemoveSharedCa, RemoveCaPart, durable, Present
  <2> QED
    BY <2>1, <2>2, <1>q
<1>19. CASE UNCHANGED vars
  BY <1>19 DEF vars, Owned, Present, Installed
<1> QED
  BY <1>1, <1>2, <1>3, <1>5, <1>6, <1>7, <1>8, <1>9, <1>10, <1>11, <1>12, <1>13, <1>14, <1>15,
     <1>16, <1>17, <1>18, <1>19 DEF Next, Begin, Run, Faulty

-----------------------------------------------------------------------------
(* Restores and uploads *)

\* A restore that mixes nothing leaves the disk as it was, or restores into a
\* part of a Vault that is whole.
LEMMA RestoredFact ==
  ASSUME FilesInv, NEW S, S \subseteq Missing, Restored(S), ~mixed'
  PROVE  /\ ~mixed
         /\ S = {} => disk' = disk
         /\ S # {} => ~torn /\ \A f \in Files : Present(f) => disk[f] = vault[f]
         /\ \A f \in Files : disk'[f] = IF f \in S THEN vault[f] ELSE disk[f]
         /\ disk' \in [Files -> WeakFile]
<1>t. disk \in [Files -> WeakFile] /\ vault \in [Files -> WeakFile]
  BY DEF FilesInv, ControlInv, WeakTypeOK
<1>1. mixed' = (mixed \/ (S # {} /\ (torn \/ \E g \in Files : Present(g) /\ disk[g] # vault[g])))
  BY DEF Restored
<1>2. ~mixed /\ (S # {} => ~torn /\ \A f \in Files : Present(f) => disk[f] = vault[f])
  BY <1>1, Zenon
<1>3. disk' = [f \in Files |-> IF f \in S THEN vault[f] ELSE disk[f]]
  BY DEF Restored
<1>4. S = {} => disk' = disk
  BY <1>3, <1>t
<1> QED
  BY <1>2, <1>3, <1>4, <1>t

\* After a whole restore that mixes nothing, a disk that held a part of Vault
\* holds all of it.
LEMMA RestoreFact ==
  ASSUME FilesInv, Restore, ~mixed'
  PROVE  ~mixed /\ \/ disk' = disk /\ (PartOfVault => disk' = vault)
                   \/ disk' = vault /\ ~torn
<1>t. /\ disk \in [Files -> WeakFile] /\ vault \in [Files -> WeakFile]
      /\ Restored(Missing)
  BY DEF FilesInv, ControlInv, WeakTypeOK, Restore
<1>1. \A f \in Files : f \notin Missing /\ (Present(f) => disk[f] = vault[f]) => disk[f] = vault[f]
  BY DEF Missing, Present
<1>2. CASE Missing = {}
  <2>1. disk' = disk /\ ~mixed
    BY <1>2, <1>t, RestoredFact
  <2>2. PartOfVault => \A f \in Files : disk[f] = vault[f]
    BY <1>1, <1>2 DEF PartOfVault
  <2>3. PartOfVault => disk = vault
    BY <2>2, <1>t
  <2> QED
    BY <2>1, <2>3
<1>3. CASE Missing # {}
  <2>1. /\ ~mixed /\ ~torn /\ disk' \in [Files -> WeakFile]
        /\ \A f \in Files : Present(f) => disk[f] = vault[f]
        /\ \A f \in Files : disk'[f] = IF f \in Missing THEN vault[f] ELSE disk[f]
    BY <1>3, <1>t, RestoredFact
  <2>2. \A f \in Files : disk'[f] = vault[f]
    BY <1>1, <2>1
  <2>3. disk' = vault
    BY <2>1, <2>2, <1>t
  <2> QED
    BY <2>1, <2>3
<1> QED
  BY <1>2, <1>3

\* A restore that stops, and mixes nothing, leaves the disk or a part of Vault.
LEMMA StopRestoreFact ==
  ASSUME FilesInv, StopRestore, ~mixed'
  PROVE  ~mixed /\ (disk' = disk \/ PartOfVault') /\ (PartOfVault => PartOfVault')
<1>1. PICK f \in Missing : Restored(UpTo(f, Missing, RestoreOrder))
  BY DEF StopRestore
<1>2. PICK S : S = UpTo(f, Missing, RestoreOrder)
  OBVIOUS
<1>3. S \subseteq Missing /\ Restored(S)
  BY <1>1, <1>2 DEF UpTo
<1>4. /\ UNCHANGED <<host, vault, torn>> /\ pc' \notin InitSteps
      /\ host.target = "oci"
  BY ExitFact DEF StopRestore, InitSteps, Restored, FilesInv, ControlInv, Control
<1>5. CASE S = {}
  <2>1. disk' = disk /\ ~mixed
    BY <1>3, <1>5, RestoredFact
  <2> QED
    BY <2>1, <1>4 DEF PartOfVault, Present
<1>6. CASE S # {}
  <2>1. /\ ~mixed /\ ~torn
        /\ \A g \in Files : Present(g) => disk[g] = vault[g]
        /\ \A g \in Files : disk'[g] = IF g \in S THEN vault[g] ELSE disk[g]
    BY <1>3, <1>6, RestoredFact
  <2>2. \A g \in Files : Present(g)' => disk'[g] = vault'[g]
    BY <2>1, <1>4 DEF Present
  <2> QED
    BY <2>1, <2>2, <1>4 DEF PartOfVault
<1> QED
  BY <1>5, <1>6

\* An upload at the end of an init that is not torn makes Vault hold the disk.
LEMMA UploadedFact ==
  ASSUME FilesInv, pc = "finish", NEW S, S \subseteq OnDisk, Uploaded(S), ~torn'
  PROVE  vault' = disk
<1>t. /\ disk \in [Files -> WeakFile] /\ vault \in [Files -> WeakFile]
      /\ vault' = [f \in Files |-> IF f \in S THEN disk[f] ELSE vault[f]]
  BY DEF FilesInv, ControlInv, WeakTypeOK, Uploaded
<1>1. \A f \in Files : Present(f) => vault'[f] = disk[f]
  BY DEF Uploaded
<1>2. \A f \in Files : vault[f] # NoFile => Present(f)
  BY DEF FilesInv, HasVault, Dropped, InitSteps
<1>3. \A f \in Files : ~Present(f) => vault'[f] = vault[f]
  BY <1>t DEF OnDisk
<1>4. \A f \in Files : vault'[f] = disk[f]
  BY <1>1, <1>2, <1>3 DEF Present
<1> QED
  BY <1>t, <1>4

\* The upload at the end of an init makes Vault hold the disk.
LEMMA FinishFact ==
  ASSUME FilesInv, FinishOci
  PROVE  ~torn' /\ vault' = disk
<1>1. ~torn'
  <2>1. torn' = \E f \in Files : Present(f) /\ vault'[f] # disk[f]
    BY DEF FinishOci, Uploaded
  <2>2. vault' = [f \in Files |-> IF f \in OnDisk THEN disk[f] ELSE vault[f]]
    BY DEF FinishOci, Uploaded
  <2>3. \A f \in Files : Present(f) => vault'[f] = disk[f]
    BY <2>2 DEF OnDisk
  <2> QED
    BY <2>1, <2>3, Zenon
<1>2. vault' = disk
  BY <1>1, UploadedFact DEF FinishOci
<1> QED
  BY <1>1, <1>2

\* So does one that stops, if nothing was left to upload.
LEMMA PartFact ==
  ASSUME FilesInv, UploadPart, ~torn'
  PROVE  vault' = disk
<1>1. PICK f \in OnDisk : Uploaded(UpTo(f, OnDisk, PathOrder))
  BY DEF UploadPart
<1>2. UpTo(f, OnDisk, PathOrder) \subseteq OnDisk
  BY DEF UpTo
<1> QED
  BY <1>1, <1>2, UploadedFact DEF UploadPart

-----------------------------------------------------------------------------
(* The shared CA, the identities and Core's copy of the CA key *)

\* The end of a destroy touches no file but the CA's.
LEMMA SharedCaFrame ==
  ASSUME disk \in [Files -> WeakFile], TargetsDone \/ RemoveSharedCa \/ RemoveCaPart
  PROVE  /\ \A f \in Files : disk'[f] \in {NoFile, disk[f]}
         /\ \A f \in Files \ {CaCert, CaKey} : disk'[f] = disk[f]
<1> USE FilesFact, NamedFact
<1>1. CASE TargetsDone
  BY <1>1 DEF TargetsDone, durable
<1>2. CASE RemoveSharedCa
  <2>1. CASE CaUnused
    <3>1. disk' = [disk EXCEPT ![CaCert] = NoFile, ![CaKey] = NoFile]
      BY <1>2, <2>1 DEF RemoveSharedCa
    <3> QED
      BY <3>1
  <2>2. CASE ~CaUnused
    BY <1>2, <2>2 DEF RemoveSharedCa
  <2> QED
    BY <2>1, <2>2
<1>3. CASE RemoveCaPart
  <2>1. PICK f \in {CaCert, CaKey} : disk' = [disk EXCEPT ![f] = NoFile]
    BY <1>3 DEF RemoveCaPart
  <2> QED
    BY <2>1
<1> QED
  BY <1>1, <1>2, <1>3

\* Files stay consistent when any of them but the CA's are removed.
LEMMA RemovedConsistent ==
  ASSUME NEW m, NEW n, Consistent(m), \A f \in Files : n[f] \in {NoFile, m[f]},
         n[CaCert] = m[CaCert], n[CaKey] = m[CaKey]
  PROVE  Consistent(n)
<1> USE FilesFact
<1>1. n[CoreCaKey] # NoFile => n[CaCert] # NoFile /\ n[CoreCaKey] = n[CaKey]
  BY DEF Consistent
<1>2. \A s \in Services : n[Cert(s)] # NoFile =>
        n[CaCert] # NoFile /\ n[CaKey] # NoFile /\ n[Cert(s)].ca = n[CaCert].made
  BY DEF Consistent
<1>3. \A s \in Services : n[Cert(s)] # NoFile /\ n[Key(s)] # NoFile =>
        n[Cert(s)].made = n[Key(s)].made
  BY DEF Consistent
<1> QED
  BY <1>1, <1>2, <1>3 DEF Consistent

\* Nothing but the CA's files matters when no other file is there.
LEMMA EmptyConsistent ==
  ASSUME NEW m, \A f \in Files : f \notin {CaCert, CaKey} => m[f] = NoFile,
         m[CaCert] # NoFile /\ m[CaKey] # NoFile => m[CaCert] = m[CaKey]
  PROVE  Consistent(m)
BY FilesFact, DistinctFact, NamedFact DEF Consistent

\* A step outside of the restores and uploads.
LEMMA QuietKeys ==
  ASSUME KeysInv, UNCHANGED <<vault, torn>>, mixed' <=> mixed,
         ~mixed /\ Consistent(disk) => Consistent(disk') \/ PartOfVault',
         ~mixed /\ PartOfVault => PartOfVault'
  PROVE  KeysInv'
<1>1. ASSUME ~mixed' PROVE (~torn' => Consistent(vault)') /\ (Consistent(disk)' \/ PartOfVault')
  <2>1. ~mixed
    BY <1>1, Zenon
  <2>2. (~torn => Consistent(vault)) /\ (Consistent(disk) \/ PartOfVault)
    BY <2>1, Zenon DEF KeysInv
  <2>3. ~torn' => Consistent(vault)'
    BY <2>2 DEF Consistent
  <2>4. Consistent(disk)' \/ PartOfVault'
    BY <2>1, <2>2 DEF Consistent
  <2> QED
    BY <2>3, <2>4
<1> QED
  BY <1>1 DEF KeysInv

\* A step of an init that writes to the disk only.
LEMMA WriteKeys ==
  ASSUME KeysInv, UNCHANGED <<vault, torn>>, mixed' <=> mixed, pc \in InitSteps,
         Consistent(disk) => Consistent(disk')
  PROVE  KeysInv'
<1>1. ~PartOfVault
  BY DEF PartOfVault
<1> QED
  BY <1>1, QuietKeys

\* The steps that make the CA or copy a file keep the keys consistent.
LEMMA StepKeysWrite ==
  ASSUME FilesInv, KeysInv,
         \/ BeginInit \/ EnsurePassword \/ CopyToCore \/ KeepCa \/ CreateCa \/ CopyCaKey
         \/ IdentitiesDone \/ MakeSigningKey \/ PublishKey \/ CopyToOAuth
  PROVE  KeysInv'
<1> USE FilesFact, DistinctFact, NamedFact
<1>t. disk \in [Files -> WeakFile] /\ made \in [Sources -> Nat]
  BY DEF FilesInv, ControlInv, WeakTypeOK
<1>1. UNCHANGED <<vault, torn, mixed>>
  BY DEF BeginInit, EnsurePassword, CopyToCore, KeepCa, CreateCa, CopyCaKey, IdentitiesDone,
     MakeSigningKey, PublishKey, CopyToOAuth, durable, history
<1>2. pc \in InitSteps
  BY DEF BeginInit, EnsurePassword, CopyToCore, KeepCa, CreateCa, CopyCaKey, IdentitiesDone,
     MakeSigningKey, PublishKey, CopyToOAuth, InitSteps
<1>3. ASSUME Consistent(disk) PROVE Consistent(disk')
  <2>1. CASE BeginInit \/ KeepCa \/ IdentitiesDone \/ PublishKey
    <3>1. disk' = disk
      BY <2>1 DEF BeginInit, KeepCa, IdentitiesDone, PublishKey, durable, history
    <3> QED
      BY <3>1, <1>3
  <2>2. CASE EnsurePassword \/ CopyToCore \/ MakeSigningKey \/ CopyToOAuth
    <3>1. \A f \in Files : f \notin {Password, CorePassword, SigningKey, OAuthPassword} =>
            disk'[f] = disk[f]
      BY <2>2, <1>t DEF EnsurePassword, CopyToCore, MakeSigningKey, CopyToOAuth
    <3>2. /\ \A s \in Services : disk'[Cert(s)] = disk[Cert(s)] /\ disk'[Key(s)] = disk[Key(s)]
          /\ disk'[CaCert] = disk[CaCert] /\ disk'[CaKey] = disk[CaKey]
          /\ disk'[CoreCaKey] = disk[CoreCaKey]
      BY <3>1
    <3> QED
      BY <3>2, <1>3 DEF Consistent
  <2>3. CASE CreateCa
    <3>1. /\ \A f \in Files : f \notin {CaCert, CaKey} => disk'[f] = disk[f]
          /\ disk'[CaCert] = disk'[CaKey]
          /\ disk[CaCert] = NoFile \/ disk[CaKey] = NoFile
      BY <2>3, <1>3 DEF CreateCa, Consistent, Present
    <3>2. /\ \A s \in Services : disk[Cert(s)] = NoFile
          /\ disk[CoreCaKey] = NoFile
      BY <3>1, <1>3 DEF Consistent
    <3>3. /\ \A s \in Services : disk'[Cert(s)] = NoFile
          /\ disk'[CoreCaKey] = NoFile
      BY <3>1, <3>2
    <3> QED
      BY <3>1, <3>3 DEF Consistent
  <2>4. CASE CopyCaKey
    <3>1. \A f \in Files : f # CoreCaKey => disk'[f] = disk[f]
      BY <2>4, <1>t DEF CopyCaKey
    <3>2. disk'[CoreCaKey] = disk[CaKey] /\ disk[CaCert] # NoFile
      BY <2>4, <1>t DEF CopyCaKey, FilesInv, Ready, CaSteps, Present
    <3>3. /\ \A s \in Services : disk'[Cert(s)] = disk[Cert(s)] /\ disk'[Key(s)] = disk[Key(s)]
          /\ disk'[CaCert] = disk[CaCert] /\ disk'[CaKey] = disk[CaKey]
      BY <3>1
    <3> QED
      BY <3>2, <3>3, <1>3 DEF Consistent
  <2> QED
    BY <2>1, <2>2, <2>3, <2>4
<1> QED
  BY <1>1, <1>2, <1>3, WriteKeys

\* A certificate is signed by the CA of its disk, for the key beside it.
LEMMA StepKeysIdentity ==
  ASSUME FilesInv, KeysInv, NEW s \in Services,
         KeepIdentity(s) \/ DropIdentity(s) \/ IssueKey(s) \/ SignCert(s)
  PROVE  KeysInv'
<1> USE FilesFact, DistinctFact, NamedFact
<1>t. disk \in [Files -> WeakFile] /\ made \in [Sources -> Nat]
  BY DEF FilesInv, ControlInv, WeakTypeOK
<1>1. /\ \A f \in Files \ {Cert(s), Key(s)} : disk'[f] = disk[f]
      /\ UNCHANGED <<vault, torn, mixed>> /\ pc \in InitSteps
  BY <1>t, IdentityFrame DEF InitSteps, history
<1>2. ASSUME Consistent(disk) PROVE Consistent(disk')
  <2>1. /\ disk'[CaCert] = disk[CaCert] /\ disk'[CaKey] = disk[CaKey]
        /\ disk'[CoreCaKey] = disk[CoreCaKey]
        /\ \A t \in Services \ {s} : disk'[Cert(t)] = disk[Cert(t)] /\ disk'[Key(t)] = disk[Key(t)]
    BY <1>1
  <2>2. CASE KeepIdentity(s) \/ DropIdentity(s)
    <3>1. \A f \in Files : disk'[f] \in {NoFile, disk[f]}
      BY <2>2, <1>t DEF KeepIdentity, DropIdentity, durable
    <3> QED
      BY <3>1, <2>1, <1>2, RemovedConsistent
  <2>3. CASE IssueKey(s)
    <3>1. disk[Cert(s)] = NoFile
      BY <2>3, IssuedFact DEF IssueKey, FilesInv, Ready, Present
    <3>2. disk'[Cert(s)] = NoFile
      BY <2>3, <3>1, <1>t DEF IssueKey
    <3> QED
      BY <2>1, <3>2, <1>2 DEF Consistent
  <2>4. CASE SignCert(s)
    <3>1. disk[CaCert] # NoFile /\ disk[CaKey] # NoFile
      BY <2>4 DEF SignCert, FilesInv, Ready, CaSteps, Present
    <3>2. /\ disk'[Cert(s)].made = disk[Key(s)].made /\ disk'[Cert(s)].ca = disk[CaKey].made
          /\ disk'[Key(s)] = disk[Key(s)]
      BY <2>4, <1>t DEF SignCert
    <3>3. /\ \A t \in Services : disk'[Cert(t)] # NoFile =>
               /\ disk'[CaCert] # NoFile /\ disk'[CaKey] # NoFile
               /\ disk'[Cert(t)].ca = disk'[CaCert].made
      BY <2>1, <3>1, <3>2, <1>2 DEF Consistent
    <3>4. \A t \in Services : disk'[Cert(t)] # NoFile /\ disk'[Key(t)] # NoFile =>
            disk'[Cert(t)].made = disk'[Key(t)].made
      BY <2>1, <3>2, <1>2 DEF Consistent
    <3> QED
      BY <2>1, <3>3, <3>4, <1>2 DEF Consistent
  <2> QED
    BY <2>2, <2>3, <2>4
<1> QED
  BY <1>1, <1>2, WriteKeys

\* A removal of files keeps what is a part of Vault a part of it.
LEMMA RemovedPart ==
  ASSUME PartOfVault, UNCHANGED <<host, vault, torn>>, pc' \notin InitSteps,
         \A f \in Files : disk'[f] \in {NoFile, disk[f]}
  PROVE  PartOfVault'
BY DEF PartOfVault, Present

\* Every step keeps the CA, the identities and Core's copy consistent.
LEMMA StepKeysInv ==
  ASSUME FilesInv, Owned, KeysInv, [Next]_vars
  PROVE  KeysInv'
<1> USE FilesFact
<1>t. /\ disk \in [Files -> WeakFile] /\ vault \in [Files -> WeakFile]
      /\ mixed \in BOOLEAN
  BY DEF FilesInv, ControlInv, WeakTypeOK
<1>q. ASSUME UNCHANGED <<host, disk, vault, torn, mixed>>, pc' \notin InitSteps
      PROVE  KeysInv'
  <2>1. PartOfVault => PartOfVault'
    BY <1>q DEF PartOfVault, Present
  <2> QED
    BY <1>q, <2>1, QuietKeys
<1>1. ASSUME NEW product, NEW selected, NEW force, StartInit(product, selected, force)
      PROVE  KeysInv'
  <2>1. UNCHANGED <<host, disk, vault, torn, mixed>>
    BY <1>1 DEF StartInit, durable, history
  <2>2. CASE host.target = "oci"
    <3>1. pc' \notin InitSteps
      BY <1>1, <2>2 DEF StartInit, Start, Goto, InitSteps
    <3> QED
      BY <2>1, <3>1, <1>q
  <2>3. CASE host.target # "oci"
    <3>1. ~PartOfVault
      BY <2>3 DEF PartOfVault
    <3> QED
      BY <2>1, <3>1, QuietKeys
  <2> QED
    BY <2>2, <2>3
<1>2. CASE StartDeploy
  BY <1>2, <1>q DEF StartDeploy, Start, Goto, InitSteps, durable, history
<1>3. ASSUME NEW product, NEW whole, NEW selected, StartDestroy(product, whole, selected)
      PROVE  KeysInv'
  BY <1>3, <1>q DEF StartDestroy, Start, Goto, InitSteps, durable, history
<1>4. CASE Restore
  <2>1. UNCHANGED <<vault, torn>>
    BY <1>4 DEF Restore
  <2>2. ASSUME ~mixed'
        PROVE  /\ ~torn' => Consistent(vault)'
               /\ Consistent(disk)'
    <3>1. ~mixed /\ \/ disk' = disk /\ (PartOfVault => disk' = vault)
                    \/ disk' = vault /\ ~torn
      BY <1>4, <2>2, RestoreFact
    <3>2. (~torn => Consistent(vault)) /\ (Consistent(disk) \/ PartOfVault)
      BY <3>1 DEF KeysInv
    <3>3. PartOfVault => ~torn
      BY DEF PartOfVault
    <3> QED
      BY <2>1, <3>1, <3>2, <3>3 DEF Consistent
  <2> QED
    BY <2>2 DEF KeysInv
<1>5. CASE StopRestore
  <2>1. UNCHANGED <<vault, torn>>
    BY <1>5 DEF StopRestore
  <2>2. ASSUME ~mixed'
        PROVE  /\ ~torn' => Consistent(vault)'
               /\ Consistent(disk)' \/ PartOfVault'
    <3>1. ~mixed /\ (disk' = disk \/ PartOfVault') /\ (PartOfVault => PartOfVault')
      BY <1>5, <2>2, StopRestoreFact
    <3>2. (~torn => Consistent(vault)) /\ (Consistent(disk) \/ PartOfVault)
      BY <3>1 DEF KeysInv
    <3> QED
      BY <2>1, <3>1, <3>2 DEF Consistent
  <2> QED
    BY <2>2 DEF KeysInv
<1>6. CASE NotApplicable \/ RefuseRotation \/ RejectCa \/ RejectOAuth \/ Stop \/ StartPostgres
           \/ FinishLocal
  <2>1. Exit /\ UNCHANGED <<host, disk, vault, torn, mixed>>
    BY <1>6 DEF NotApplicable, RefuseRotation, RejectCa, RejectOAuth, Stop, StartPostgres,
       FinishLocal, Fail, Complete, durable, history
  <2>2. pc' \notin InitSteps
    BY <2>1, ExitFact DEF InitSteps
  <2> QED
    BY <2>1, <2>2, <1>q
<1>7. CASE FinishOci \/ StopUpload
  <2>1. UNCHANGED <<disk, mixed>> /\ (~torn' => vault' = disk) /\ pc = "finish"
    BY <1>7, FinishFact, PartFact DEF FinishOci, StopUpload, UploadPart
  <2>2. ASSUME ~mixed PROVE Consistent(disk)
    BY <2>1, <2>2 DEF KeysInv, PartOfVault, InitSteps
  <2> QED
    BY <2>1, <2>2 DEF KeysInv, Consistent
<1>8. CASE Rebuild
  <2>1. /\ mixed' = mixed /\ \A f \in Files : disk'[f] = NoFile
        /\ \/ UploadPart /\ pc = "finish"
           \/ UNCHANGED <<vault, torn>>
    BY <1>8 DEF Rebuild, UploadPart
  <2>2. Consistent(disk')
    BY <2>1, EmptyConsistent
  <2>3. ASSUME ~mixed, ~torn' PROVE Consistent(vault')
    <3>1. CASE UploadPart /\ pc = "finish"
      <4>1. vault' = disk
        BY <2>3, <3>1, PartFact
      <4>2. Consistent(disk)
        BY <2>3, <3>1 DEF KeysInv, PartOfVault, InitSteps
      <4> QED
        BY <4>1, <4>2
    <3>2. CASE UNCHANGED <<vault, torn>>
      BY <2>3, <3>2 DEF KeysInv
    <3> QED
      BY <2>1, <3>1, <3>2
  <2>4. Consistent(disk)' /\ (~mixed /\ ~torn' => Consistent(vault)')
    BY <2>2, <2>3 DEF Consistent
  <2> QED
    BY <2>1, <2>4 DEF KeysInv
<1>9. CASE BeginInit \/ EnsurePassword \/ CopyToCore \/ KeepCa \/ CreateCa \/ CopyCaKey
           \/ IdentitiesDone \/ MakeSigningKey \/ PublishKey \/ CopyToOAuth
  BY <1>9, StepKeysWrite
<1>10. ASSUME NEW s \in Services,
              KeepIdentity(s) \/ DropIdentity(s) \/ IssueKey(s) \/ SignCert(s)
       PROVE  KeysInv'
  BY <1>10, StepKeysIdentity
<1>11. ASSUME NEW s \in AllServices, RemoveTarget(s) \/ RemovePart(s)
       PROVE  KeysInv'
  <2>1. /\ UNCHANGED <<host, vault, torn, mixed>> /\ pc' \notin InitSteps
        /\ \A f \in Files : disk'[f] \in {NoFile, disk[f]}
        /\ \A f \in Files : f[2] \notin RemovedWith(s) => disk'[f] = disk[f]
    BY <1>11 DEF RemoveTarget, RemovePart, InitSteps
  <2>2. "ca" \notin RemovedWith(s)
    BY ServicesFact, <1>11 DEF RemovedWith, FilesInv, ControlInv, WeakTypeOK
  <2>3. disk'[CaCert] = disk[CaCert] /\ disk'[CaKey] = disk[CaKey]
    BY <2>1, <2>2, OwnerFact
  <2>4. Consistent(disk) => Consistent(disk')
    BY <2>1, <2>3, RemovedConsistent
  <2> QED
    BY <2>1, <2>4, RemovedPart, QuietKeys
<1>12. CASE TargetsDone
  <2>1. UNCHANGED <<host, disk, vault, torn, mixed>>
    BY <1>12 DEF TargetsDone, durable, history
  <2>2. pc' \notin InitSteps
    BY <1>12, ExitFact DEF TargetsDone, Goto, InitSteps
  <2> QED
    BY <2>1, <2>2, <1>q
<1>13. CASE RemoveSharedCa \/ RemoveCaPart
  <2>1. UNCHANGED <<host, vault, torn, mixed>> /\ pc' \notin InitSteps
    BY <1>13, ExitFact DEF RemoveSharedCa, RemoveCaPart, history, InitSteps
  <2>2. \A f \in Files : disk'[f] \in {NoFile, disk[f]}
    BY <1>13, <1>t, SharedCaFrame
  <2>3. CASE CaUnused
    <3>1. \A f \in Files : f[2] # "ca" => ~Present(f)
      BY <2>3 DEF CaUnused, Owned
    <3>2. \A f \in Files : f \notin {CaCert, CaKey} => f[2] # "ca"
      BY ServicesFact DEF Files, Cert, Key, CaCert, CaKey, Password, CorePassword,
         OAuthPassword, CoreCaKey, SigningKey
    <3>3. \A f \in Files : f \notin {CaCert, CaKey} => disk'[f] = NoFile
      BY <2>2, <3>1, <3>2 DEF Present
    <3>4. disk'[CaCert] = NoFile \/ disk'[CaKey] = NoFile
      BY <1>13, <2>3, <1>t DEF RemoveSharedCa, RemoveCaPart
    <3> QED
      BY <2>1, <2>2, <3>3, <3>4, EmptyConsistent, RemovedPart, QuietKeys
  <2>4. CASE ~CaUnused
    BY <1>13, <2>1, <2>4, <1>q DEF RemoveSharedCa, RemoveCaPart
  <2> QED
    BY <2>3, <2>4
<1>14. CASE UNCHANGED vars
  BY <1>14 DEF vars, KeysInv, Consistent, PartOfVault, Present
<1> QED
  BY <1>1, <1>2, <1>3, <1>4, <1>5, <1>6, <1>7, <1>8, <1>9, <1>10, <1>11, <1>12, <1>13, <1>14
  DEF Next, Begin, Run, Faulty

-----------------------------------------------------------------------------
(* The copies of the database password *)

\* The steps of an init that make the CA's files and the signing key leave the
\* passwords alone.
LEMMA PasswordsFrame ==
  ASSUME disk \in [Files -> WeakFile],
         KeepCa \/ CreateCa \/ CopyCaKey \/ IdentitiesDone \/ MakeSigningKey \/ PublishKey
  PROVE  /\ \A f \in {Password, CorePassword, OAuthPassword} : disk'[f] = disk[f]
         /\ UNCHANGED <<host, vault, scope, history>>
<1> USE FilesFact, NamedFact
<1>1. CASE KeepCa \/ IdentitiesDone \/ PublishKey
  BY <1>1 DEF KeepCa, IdentitiesDone, PublishKey, durable
<1>2. CASE CreateCa
  <2>1. \A f \in Files \ {CaCert, CaKey} : disk'[f] = disk[f]
    BY <1>2 DEF CreateCa
  <2> QED
    BY <2>1, <1>2 DEF CreateCa
<1>3. CASE CopyCaKey
  BY <1>3 DEF CopyCaKey
<1>4. CASE MakeSigningKey
  <2>1. \A f \in Files \ {SigningKey} : disk'[f] = disk[f]
    BY <1>4 DEF MakeSigningKey
  <2> QED
    BY <2>1, <1>4 DEF MakeSigningKey
<1> QED
  BY <1>1, <1>2, <1>3, <1>4

\* A step that ends before the copies, or outside an init.
LEMMA QuietCopies ==
  ASSUME pc' \notin CaSteps \cup {"ca"}
  PROVE  CopiesInv'
BY DEF CopiesInv, CaSteps

\* A step of an init behind the copy that leaves the passwords alone.
LEMMA LaterCopies ==
  ASSUME CopiesInv, scope' = scope, pc \in CaSteps \cup {"ca"},
         pc' = "finish" => "oauth" \notin scope.selected,
         \A f \in {Password, CorePassword} : disk'[f] = disk[f]
  PROVE  CopiesInv'
BY DEF CopiesInv, Present

\* Every init that ends well has made the copies of its services.
LEMMA StepCopiesInv ==
  ASSUME FilesInv, CopiesInv, [Next]_vars
  PROVE  CopiesInv'
<1> USE FilesFact, DistinctFact, NamedFact
<1>t. disk \in [Files -> WeakFile] /\ Control
  BY DEF FilesInv, ControlInv, WeakTypeOK
<1>1. ASSUME NEW product, NEW selected, NEW force, StartInit(product, selected, force)
      PROVE  CopiesInv'
  BY <1>1, QuietCopies DEF StartInit, Start, Goto, CaSteps
<1>2. ASSUME NEW product, NEW whole, NEW selected, StartDestroy(product, whole, selected)
      PROVE  CopiesInv'
  BY <1>2, QuietCopies DEF StartDestroy, Start, Goto, CaSteps
<1>3. CASE StartDeploy \/ Restore \/ TargetsDone
  BY <1>3, ExitFact, QuietCopies DEF StartDeploy, Restore, TargetsDone, Start, Goto, CaSteps
<1>4. CASE \/ NotApplicable \/ RefuseRotation \/ StartPostgres \/ RejectCa \/ RejectOAuth
           \/ Stop \/ StopRestore \/ StopUpload \/ Rebuild \/ FinishLocal \/ FinishOci
           \/ RemoveSharedCa \/ RemoveCaPart
  <2>1. Exit
    BY <1>4 DEF NotApplicable, RefuseRotation, StartPostgres, RejectCa, RejectOAuth, Stop,
       StopRestore, StopUpload, Rebuild, FinishLocal, FinishOci, RemoveSharedCa, RemoveCaPart,
       Fail, Complete
  <2> QED
    BY <2>1, ExitFact, QuietCopies DEF CaSteps
<1>5. ASSUME NEW s \in AllServices, RemoveTarget(s) \/ RemovePart(s)
      PROVE  CopiesInv'
  BY <1>5, QuietCopies DEF RemoveTarget, RemovePart, CaSteps
<1>6. CASE BeginInit
  <2>1. pc' = (IF "database" \in scope.selected THEN "password" ELSE "ca") /\ scope' = scope
    BY <1>6 DEF BeginInit, Goto
  <2> QED
    BY <2>1 DEF CopiesInv, CaSteps
<1>7. CASE EnsurePassword
  BY <1>7, QuietCopies DEF EnsurePassword, Goto, CaSteps
<1>8. CASE CopyToCore
  <2>1. pc' = "ca" /\ Present(Password)
    BY <1>8 DEF CopyToCore, Goto, FilesInv, Ready
  <2>2. disk'[CorePassword] = disk[Password] /\ disk'[Password] = disk[Password]
    BY <1>8, <1>t DEF CopyToCore
  <2> QED
    BY <2>1, <2>2 DEF CopiesInv, CaSteps, Present
<1>9. CASE KeepCa \/ CreateCa \/ CopyCaKey \/ IdentitiesDone \/ MakeSigningKey \/ PublishKey
  <2>1. scope' = scope /\ \A f \in {Password, CorePassword} : disk'[f] = disk[f]
    BY <1>9, <1>t, PasswordsFrame
  <2>2. pc \in CaSteps \cup {"ca"}
    BY <1>9 DEF KeepCa, CreateCa, CopyCaKey, IdentitiesDone, MakeSigningKey, PublishKey, CaSteps
  <2>3. pc' = "finish" => IdentitiesDone /\ scope.product # "oauth"
    BY <1>9 DEF KeepCa, CreateCa, CopyCaKey, IdentitiesDone, MakeSigningKey, PublishKey,
       AfterCa, Goto
  <2>4. pc' = "finish" => "oauth" \notin scope.selected
    BY <2>3, <1>t DEF Control
  <2> QED
    BY <2>1, <2>2, <2>4, LaterCopies
<1>10. ASSUME NEW s \in Services,
              KeepIdentity(s) \/ DropIdentity(s) \/ IssueKey(s) \/ SignCert(s)
       PROVE  CopiesInv'
  <2>1. /\ \A f \in {Password, CorePassword} : disk'[f] = disk[f]
        /\ scope' = scope
        /\ pc \in {"identities", "issue", "sign"} /\ pc' \in {"identities", "issue", "sign"}
    BY <1>10, <1>t, IdentityFrame
  <2> QED
    BY <2>1, LaterCopies DEF CaSteps
<1>11. CASE CopyToOAuth
  <2>1. /\ Present(Password) /\ pc = "oauth" /\ scope' = scope
        /\ disk'[OAuthPassword] = disk[Password]
        /\ \A f \in {Password, CorePassword} : disk'[f] = disk[f]
    BY <1>11, <1>t DEF CopyToOAuth
  <2> QED
    BY <2>1 DEF CopiesInv, CaSteps, Present
<1>12. CASE UNCHANGED vars
  BY <1>12 DEF vars, CopiesInv, Present
<1> QED
  BY <1>1, <1>2, <1>3, <1>4, <1>5, <1>6, <1>7, <1>8, <1>9, <1>10, <1>11, <1>12
  DEF Next, Begin, Run, Faulty

-----------------------------------------------------------------------------
(* Room for the generations a running init makes *)

\* A source's certificate, if it has one, is a file.
LEMMA SourceFact ==
  /\ \A f \in Sources : f[1] = "key" => Cert(f[2]) \in Files
  /\ \A f \in Sources : f[1] = "key" /\ f # CaKey => f[2] \in Services /\ f = Key(f[2])
  /\ Cert("ca") = CaCert
  /\ CaKey[1] = "key" /\ Password[1] # "key" /\ SigningKey[1] # "key"
<1>1. Cert("ca") = CaCert
  BY DEF Cert, CaCert
<1>2. \A f \in Sources : \/ f = CaKey \/ f = Password \/ f = SigningKey
                         \/ \E s \in Services : f = Key(s)
  BY DEF Sources
<1>3. CaKey[1] = "key" /\ CaKey[2] = "ca" /\ Password[1] # "key" /\ SigningKey[1] # "key"
  BY DEF CaKey, Password, SigningKey
<1>4. \A s \in Services : Key(s)[2] = s
  BY DEF Key
<1> QED
  BY <1>1, <1>2, <1>3, <1>4, FilesFact

\* A step of an init that takes no file away and makes no source that is pending.
LEMMA SpareFrame ==
  ASSUME SpareInv, scope' = scope, pc' # "issue",
         \A f \in Sources : Pending(f)' => Pending(f) /\ made'[f] = made[f],
         \A f \in Files : Recoverable(f) => Recoverable(f)'
  PROVE  SpareInv'
<1>1. \A f \in Sources : f \in Makes(scope.force)' => f \in Makes(scope.force)
  BY SourceFact, FilesFact DEF Makes
<1> QED
  BY <1>1 DEF SpareInv

\* A file that a step leaves in place, or puts there, is recoverable.
LEMMA RecoverableFact ==
  ASSUME UNCHANGED <<host, vault>>, \A f \in Files : Present(f) => disk'[f] # NoFile
  PROVE  \A f \in Files : Recoverable(f) => Recoverable(f)'
BY DEF Recoverable, Present

\* What an init lacks on disk when it makes it was not in Vault either.
LEMMA LackingFact ==
  ASSUME FilesInv, pc \in InitSteps \ {"issue", "sign"}, NEW f \in Files, ~Present(f)
  PROVE  ~Recoverable(f)
BY DEF FilesInv, HasVault, Dropped, Recoverable, InitSteps

\* Every step of an init keeps the room that its later steps need.
LEMMA StepSpareInv ==
  ASSUME FilesInv, SpareInv, [Next]_vars
  PROVE  SpareInv'
<1> USE FilesFact, DistinctFact, NamedFact
<1>t. /\ disk \in [Files -> WeakFile] /\ vault \in [Files -> WeakFile]
      /\ made \in [Sources -> Nat]
      /\ Control
  BY DEF FilesInv, ControlInv, WeakTypeOK
<1>g. \A n \in Nat : [made |-> n + 1, ca |-> 0] # NoFile
  <2>1. \A n \in Nat : [made |-> n + 1, ca |-> 0].made = n + 1
    OBVIOUS
  <2>2. NoFile.made = 0
    BY DEF NoFile
  <2> QED
    BY <2>1, <2>2
<1>1. ASSUME NEW product, NEW selected, NEW force, StartInit(product, selected, force)
      PROVE  SpareInv'
  <2>1. UNCHANGED <<host, disk, vault, made>> /\ scope'.force = force /\ pc' # "issue"
    BY <1>1 DEF StartInit, Start, Goto, durable
  <2>2. \A f \in Makes(scope.force)' : made'[f] < MaxMade
    BY <1>1, <2>1 DEF StartInit, Room, Makes, Recoverable, Present
  <2> QED
    BY <2>1, <2>2 DEF SpareInv
<1>2. CASE StartDeploy
  BY <1>2 DEF StartDeploy, Start, SpareInv
<1>3. ASSUME NEW product, NEW whole, NEW selected, StartDestroy(product, whole, selected)
      PROVE  SpareInv'
  BY <1>3 DEF StartDestroy, Start, SpareInv
<1>4. CASE Restore
  <2>1. /\ UNCHANGED <<host, vault, made, scope>> /\ pc = "restore" /\ pc' \in {"up", "begin"}
        /\ disk' = [f \in Files |-> IF f \in Missing THEN vault[f] ELSE disk[f]]
    BY <1>4 DEF Restore, Restored, Goto
  <2>2. \A f \in Files : Present(f) => disk'[f] # NoFile
    BY <2>1 DEF Missing, Present
  <2>3. \A f \in Sources : Pending(f)' => Pending(f)
    BY <2>1 DEF Pending, InitSteps
  <2> QED
    BY <2>1, <2>2, <2>3, RecoverableFact, SpareFrame
<1>5. CASE \/ StopRestore \/ NotApplicable \/ RefuseRotation \/ StartPostgres \/ RejectCa
           \/ RejectOAuth \/ Stop \/ FinishLocal \/ FinishOci \/ StopUpload \/ Rebuild
           \/ RemoveSharedCa \/ RemoveCaPart
  <2>1. Exit
    BY <1>5 DEF StopRestore, NotApplicable, RefuseRotation, StartPostgres, RejectCa,
       RejectOAuth, Stop, FinishLocal, FinishOci, StopUpload, Rebuild, RemoveSharedCa,
       RemoveCaPart, Fail, Complete
  <2> QED
    BY <2>1, ExitFact DEF SpareInv
<1>6. CASE TargetsDone \/ \E s \in AllServices : RemoveTarget(s) \/ RemovePart(s)
  <2>1. scope.op = "destroy" /\ (scope' = scope \/ Exit)
    BY <1>6, <1>t DEF TargetsDone, RemoveTarget, RemovePart, Control
  <2> QED
    BY <2>1, ExitFact DEF SpareInv
<1>7. CASE BeginInit \/ KeepCa \/ IdentitiesDone \/ PublishKey
  <2>1. UNCHANGED <<host, disk, vault, made, scope>>
    BY <1>7 DEF BeginInit, KeepCa, IdentitiesDone, PublishKey, durable
  <2>2. pc' # "issue" /\ \A f \in Sources : Pending(f)' => Pending(f)
    BY <1>7 DEF BeginInit, KeepCa, IdentitiesDone, PublishKey, AfterCa, Goto, Pending, InitSteps
  <2> QED
    BY <2>1, <2>2, RecoverableFact, SpareFrame DEF Present
<1>8. CASE EnsurePassword
  <2>1. /\ UNCHANGED <<host, vault, scope>> /\ pc = "password" /\ pc' = "copy"
        /\ \A f \in Sources \ {Password} : made'[f] = made[f]
    BY <1>8, <1>t DEF EnsurePassword, Goto
  <2>2. \A f \in Files : Present(f) => disk'[f] # NoFile
    BY <1>8, <1>t, <1>g DEF EnsurePassword, Present
  <2>3. \A f \in Sources : Pending(f)' => Pending(f) /\ f # Password
    BY <2>1, SourceFact DEF Pending, InitSteps
  <2> QED
    BY <2>1, <2>2, <2>3, RecoverableFact, SpareFrame
<1>9. CASE CopyToCore
  <2>1. UNCHANGED <<host, vault, made, scope>> /\ pc = "copy" /\ pc' = "ca"
    BY <1>9 DEF CopyToCore, Goto
  <2>2. \A f \in Files : Present(f) => disk'[f] # NoFile
    BY <1>9, <1>t DEF CopyToCore, FilesInv, Ready, Present
  <2>3. \A f \in Sources : Pending(f)' => Pending(f)
    BY <2>1 DEF Pending, InitSteps
  <2> QED
    BY <2>1, <2>2, <2>3, RecoverableFact, SpareFrame
<1>10. CASE CreateCa
  <2>1. /\ UNCHANGED <<host, vault, scope>> /\ pc = "ca" /\ pc' \in {"coreca", "identities"}
        /\ \A f \in Sources \ {CaKey} : made'[f] = made[f]
    BY <1>10, <1>t DEF CreateCa, AfterCa, Goto
  <2>2. \A f \in Files : Present(f) => disk'[f] # NoFile
    BY <1>10, <1>t, <1>g DEF CreateCa, Present
  <2>3. \A f \in Sources : Pending(f)' => Pending(f) /\ f # CaKey
    BY <2>1, SourceFact DEF Pending, InitSteps
  <2> QED
    BY <2>1, <2>2, <2>3, RecoverableFact, SpareFrame
<1>11. CASE CopyCaKey
  <2>1. UNCHANGED <<host, vault, made, scope>> /\ pc = "coreca" /\ pc' = "identities"
    BY <1>11 DEF CopyCaKey, Goto
  <2>2. \A f \in Files : Present(f) => disk'[f] # NoFile
    BY <1>11, <1>t DEF CopyCaKey, FilesInv, Ready, CaSteps, Present
  <2>3. \A f \in Sources : Pending(f)' => Pending(f)
    BY <2>1 DEF Pending, InitSteps
  <2> QED
    BY <2>1, <2>2, <2>3, RecoverableFact, SpareFrame
<1>12. CASE MakeSigningKey
  <2>1. /\ UNCHANGED <<host, vault, scope>> /\ pc = "signing" /\ pc' = "publish"
        /\ \A f \in Sources \ {SigningKey} : made'[f] = made[f]
    BY <1>12, <1>t DEF MakeSigningKey, Goto
  <2>2. \A f \in Files : Present(f) => disk'[f] # NoFile
    BY <1>12, <1>t, <1>g DEF MakeSigningKey, Present
  <2>3. \A f \in Sources : ~Pending(f)'
    BY <2>1 DEF Pending, InitSteps
  <2> QED
    BY <2>1, <2>2, <2>3, RecoverableFact, SpareFrame
<1>13. CASE CopyToOAuth
  <2>1. UNCHANGED <<host, vault, made, scope>> /\ pc' = "finish"
    BY <1>13 DEF CopyToOAuth, Goto
  <2>2. \A f \in Sources : ~Pending(f)'
    BY <2>1 DEF Pending, InitSteps
  <2> QED
    BY <2>1, <2>2 DEF SpareInv
<1>14. ASSUME NEW s \in Services, KeepIdentity(s)
       PROVE  SpareInv'
  <2>1. /\ UNCHANGED <<host, disk, vault, made, scope>> /\ pc = "identities" /\ pc' = "identities"
        /\ todo' \subseteq todo
    BY <1>14 DEF KeepIdentity, durable
  <2>2. \A f \in Sources : Pending(f)' => Pending(f)
    BY <2>1 DEF Pending, InitSteps
  <2> QED
    BY <2>1, <2>2, RecoverableFact, SpareFrame DEF Present
<1>15. ASSUME NEW s \in Services, DropIdentity(s)
       PROVE  SpareInv'
  <2>1. /\ UNCHANGED <<host, vault, made, scope, todo>> /\ pc = "identities" /\ pc' = "issue"
        /\ s \in todo /\ Current(s)
        /\ \A f \in Files \ {Cert(s), Key(s)} : disk'[f] = disk[f]
        /\ ~IdentityMatches(s) \/ Rotates(scope.force, Key(s))
    BY <1>15, <1>t DEF DropIdentity, MustIssue, Goto, Current, IsFirst
  <2>2. Pending(Key(s)) /\ Key(s) \in Sources
    BY <2>1, OwnerFact DEF Pending
  <2>3. Key(s) \in Makes(scope.force)
    <3>1. ~IdentityMatches(s) => ~Recoverable(Cert(s)) \/ ~Recoverable(Key(s))
      BY <2>1, LackingFact DEF IdentityMatches, InitSteps
    <3> QED
      BY <2>1, <2>2, <3>1, OwnerFact DEF Makes
  <2>4. scope.op = "init" => made[Key(s)] < MaxMade
    BY <2>2, <2>3 DEF SpareInv
  <2>5. ASSUME NEW f \in Sources, f # Key(s), Pending(f)', f \in Makes(scope.force)'
        PROVE  Pending(f) /\ f \in Makes(scope.force)
    <3>1. Pending(f)
      BY <2>1, <2>5 DEF Pending, InitSteps
    <3>2. f[1] = "key" => Cert(f[2]) \in Files \ {Cert(s), Key(s)}
      BY <2>5, SourceFact, ServicesFact DEF Cert, Key, CaKey
    <3>3. f \in Files \ {Cert(s), Key(s)}
      BY <2>5, SourceFact DEF Sources
    <3>4. \A g \in Files \ {Cert(s), Key(s)} : Recoverable(g)' <=> Recoverable(g)
      BY <2>1 DEF Recoverable, Present
    <3> QED
      BY <2>1, <2>5, <3>1, <3>2, <3>3, <3>4 DEF Makes
  <2>6. ASSUME NEW t \in Services, Current(t)'
        PROVE  t = s
    BY <2>1, <2>6, CurrentIsUnique DEF Current
  <2> QED
    BY <2>1, <2>4, <2>5, <2>6 DEF SpareInv
<1>16. ASSUME NEW s \in Services, IssueKey(s)
       PROVE  SpareInv'
  <2>1. /\ UNCHANGED <<host, vault, scope, todo>> /\ pc = "issue" /\ pc' = "sign"
        /\ Current(s)
        /\ \A f \in Sources \ {Key(s)} : made'[f] = made[f]
    BY <1>16, <1>t DEF IssueKey, Goto, Current
  <2>2. \A f \in Files : Present(f) => disk'[f] # NoFile
    BY <1>16, <1>t, <1>g DEF IssueKey, Present
  <2>3. \A f \in Sources : Pending(f)' => Pending(f) /\ f # Key(s)
    <3>1. Current(s)'
      BY <2>1 DEF Current
    <3> QED
      BY <2>1, <3>1, OwnerFact, SourceFact DEF Pending, InitSteps
  <2> QED
    BY <2>1, <2>2, <2>3, RecoverableFact, SpareFrame
<1>17. ASSUME NEW s \in Services, SignCert(s)
       PROVE  SpareInv'
  <2>1. /\ UNCHANGED <<host, vault, made, scope>> /\ pc = "sign" /\ pc' = "identities"
        /\ Current(s) /\ todo' = todo \ {s}
    BY <1>17 DEF SignCert, Goto, Current
  <2>2. Present(Key(s)) /\ disk[Key(s)].made # 0
    BY <2>1 DEF FilesInv, Ready, Generated, Present
  <2>3. \A f \in Files : Present(f) => disk'[f] # NoFile
    <3>1. [made |-> disk[Key(s)].made, ca |-> disk[CaKey].made] # NoFile
      BY <2>2 DEF NoFile
    <3> QED
      BY <1>17, <1>t, <3>1 DEF SignCert, Present
  <2>4. \A t : t \in todo' => ~Current(t)
    BY <2>1, CurrentIsUnique
  <2>5. \A f \in Sources : Pending(f)' => Pending(f)
    BY <2>1, <2>4 DEF Pending, InitSteps
  <2> QED
    BY <2>1, <2>3, <2>5, RecoverableFact, SpareFrame
<1>18. CASE UNCHANGED vars
  BY <1>18 DEF vars, SpareInv, Pending, Makes, Recoverable, Present, Current
<1> QED
  BY <1>1, <1>2, <1>3, <1>4, <1>5, <1>6, <1>7, <1>8, <1>9, <1>10, <1>11, <1>12, <1>13, <1>14,
     <1>15, <1>16, <1>17, <1>18 DEF Next, Begin, Run, Faulty
\* The generations a file may hold within the bound.
LEMMA GenerationFact ==
  /\ NoFile \in File /\ 0 \in Made
  /\ \A n \in Nat : n < MaxMade => n + 1 \in Made /\ [made |-> n + 1, ca |-> 0] \in File
  /\ \A x \in File : x.made \in Made
  /\ \A x, y \in File : [made |-> x.made, ca |-> y.made] \in File
BY BoundsAssumption DEF NoFile, File, Made

\* A step that moves files about, and makes none, stays within the bound.
LEMMA MovedBounded ==
  ASSUME Bounded, made' = made,
         \A f \in Files : disk'[f] \in File /\ vault'[f] \in File,
         cluster' \in {0, cluster, disk[Password].made},
         verification' \in {0, verification, disk[SigningKey].made}
  PROVE  Bounded'
BY FilesFact, GenerationFact DEF Bounded

\* A step that makes the next generation of one source stays within the bound.
LEMMA MadeBounded ==
  ASSUME Bounded, NEW x \in Sources, made[x] \in Nat, made[x] < MaxMade,
         UNCHANGED <<vault, cluster, verification>>,
         made' = [made EXCEPT ![x] = @ + 1], made \in [Sources -> Nat],
         \A f \in Files : disk'[f] \in {disk[f], [made |-> made[x] + 1, ca |-> 0]}
  PROVE  Bounded'
<1>1. \A f \in Files : disk'[f] \in File
  BY GenerationFact DEF Bounded
<1>2. \A f \in Sources : made'[f] \in Made
  BY GenerationFact DEF Bounded
<1> QED
  BY <1>1, <1>2 DEF Bounded

\* No step goes beyond the bound: an init starts only with room for what it
\* will make.
LEMMA StepBounded ==
  ASSUME FilesInv, SpareInv, Bounded, [Next]_vars
  PROVE  Bounded'
<1> USE FilesFact
<1>t. /\ disk \in [Files -> WeakFile] /\ vault \in [Files -> WeakFile]
      /\ made \in [Sources -> Nat]
      /\ Control
  BY DEF FilesInv, ControlInv, WeakTypeOK
<1>b. \A f \in Files : disk[f] \in File /\ vault[f] \in File
  BY DEF Bounded
<1>q. ASSUME UNCHANGED <<disk, vault, made, cluster, verification>>
      PROVE  Bounded'
  BY <1>q DEF Bounded
<1>1. ASSUME NEW product, NEW selected, NEW force, StartInit(product, selected, force)
      PROVE  Bounded'
  BY <1>1, <1>q DEF StartInit, durable
<1>2. ASSUME NEW product, NEW whole, NEW selected, StartDestroy(product, whole, selected)
      PROVE  Bounded'
  BY <1>2, <1>q DEF StartDestroy, durable
<1>3. CASE \/ StartDeploy \/ NotApplicable \/ RefuseRotation \/ BeginInit \/ KeepCa \/ RejectCa
           \/ IdentitiesDone \/ RejectOAuth \/ FinishLocal \/ TargetsDone \/ Stop
           \/ (\E s \in Services : KeepIdentity(s)) \/ UNCHANGED vars
  BY <1>3, <1>q DEF StartDeploy, NotApplicable, RefuseRotation, BeginInit, KeepCa, RejectCa,
     IdentitiesDone, RejectOAuth, FinishLocal, TargetsDone, Stop, KeepIdentity, durable, vars
<1>4. CASE Restore \/ StopRestore
  <2>1. PICK S : disk' = [f \in Files |-> IF f \in S THEN vault[f] ELSE disk[f]]
    BY <1>4 DEF Restore, StopRestore, Restored
  <2>2. UNCHANGED <<vault, made, cluster, verification>>
    BY <1>4 DEF Restore, StopRestore
  <2> QED
    BY <2>1, <2>2, <1>b, MovedBounded
<1>5. CASE CopyToCore \/ CopyCaKey \/ CopyToOAuth
  <2>1. UNCHANGED <<vault, made, cluster, verification>>
    BY <1>5 DEF CopyToCore, CopyCaKey, CopyToOAuth
  <2>2. \A f \in Files : disk'[f] \in {disk[f], disk[Password], disk[CaKey]}
    BY <1>5, <1>t DEF CopyToCore, CopyCaKey, CopyToOAuth
  <2> QED
    BY <2>1, <2>2, <1>b, MovedBounded
<1>6. CASE PublishKey \/ StartPostgres
  <2>1. /\ UNCHANGED <<disk, vault, made>>
        /\ cluster' \in {cluster, disk[Password].made}
        /\ verification' \in {verification, disk[SigningKey].made}
    BY <1>6 DEF PublishKey, StartPostgres
  <2> QED
    BY <2>1, <1>b, MovedBounded
<1>7. CASE FinishOci \/ StopUpload
  <2>1. PICK S : vault' = [f \in Files |-> IF f \in S THEN disk[f] ELSE vault[f]]
    BY <1>7 DEF FinishOci, StopUpload, UploadPart, Uploaded
  <2>2. UNCHANGED <<disk, made, cluster, verification>>
    BY <1>7 DEF FinishOci, StopUpload
  <2> QED
    BY <2>1, <2>2, <1>b, MovedBounded
<1>8. CASE Rebuild
  <2>1. \A f \in Files : vault'[f] \in {disk[f], vault[f]}
    BY <1>8 DEF Rebuild, UploadPart, Uploaded
  <2>2. UNCHANGED made /\ cluster' = 0 /\ verification' = 0 /\ disk' = [f \in Files |-> NoFile]
    BY <1>8 DEF Rebuild
  <2> QED
    BY <2>1, <2>2, <1>b, MovedBounded, GenerationFact
<1>9. ASSUME NEW s \in AllServices, RemoveTarget(s) \/ RemovePart(s)
      PROVE  Bounded'
  <2>1. /\ UNCHANGED <<vault, made>>
        /\ cluster' \in {0, cluster} /\ verification' \in {0, verification}
        /\ \A f \in Files : disk'[f] \in {NoFile, disk[f]}
    BY <1>9 DEF RemoveTarget, RemovePart
  <2> QED
    BY <2>1, <1>b, MovedBounded, GenerationFact
<1>10. CASE RemoveSharedCa \/ RemoveCaPart
  <2>1. UNCHANGED <<vault, made, cluster, verification>>
    BY <1>10 DEF RemoveSharedCa, RemoveCaPart
  <2>2. \A f \in Files : disk'[f] \in {NoFile, disk[f]}
    BY <1>10, <1>t, SharedCaFrame
  <2> QED
    BY <2>1, <2>2, <1>b, MovedBounded, GenerationFact
<1>11. ASSUME NEW s \in Services, DropIdentity(s)
       PROVE  Bounded'
  <2>1. UNCHANGED <<vault, made, cluster, verification>>
    BY <1>11 DEF DropIdentity
  <2>2. \A f \in Files : disk'[f] \in {NoFile, disk[f]}
    BY <1>11, <1>t DEF DropIdentity
  <2> QED
    BY <2>1, <2>2, <1>b, MovedBounded, GenerationFact
<1>12. ASSUME NEW s \in Services, SignCert(s)
       PROVE  Bounded'
  <2>1. UNCHANGED <<vault, made, cluster, verification>>
    BY <1>12 DEF SignCert
  <2>2. \A f \in Files :
          disk'[f] \in {disk[f], [made |-> disk[Key(s)].made, ca |-> disk[CaKey].made]}
    BY <1>12, <1>t DEF SignCert
  <2>3. [made |-> disk[Key(s)].made, ca |-> disk[CaKey].made] \in File
    BY <1>b, GenerationFact
  <2> QED
    BY <2>1, <2>2, <2>3, <1>b, MovedBounded
<1>13. CASE EnsurePassword
  <2>1. CASE RotatesPassword \/ ~Present(Password)
    <3>1. pc = "password" /\ scope.op = "init"
      BY <1>13, <1>t DEF EnsurePassword, Control, InitSteps
    <3>2. Password \in Makes(scope.force)
      BY <2>1, <3>1, LackingFact DEF Makes, RotatesPassword, InitSteps
    <3>3. made[Password] < MaxMade
      BY <3>1, <3>2 DEF SpareInv, Pending
    <3>4. /\ UNCHANGED <<vault, cluster, verification>>
          /\ made' = [made EXCEPT ![Password] = @ + 1]
          /\ disk' = [disk EXCEPT ![Password] = [made |-> made[Password] + 1, ca |-> 0]]
      BY <1>13, <2>1 DEF EnsurePassword
    <3>5. \A f \in Files : disk'[f] \in {disk[f], [made |-> made[Password] + 1, ca |-> 0]}
      BY <3>4, <1>t
    <3> QED
      BY <3>3, <3>4, <3>5, <1>t, MadeBounded
  <2>2. CASE ~(RotatesPassword \/ ~Present(Password))
    BY <1>13, <2>2, <1>q DEF EnsurePassword
  <2> QED
    BY <2>1, <2>2
<1>14. CASE CreateCa
  <2>1. pc = "ca" /\ scope.op = "init"
    BY <1>14, <1>t DEF CreateCa, Control, InitSteps
  <2>2. CaKey \in Makes(scope.force)
    <3>1. ~Recoverable(CaCert) \/ ~Recoverable(CaKey)
      BY <1>14, <2>1, LackingFact DEF CreateCa, InitSteps
    <3>2. CaKey[1] = "key" /\ Cert(CaKey[2]) = CaCert
      BY SourceFact, OwnerFact
    <3> QED
      BY <3>1, <3>2 DEF Makes
  <2>3. made[CaKey] < MaxMade
    BY <2>1, <2>2 DEF SpareInv, Pending
  <2>4. /\ UNCHANGED <<vault, cluster, verification>>
        /\ made' = [made EXCEPT ![CaKey] = @ + 1]
        /\ disk' = [f \in Files |->
             IF f \in {CaCert, CaKey} THEN [made |-> made[CaKey] + 1, ca |-> 0] ELSE disk[f]]
    BY <1>14 DEF CreateCa
  <2>5. \A f \in Files : disk'[f] \in {disk[f], [made |-> made[CaKey] + 1, ca |-> 0]}
    BY <2>4
  <2> QED
    BY <2>3, <2>4, <2>5, <1>t, MadeBounded
<1>15. CASE MakeSigningKey
  <2>1. CASE Rotates(scope.force, SigningKey) \/ ~Present(SigningKey)
    <3>1. pc = "signing" /\ scope.op = "init"
      BY <1>15, <1>t DEF MakeSigningKey, Control, InitSteps
    <3>2. SigningKey \in Makes(scope.force)
      BY <2>1, <3>1, LackingFact DEF Makes, InitSteps
    <3>3. made[SigningKey] < MaxMade
      BY <3>1, <3>2 DEF SpareInv, Pending, InitSteps
    <3>4. /\ UNCHANGED <<vault, cluster, verification>>
          /\ made' = [made EXCEPT ![SigningKey] = @ + 1]
          /\ disk' = [disk EXCEPT ![SigningKey] = [made |-> made[SigningKey] + 1, ca |-> 0]]
      BY <1>15, <2>1 DEF MakeSigningKey
    <3>5. \A f \in Files : disk'[f] \in {disk[f], [made |-> made[SigningKey] + 1, ca |-> 0]}
      BY <3>4, <1>t
    <3> QED
      BY <3>3, <3>4, <3>5, <1>t, MadeBounded
  <2>2. CASE ~(Rotates(scope.force, SigningKey) \/ ~Present(SigningKey))
    BY <1>15, <2>2, <1>q DEF MakeSigningKey
  <2> QED
    BY <2>1, <2>2
<1>16. ASSUME NEW s \in Services, IssueKey(s)
       PROVE  Bounded'
  <2>1. made[Key(s)] < MaxMade
    BY <1>16, <1>t DEF IssueKey, Current, SpareInv, Control, InitSteps
  <2>2. /\ UNCHANGED <<vault, cluster, verification>>
        /\ made' = [made EXCEPT ![Key(s)] = @ + 1]
        /\ disk' = [disk EXCEPT ![Key(s)] = [made |-> made[Key(s)] + 1, ca |-> 0]]
    BY <1>16 DEF IssueKey
  <2>3. \A f \in Files : disk'[f] \in {disk[f], [made |-> made[Key(s)] + 1, ca |-> 0]}
    BY <2>2, <1>t
  <2> QED
    BY <2>1, <2>2, <2>3, <1>t, MadeBounded
<1> QED
  BY <1>1, <1>2, <1>3, <1>4, <1>5, <1>6, <1>7, <1>8, <1>9, <1>10, <1>11, <1>12, <1>13, <1>14,
     <1>15, <1>16 DEF Next, Begin, Run, Faulty
-----------------------------------------------------------------------------
(* The theorems *)

\* A fresh installation has no file, no secret and no command.
LEMMA InitResourcesInv == Init => ResourcesInv
<1> SUFFICES ASSUME Init PROVE ResourcesInv
  OBVIOUS
<1> USE FilesFact
<1>1. /\ \A f \in Files : disk[f] = NoFile /\ vault[f] = NoFile
      /\ \A f \in Sources : made[f] = 0
      /\ roots = {} /\ cluster = 0 /\ verification = 0
      /\ pc = "idle" /\ scope.op = "none" /\ halfRemoved = FALSE
  BY DEF Init, NoScope
<1>2. FilesInv
  BY InitFilesInv
<1>3. SigningInv /\ ClusterInv
  BY <1>1 DEF SigningInv, ClusterInv, PasswordOpensCluster, Present
<1>4. Owned
  BY <1>1 DEF Owned, Present, InitSteps
<1>5. KeysInv
  <2>1. Consistent(disk) /\ Consistent(vault)
    BY <1>1 DEF Consistent
  <2> QED
    BY <2>1 DEF KeysInv
<1>6. CopiesInv
  BY <1>1 DEF CopiesInv, CaSteps
<1>7. SpareInv
  BY <1>1 DEF SpareInv
<1>8. Bounded
  BY <1>1, GenerationFact, BoundsAssumption DEF Bounded, Made
<1> QED
  BY <1>2, <1>3, <1>4, <1>5, <1>6, <1>7, <1>8 DEF ResourcesInv

\* Every step keeps the inductive invariant.
LEMMA StepResourcesInv ==
  ASSUME ResourcesInv, [Next]_vars
  PROVE  ResourcesInv'
<1>1. ControlInv /\ ControlInv'
  BY StepControlInv DEF ResourcesInv, FilesInv
<1>2. FilesInv' /\ SigningInv' /\ ClusterInv' /\ Owned'
  BY <1>1, StepFilesInv, StepSigningInv, StepClusterInv, StepOwned DEF ResourcesInv
<1>3. KeysInv' /\ CopiesInv'
  BY StepKeysInv, StepCopiesInv DEF ResourcesInv
<1>4. SpareInv' /\ Bounded'
  BY StepSpareInv, StepBounded DEF ResourcesInv
<1> QED
  BY <1>2, <1>3, <1>4 DEF ResourcesInv

\* The inductive invariant holds in every state.
THEOREM ResourcesInvariant == Spec => []ResourcesInv
<1>1. Init => ResourcesInv
  BY InitResourcesInv
<1>2. ResourcesInv /\ [Next]_vars => ResourcesInv'
  BY StepResourcesInv
<1> QED
  BY <1>1, <1>2, PTL DEF Spec

\* Every file, count and label stays what it is meant to be, and no source has
\* more generations than the bound of the model: an init only starts with room
\* for all that it may make.
THEOREM TypeCorrect == Spec => []TypeOK
<1>1. ResourcesInv => TypeOK
  <2> SUFFICES ASSUME ResourcesInv PROVE TypeOK
    OBVIOUS
  <2>1. WeakTypeOK /\ Owned /\ Bounded
    BY DEF ResourcesInv, FilesInv, ControlInv
  <2>2. disk \in [Files -> File] /\ vault \in [Files -> File] /\ made \in [Sources -> Made]
    BY <2>1 DEF WeakTypeOK, Bounded
  <2>3. {torn, mixed, halfRemoved, interrupted} \subseteq BOOLEAN
    BY <2>1, Zenon DEF WeakTypeOK
  <2> QED
    BY <2>1, <2>2, <2>3 DEF TypeOK, WeakTypeOK, Owned, Bounded
<1> QED
  BY <1>1, ResourcesInvariant, PTL

\* Files that are whole in Vault and in part on disk agree as they do in Vault.
LEMMA KeysFact ==
  ASSUME KeysInv, ~mixed
  PROVE  \/ Consistent(disk)
         \/ Consistent(vault) /\ \A f \in Files : Present(f) => disk[f] = vault[f]
BY DEF KeysInv, PartOfVault

\* No sequence of inits, forces, destroys, restores and interruptions leaves a
\* server certificate on disk beside a CA that did not sign it
\* (bootstrap.py:165-257, lifecycle.py:347-415).
THEOREM CertificatesAreTrusted == Spec => []IdentitiesTrusted
<1>1. ResourcesInv => IdentitiesTrusted
  BY KeysFact, FilesFact DEF ResourcesInv, IdentitiesTrusted, Consistent, Present
<1> QED
  BY <1>1, ResourcesInvariant, PTL

\* A certificate and the private key beside it always belong together, also
\* while an identity is replaced (bootstrap.py:184-257).
THEOREM IdentitiesArePairs == Spec => []PairsMatch
<1>1. ResourcesInv => PairsMatch
  <2> SUFFICES ASSUME ResourcesInv, ~mixed, NEW s \in Services \cup {"ca"},
                      Present(Cert(s)), Present(Key(s))
               PROVE  disk[Cert(s)].made = disk[Key(s)].made
    BY DEF PairsMatch
  <2>1. CASE s \in Services
    BY <2>1, KeysFact, FilesFact DEF ResourcesInv, Consistent, Present
  <2>2. CASE s = "ca"
    <3>1. Cert(s) = CaCert /\ Key(s) = CaKey
      BY <2>2 DEF Cert, Key, CaCert, CaKey
    <3> QED
      BY <3>1, KeysFact, FilesFact DEF ResourcesInv, Consistent, Present
  <2> QED
    BY <2>1, <2>2
<1> QED
  BY <1>1, ResourcesInvariant, PTL

\* The CA key that Core signs with is the key of the shared CA: no CA is made
\* while a copy of another lies on disk (bootstrap.py:318-322, 391-397).
THEOREM CoreSignsWithTheCa == Spec => []CoreCaKeyCurrent
<1>1. ResourcesInv => CoreCaKeyCurrent
  BY KeysFact, FilesFact DEF ResourcesInv, CoreCaKeyCurrent, Consistent, Present
<1> QED
  BY <1>1, ResourcesInvariant, PTL

\* The password file opens the data PostgreSQL was initialized with, unless a
\* removal left half of the database tree (bootstrap.py:306-308, 358-382).
THEOREM PasswordAlwaysOpens == Spec => []PasswordOpensCluster
<1>1. ResourcesInv => PasswordOpensCluster
  BY DEF ResourcesInv, ClusterInv
<1> QED
  BY <1>1, ResourcesInvariant, PTL

\* An init of the database or of OAuth that ends well leaves one password, on
\* disk and in Vault, whatever was cut off, destroyed or restored before it
\* (bootstrap.py:358-389, 573-580; persistence.py:60-90).
THEOREM InitsSyncCopies == Spec => InitSyncsCopies
<1>1. ResourcesInv /\ [Next]_vars =>
        [FinishLocal \/ FinishOci =>
           /\ CopiesAgree(disk', scope.selected)
           /\ host.target = "oci" => CopiesAgree(vault', scope.selected)]_vars
  <2> SUFFICES ASSUME ResourcesInv, FinishLocal \/ FinishOci
               PROVE  /\ CopiesAgree(disk', scope.selected)
                      /\ host.target = "oci" => CopiesAgree(vault', scope.selected)
    OBVIOUS
  <2>1. pc = "finish" /\ disk' = disk
    BY DEF FinishLocal, FinishOci, durable
  <2>2. CopiesAgree(disk, scope.selected)
    BY <2>1 DEF ResourcesInv, CopiesInv, CopiesAgree, CaSteps
  <2>3. host.target = "oci" => vault' = disk
    BY FinishFact DEF FinishLocal, ResourcesInv
  <2> QED
    BY <2>1, <2>2, <2>3
<1> QED
  BY <1>1, ResourcesInvariant, PTL DEF Spec, InitSyncsCopies

\* Between commands OAuth publishes the public half of the key it signs with
\* (bootstrap.py:545-569), until an init, a restore or a removal is cut off.
THEOREM PublishedKeyIsCurrent == Spec => []SigningKeyPublished
<1>1. ResourcesInv => SigningKeyPublished
  BY DEF ResourcesInv, SigningInv, SigningKeyPublished
<1> QED
  BY <1>1, ResourcesInvariant, PTL

==============================================================================
