----------------------- MODULE RemoteInstallerProofs ------------------------
(***************************************************************************)
(* What RemoteInstaller does with the registry token, that it keeps the    *)
(* invariant of LifecycleStack, and that an attempt which no fault         *)
(* disturbs can fail only on a health check, for any set of services, any  *)
(* commands of the operator and any number of faults.                      *)
(***************************************************************************)
EXTENDS RemoteInstaller, LifecycleStackProofs, TLAPS

\* Nothing a make command or a container does reaches the token.
LEMMA HostStepKeepsToken ==
  ASSUME CredentialsOnlyAfterCut, UNCHANGED <<step, creds, cut>>
  PROVE  CredentialsOnlyAfterCut'
BY DEF CredentialsOnlyAfterCut

\* Every step of install, and every way it breaks off, accounts for the token.
LEMMA TokenStep ==
  CredentialsOnlyAfterCut /\ [InstallerNext]_allVars => CredentialsOnlyAfterCut'
<1> SUFFICES ASSUME CredentialsOnlyAfterCut, [InstallerNext]_allVars
             PROVE  CredentialsOnlyAfterCut'
  OBVIOUS
<1>1. ASSUME NEW ph \in Phases, StartInstall(ph) PROVE CredentialsOnlyAfterCut'
  BY <1>1 DEF StartInstall, CredentialsOnlyAfterCut
<1>2. CASE Wipe
  BY <1>2 DEF Wipe, CredentialsOnlyAfterCut
<1>3. CASE Unpack
  BY <1>3 DEF Unpack, CredentialsOnlyAfterCut
<1>4. CASE WriteEnvironment
  BY <1>4 DEF WriteEnvironment, CredentialsOnlyAfterCut
<1>5. CASE Login
  BY <1>5 DEF Login, CredentialsOnlyAfterCut
<1>6. CASE RunNext
  BY <1>6, HostStepKeepsToken DEF RunNext
<1>7. CASE PhaseFails
  BY <1>7 DEF PhaseFails, CredentialsOnlyAfterCut
<1>8. CASE PhaseDone
  BY <1>8 DEF PhaseDone, CredentialsOnlyAfterCut
<1>9. CASE Logout
  BY <1>9 DEF Logout, CredentialsOnlyAfterCut
<1>10. CASE InstallFails
  BY <1>10 DEF InstallFails, CredentialsOnlyAfterCut
<1>11. CASE LoginFails
  BY <1>11 DEF LoginFails, CredentialsOnlyAfterCut
<1>12. CASE LogoutFails
  BY <1>12 DEF LogoutFails, CredentialsOnlyAfterCut
<1>13. CASE Rebuild
  BY <1>13 DEF Rebuild, CredentialsOnlyAfterCut
<1>14. CASE OperateOnVm
  BY <1>14, HostStepKeepsToken DEF OperateOnVm
<1>15. CASE OnVm
  BY <1>15, HostStepKeepsToken DEF OnVm, installVars
<1>16. CASE UNCHANGED allVars
  BY <1>16, HostStepKeepsToken DEF allVars
<1> QED
  BY <1>1, <1>2, <1>3, <1>4, <1>5, <1>6, <1>7, <1>8, <1>9, <1>10, <1>11, <1>12, <1>13,
     <1>14, <1>15, <1>16 DEF InstallerNext, Install, InstallerFaults

\* The registry token is on the VM only while a phase runs, or after a
\* connection or the installer itself broke off: _run_phase raising is not
\* enough to leave it there.
THEOREM TokenRemoved == InstallerSpec => []CredentialsOnlyAfterCut
<1>1. InstallerInit => CredentialsOnlyAfterCut
  BY DEF InstallerInit, CredentialsOnlyAfterCut
<1> QED
  BY <1>1, TokenStep, PTL DEF InstallerSpec
-----------------------------------------------------------------------------
(* The host under the installer *)

\* The make commands left of a phase can be begun.
Makeable == (Actions \ {"import"}) \X Named

MakeInv == make \in Seq(Makeable)

InstallerInv == HostInv /\ MakeInv

\* The commands of a phase can be begun.
LEMMA PhaseCommandsFact ==
  ASSUME NEW ph
  PROVE  PhaseCommands(ph) \in Seq(Makeable)
<1> DEFINE I == Each("init", <<"policy", "nebula", "oauth">>)
           E == Each("init", <<"explorer">>)
<1>n. /\ AllServices \subseteq Named /\ "nebula" \in Named
      /\ {"init", "deploy", "health", "bootstrap"} \subseteq Actions \ {"import"}
  BY DEF Named, Actions
<1>1. I \in Seq({"init"} \X Named) /\ E \in Seq({"init"} \X Named)
  <2>1. <<"policy", "nebula", "oauth">> \in Seq(Named) /\ <<"explorer">> \in Seq(Named)
    BY DEF Named, AllServices
  <2> QED
    BY <2>1, EachFact
<1>2. {"init"} \X Named \subseteq Makeable
  BY <1>n DEF Makeable
<1>3. I \in Seq(Makeable) /\ E \in Seq(Makeable)
  <2> HIDE DEF I, E
  <2> QED
    BY <1>1, <1>2, SeqMonotonic
<1>4. PICK a, b, c : /\ a = <<"deploy", "nebula">> /\ b = <<"health", "nebula">>
                     /\ c = <<"bootstrap", "nebula">>
  OBVIOUS
<1>5. <<a, b, c>> \in Seq(Makeable)
  BY <1>n, <1>4 DEF Makeable
<1>6. PICK d, e, f, g, h : /\ d = <<"deploy", "explorer">> /\ e = <<"health", "explorer">>
                           /\ f = <<"init", "playground">> /\ g = <<"deploy", "playground">>
                           /\ h = <<"health", "playground">>
  OBVIOUS
<1>7. <<d, e, f, g, h>> \in Seq(Makeable)
  <2>1. {d, e, f, g, h} \subseteq Makeable
    BY <1>n, <1>6 DEF Makeable, AllServices
  <2> QED
    BY <2>1
<1>8. PhaseCommands(ph) = CASE ph = "prepare" -> I
                            [] ph = "platform" -> I \o <<a, b, c>>
                            [] OTHER -> E \o <<d, e, f, g, h>>
  BY <1>4, <1>6 DEF PhaseCommands
<1> HIDE DEF I, E
<1>9. I \o <<a, b, c>> \in Seq(Makeable) /\ E \o <<d, e, f, g, h>> \in Seq(Makeable)
  BY <1>3, <1>5, <1>7, ConcatProperties
<1> QED
  BY <1>3, <1>8, <1>9

\* A step of the installer that is not a step of the host wipes the generated
\* environment files, breaks off with the running command, or rebuilds the VM.
HostBreaks ==
  \/ env' = {} /\ UNCHANGED <<status, files, stored, keys, vaulted, script, command, failure,
                              disturbed, leftover, faults>>
  \/ /\ Fault /\ UNCHANGED <<env, status, files, stored, keys, vaulted, command, leftover>>
     /\ \/ script' = <<>> /\ failure' = IF Running THEN "fault" ELSE failure
        \/ UNCHANGED <<script, failure>>
  \/ /\ Fault /\ ~Running /\ env' = {} /\ status' = [s \in Services |-> "down"]
     /\ files' = {} /\ keys' = {} /\ leftover' = FALSE
     /\ UNCHANGED <<stored, vaulted, script, command, failure>>

\* What the installer does is a command, a step of one, or one of those.
LEMMA InstallerOnHost ==
  ASSUME MakeInv, [InstallerNext]_allVars
  PROVE  HostStep \/ HostBreaks
<1>h. ASSUME UNCHANGED hostVars PROVE HostStep
  BY <1>h DEF HostStep
<1>1. ASSUME NEW ph \in Phases, StartInstall(ph) PROVE HostStep
  BY <1>1, <1>h DEF StartInstall
<1>2. CASE Wipe
  BY <1>2 DEF Wipe, HostBreaks
<1>3. CASE Unpack \/ WriteEnvironment \/ Login \/ PhaseFails \/ PhaseDone \/ Logout
  BY <1>3, <1>h DEF Unpack, WriteEnvironment, Login, PhaseFails, PhaseDone, Logout
<1>4. CASE RunNext
  <2>1. make # <<>> /\ Begin(Head(make)[1], Head(make)[2])
    BY <1>4 DEF RunNext
  <2>2. Head(make) \in Makeable
    BY <2>1, TailFact DEF MakeInv
  <2>3. Head(make)[1] \in Actions \ {"import"} /\ Head(make)[2] \in Named
    BY <2>2 DEF Makeable
  <2> QED
    BY <2>1, <2>3 DEF HostStep
<1>5. CASE InstallFails
  BY <1>5 DEF InstallFails, Abandon, HostBreaks
<1>6. CASE LoginFails \/ LogoutFails
  BY <1>6 DEF LoginFails, LogoutFails, Abandon, HostBreaks
<1>7. CASE Rebuild
  BY <1>7 DEF Rebuild, HostBreaks
<1>8. CASE OperateOnVm \/ OnVm
  BY <1>8, NextIsHostStep DEF OperateOnVm, OnVm, Next
<1>9. CASE UNCHANGED allVars
  BY <1>9, <1>h DEF allVars, hostVars
<1> QED
  BY <1>1, <1>2, <1>3, <1>4, <1>5, <1>6, <1>7, <1>8, <1>9
     DEF InstallerNext, Install, InstallerFaults

\* The lifecycle keeps its invariant when the installer breaks into it.
LEMMA HostInvBreaks ==
  ASSUME HostInv, HostBreaks
  PROVE  HostInv'
<1>t. HostTypes /\ script \in Seq(StepsOf(command[1])) /\ \A T : <<>> \in Seq(T)
  BY EmptySeq DEF HostInv, ShapeInv
<1>1. CASE env' = {} /\ UNCHANGED <<status, files, stored, keys, vaulted, script, command, failure,
                                    disturbed, leftover, faults>>
  <2>1. ShapeInv'
    BY <1>1 DEF HostInv, ShapeInv, HostTypes
  <2>2. Recreates' = Recreates
    BY <1>1 DEF Recreates
  <2>3. StartInv' /\ DeployInv'
    <3>1. \A d : (Firm(d) => Firm(d)') /\ (Good(d) => Good(d)')
      BY <1>1, <2>2 DEF Firm, Good
    <3> QED
      BY <1>1, <2>2, <3>1 DEF HostInv, StartInv, DeployInv, Running
  <2>4. KeyInv' /\ StopInv'
    BY <1>1 DEF HostInv, KeyInv, ExplorerHasKey, RunsOnItsFiles, StopInv, Stopped
  <2> QED
    BY <2>1, <2>3, <2>4 DEF HostInv
<1>f. ASSUME Fault PROVE disturbed' = TRUE /\ faults' \in 0 .. MaxFaults
  BY <1>f, <1>t, MaxFaultsAssumption DEF Fault, HostTypes
<1>2. CASE /\ Fault /\ UNCHANGED <<env, status, files, stored, keys, vaulted, command, leftover>>
           /\ \/ script' = <<>> /\ failure' = IF Running THEN "fault" ELSE failure
              \/ UNCHANGED <<script, failure>>
  <2>1. ShapeInv'
    BY <1>2, <1>f, <1>t DEF ShapeInv, HostTypes, Failure
  <2>a. \/ script' = script /\ failure' = failure
        \/ script' = <<>> /\ failure' # "none"
    <3>1. CASE Running
      BY <1>2, <3>1
    <3>2. CASE ~Running
      BY <1>2, <3>2 DEF Running
    <3> QED
      BY <3>1, <3>2
  <2>2. \A A, X : /\ Comes(script, A, X) => Comes(script', A, X)
                  /\ Before(script, A, X) => Before(script', A, X)
    BY <2>a, ComesEmpty
  <2>3. StartInv' /\ DeployInv'
    <3>1. Recreates' = Recreates
      BY <1>2 DEF Recreates
    <3>2. DeployInv'
      BY <1>2, <1>f DEF DeployInv
    <3> QED
      BY <1>2, <1>f, <2>2, <3>1, <3>2 DEF HostInv, StartInv
  <2>4. KeyInv'
    BY <1>2, <2>2 DEF HostInv, KeyInv, ExplorerHasKey, RunsOnItsFiles
  <2>5. StopInv'
    BY <1>2, <2>a, <2>2 DEF HostInv, StopInv, Stopped
  <2> QED
    BY <2>1, <2>3, <2>4, <2>5 DEF HostInv
<1>3. CASE /\ Fault /\ ~Running /\ env' = {} /\ status' = [s \in Services |-> "down"]
           /\ files' = {} /\ keys' = {} /\ leftover' = FALSE
           /\ UNCHANGED <<stored, vaulted, script, command, failure>>
  <2>1. ShapeInv'
    BY <1>3, <1>f, <1>t DEF ShapeInv, HostTypes, Status
  <2>2. script' = <<>>
    BY <1>3 DEF Running
  <2>3. \A s \in Services : status'[s] = "down"
    BY <1>3
  <2>4. StartInv' /\ DeployInv'
    BY <1>3, <1>f, <2>2, ComesEmpty DEF StartInv, DeployInv
  <2>5. KeyInv' /\ StopInv'
    BY <2>3, NamesFact DEF KeyInv, ExplorerHasKey, RunsOnItsFiles, Alive, StopInv, Stopped
  <2> QED
    BY <2>1, <2>4, <2>5 DEF HostInv
<1> QED
  BY <1>1, <1>2, <1>3 DEF HostBreaks

\* The make commands stay commands.
LEMMA MakeStep ==
  ASSUME MakeInv, [InstallerNext]_allVars
  PROVE  MakeInv'
<1>1. make' = make \/ make' = <<>> \/ make' = PhaseCommands(phase)
        \/ (make # <<>> /\ make' = Tail(make))
  BY DEF InstallerNext, Install, InstallerFaults, StartInstall, Wipe, Unpack, WriteEnvironment,
     Login, RunNext, PhaseFails, PhaseDone, Logout, Leave, InstallFails, LoginFails, LogoutFails,
     Abandon, Rebuild, OperateOnVm, OnVm, installVars, allVars
<1> QED
  BY <1>1, TailFact, EmptySeq, PhaseCommandsFact DEF MakeInv

\* Under the installer, with its transfers, breaks and rebuilds, the lifecycle
\* of the host keeps its invariant.
THEOREM InstallerInvariant == InstallerSpec => []InstallerInv
<1>1. InstallerInit => InstallerInv
  BY HostInvInit, EmptySeq DEF InstallerInit, InstallerInv, MakeInv
<1>2. InstallerInv /\ [InstallerNext]_allVars => InstallerInv'
  BY InstallerOnHost, HostInvStep, HostInvBreaks, MakeStep DEF InstallerInv
<1> QED
  BY <1>1, <1>2, PTL DEF InstallerSpec

-----------------------------------------------------------------------------
(* Types *)

InstallerTypes ==
  /\ step \in Step
  /\ phase \in Phases
  /\ outcome \in {"none", "ok", "failed"}
  /\ sources \in BOOLEAN /\ settings \in BOOLEAN /\ creds \in BOOLEAN
  /\ cut \in BOOLEAN /\ able \in BOOLEAN /\ installed \in BOOLEAN
  /\ before \in 0 .. MaxFaults

\* Every step of the installer keeps its types.
LEMMA InstallerTypesStep ==
  ASSUME HostInv, InstallerTypes, [InstallerNext]_allVars
  PROVE  InstallerTypes'
<1>f. faults \in 0 .. MaxFaults /\ 0 \in 0 .. MaxFaults
  BY MaxFaultsAssumption DEF HostInv, ShapeInv, HostTypes
<1>1. step' \in Step
  BY DEF InstallerTypes, Step, InstallerNext, Install, InstallerFaults, StartInstall, Wipe, Unpack,
     WriteEnvironment, Login, RunNext, PhaseFails, PhaseDone, Logout, Leave, InstallFails,
     LoginFails, LogoutFails, Abandon, Rebuild, OperateOnVm, OnVm, installVars, allVars
<1>2. phase' \in Phases
  BY DEF InstallerTypes, Phases, InstallerNext, Install, InstallerFaults, StartInstall, Wipe,
     Unpack, WriteEnvironment, Login, RunNext, PhaseFails, PhaseDone, Logout, Leave, InstallFails,
     LoginFails, LogoutFails, Abandon, Rebuild, OperateOnVm, OnVm, installVars, allVars
<1>3. outcome' \in {"none", "ok", "failed"}
  BY DEF InstallerTypes, InstallerNext, Install, InstallerFaults, StartInstall, Wipe,
     Unpack, WriteEnvironment, Login, RunNext, PhaseFails, PhaseDone, Logout, Leave, InstallFails,
     LoginFails, LogoutFails, Abandon, Rebuild, OperateOnVm, OnVm, installVars, allVars
<1>4. sources' \in BOOLEAN
  BY DEF InstallerTypes, InstallerNext, Install, InstallerFaults, StartInstall, Wipe,
     Unpack, WriteEnvironment, Login, RunNext, PhaseFails, PhaseDone, Logout, InstallFails,
     LoginFails, LogoutFails, Abandon, Rebuild, OperateOnVm, OnVm, installVars, allVars
<1>5. settings' \in BOOLEAN
  BY DEF InstallerTypes, InstallerNext, Install, InstallerFaults, StartInstall, Wipe,
     Unpack, WriteEnvironment, Login, RunNext, PhaseFails, PhaseDone, Logout, InstallFails,
     LoginFails, LogoutFails, Abandon, Rebuild, OperateOnVm, OnVm, installVars, allVars
<1>6. creds' \in BOOLEAN
  BY DEF InstallerTypes, InstallerNext, Install, InstallerFaults, StartInstall, Wipe,
     Unpack, WriteEnvironment, Login, RunNext, PhaseFails, PhaseDone, Logout, InstallFails,
     LoginFails, LogoutFails, Rebuild, OperateOnVm, OnVm, installVars, allVars
<1>7. cut' \in BOOLEAN
  BY DEF InstallerTypes, InstallerNext, Install, InstallerFaults, StartInstall, Wipe,
     Unpack, WriteEnvironment, Login, RunNext, PhaseFails, PhaseDone, Logout, InstallFails,
     LoginFails, LogoutFails, Rebuild, OperateOnVm, OnVm, installVars, allVars
<1>8. able' \in BOOLEAN
  BY DEF InstallerTypes, Able, InstallerNext, Install, InstallerFaults, StartInstall, Wipe,
     Unpack, WriteEnvironment, Login, RunNext, PhaseFails, PhaseDone, Logout, Leave, InstallFails,
     LoginFails, LogoutFails, Abandon, Rebuild, OperateOnVm, OnVm, installVars, allVars
<1>9. installed' \in BOOLEAN
  BY DEF InstallerTypes, InstallerNext, Install, InstallerFaults, StartInstall, Wipe,
     Unpack, WriteEnvironment, Login, RunNext, PhaseFails, PhaseDone, Logout, InstallFails,
     LoginFails, LogoutFails, Abandon, Rebuild, OperateOnVm, OnVm, installVars, allVars
<1>10. before' \in 0 .. MaxFaults
  BY <1>f DEF InstallerTypes, InstallerNext, Install, InstallerFaults, StartInstall, Wipe,
     Unpack, WriteEnvironment, Login, RunNext, PhaseFails, PhaseDone, Logout, Leave, InstallFails,
     LoginFails, LogoutFails, Abandon, Rebuild, OperateOnVm, OnVm, installVars, allVars
<1> QED
  BY <1>1, <1>2, <1>3, <1>4, <1>5, <1>6, <1>7, <1>8, <1>9, <1>10 DEF InstallerTypes

\* The state of the installer and of the host under it keeps its type.
THEOREM InstallerTypeCorrect == InstallerSpec => []InstallerTypeOK
<1>1. InstallerInit => InstallerTypes
  <2>1. 0 \in 0 .. MaxFaults
    BY MaxFaultsAssumption
  <2> QED
    BY <2>1 DEF InstallerInit, InstallerTypes, Step, Phases
<1>2. InstallerInv /\ InstallerTypes /\ [InstallerNext]_allVars => InstallerTypes'
  BY InstallerTypesStep DEF InstallerInv
<1>3. InstallerInv /\ InstallerTypes => InstallerTypeOK
  <2>1. SUFFICES ASSUME InstallerInv, InstallerTypes PROVE InstallerTypeOK
    OBVIOUS
  <2>2. TypeOK
    BY <2>1, HostInvIsTyped DEF InstallerInv
  <2>3. make \in Seq(Command)
    <3>1. Makeable \subseteq Command
      BY DEF Makeable, Command, Named
    <3> QED
      BY <2>1, <3>1, SeqMonotonic DEF InstallerInv, MakeInv
  <2>4. {sources, settings, creds, cut, able, installed} \subseteq BOOLEAN
    BY <2>1 DEF InstallerTypes
  <2> QED
    BY <2>1, <2>2, <2>3, <2>4 DEF InstallerTypes, InstallerTypeOK
<1> QED
  BY <1>1, <1>2, <1>3, InstallerInvariant, PTL DEF InstallerSpec

-----------------------------------------------------------------------------
(* An attempt without a fault *)

\* The commands of the phase that have begun.
Begun == Len(PhaseCommands(phase)) - Len(make)

\* An attempt that no fault has disturbed, on a VM that can take its phase.
Undisturbed == step # "idle" /\ faults = before /\ (phase = "applications" => able)

Ready(S) == \A s \in S \cap Services : status[s] = "ready"

\* What Compose starts to bring s up has its files.
Provided(s) == \A t \in Starts(s) : Mounts(t) \subseteq files

\* s is ready, and no start of the command makes it otherwise.
Sure(s) == status[s] = "ready" /\ (s \in HasHealthcheck \/ command[1] # "deploy")

\* The command that runs finds every file and passes every probe that it has
\* still to ask for; only a health check may end it.
Meets ==
  /\ ~disturbed
  /\ failure = "none" \/ (failure = "health" /\ ~Running /\ command[1] # "init")
  /\ Comes(script, {"load"} \X (Names \ env), {})
  /\ "database" \in files \/ Comes(script, {<<"initialize", "oauth">>}, {})
  /\ \A s \in Services : Provided(s) \/ Comes(script, {<<"up", s>>}, {})
  /\ command = <<"deploy", "nebula">> => Provided("explorer")
  /\ command # <<"deploy", "nebula">> =>
       /\ \A s \in Services : Sure(s) \/ Comes(script, {<<"probe", s>>}, {})
       /\ Comes(script, {"key"} \X (Names \ keys), {})
  /\ command[2] # "nebula" => Comes(script, {"ifkey"} \X Names, {})

\* What command number n is for holds once it has succeeded, and until then the
\* command still has the step that brings it about.
Brings(n, fact, s) ==
  Begun >= n /\ failure = "none" => fact \/ (Begun = n /\ Has(script, {s}))

\* What the commands of the phase have brought about so far.
Progress ==
  IF phase # "applications"
    THEN /\ Brings(1, "policy" \in env, <<"generate", "policy">>)
         /\ Brings(1, Created("policy") \subseteq files, <<"initialize", "policy">>)
         /\ Brings(2, "nebula" \in env, <<"generate", "nebula">>)
         /\ Brings(2, Created("nebula") \subseteq files, <<"initialize", "nebula">>)
         /\ Brings(3, "oauth" \in env, <<"generate", "oauth">>)
         /\ Brings(3, Created("oauth") \subseteq files, <<"initialize", "oauth">>)
         /\ Brings(5, Ready({"core"}), <<"health", "core">>)
    ELSE /\ Brings(1, "nebula" \in env, <<"generate", "nebula">>)
         /\ Brings(1, KeyOwners \subseteq keys, <<"initialize", "explorer">>)
         /\ Brings(1, Created("explorer") \subseteq files, <<"initialize", "explorer">>)
         /\ Brings(4, "playground" \in env, <<"generate", "playground">>)
         /\ Brings(4, Created("playground") \subseteq files, <<"initialize", "playground">>)

\* What an applications attempt needs of the platform.
Able3 ==
  /\ Ready({"policy", "oauth"}) /\ KeyOwners \subseteq keys \cup vaulted
  /\ {"database", "core", "copy"} \subseteq files

PhaseInv ==
  /\ Begun \in 0 .. Len(PhaseCommands(phase))
  /\ \A j \in 1 .. Len(make) : make[j] = PhaseCommands(phase)[Begun + j]
  /\ Begun = 0 => make = PhaseCommands(phase) /\ ~Running
  /\ Begun > 0 => command = PhaseCommands(phase)[Begun] /\ Meets
  /\ Progress

AttemptInv ==
  /\ before <= faults
  /\ step \notin {"idle", "phase"} => ~Running
  /\ Undisturbed =>
       /\ phase = "applications" => Able3
       /\ step = "phase" => PhaseInv
       /\ step = "logout" => outcome = "ok" \/ (failure = "health" /\ phase # "prepare")

-----------------------------------------------------------------------------
(* The commands of a phase *)

\* Lists of one, three and five.
LEMMA ListFact ==
  ASSUME NEW T, NEW a \in T, NEW b \in T, NEW c \in T, NEW d \in T, NEW e \in T
  PROVE  /\ <<a>> \in Seq(T) /\ Len(<<a>>) = 1 /\ <<a>>[1] = a
         /\ <<a, b, c>> \in Seq(T) /\ Len(<<a, b, c>>) = 3
         /\ <<a, b, c>>[1] = a /\ <<a, b, c>>[2] = b /\ <<a, b, c>>[3] = c
         /\ <<a, b, c, d, e>> \in Seq(T) /\ Len(<<a, b, c, d, e>>) = 5
         /\ <<a, b, c, d, e>>[1] = a /\ <<a, b, c, d, e>>[2] = b /\ <<a, b, c, d, e>>[3] = c
         /\ <<a, b, c, d, e>>[4] = d /\ <<a, b, c, d, e>>[5] = e
OBVIOUS

\* The two parts of a list.
LEMMA PartsFact ==
  ASSUME NEW T, NEW p \in Seq(T), NEW q \in Seq(T)
  PROVE  /\ Len(p \o q) = Len(p) + Len(q)
         /\ \A i \in 1 .. Len(p) : (p \o q)[i] = p[i]
         /\ \A i \in 1 .. Len(q) : (p \o q)[Len(p) + i] = q[i]
BY ConcatProperties, LenProperties

\* The commands of each phase, one by one.
LEMMA PhaseList ==
  /\ \A ph \in {"prepare", "platform"} :
       /\ PhaseCommands(ph)[1] = <<"init", "policy">>
       /\ PhaseCommands(ph)[2] = <<"init", "nebula">>
       /\ PhaseCommands(ph)[3] = <<"init", "oauth">>
  /\ Len(PhaseCommands("prepare")) = 3
  /\ Len(PhaseCommands("platform")) = 6
  /\ PhaseCommands("platform")[4] = <<"deploy", "nebula">>
  /\ PhaseCommands("platform")[5] = <<"health", "nebula">>
  /\ PhaseCommands("platform")[6] = <<"bootstrap", "nebula">>
  /\ Len(PhaseCommands("applications")) = 6
  /\ PhaseCommands("applications")[1] = <<"init", "explorer">>
  /\ PhaseCommands("applications")[2] = <<"deploy", "explorer">>
  /\ PhaseCommands("applications")[3] = <<"health", "explorer">>
  /\ PhaseCommands("applications")[4] = <<"init", "playground">>
  /\ PhaseCommands("applications")[5] = <<"deploy", "playground">>
  /\ PhaseCommands("applications")[6] = <<"health", "playground">>
<1> DEFINE I == Each("init", <<"policy", "nebula", "oauth">>)
           E == Each("init", <<"explorer">>)
           P == <<<<"deploy", "nebula">>, <<"health", "nebula">>, <<"bootstrap", "nebula">>>>
           A == <<<<"deploy", "explorer">>, <<"health", "explorer">>, <<"init", "playground">>,
                 <<"deploy", "playground">>, <<"health", "playground">>>>
           M == Makeable
<1>n. /\ {"policy", "nebula", "oauth", "explorer", "playground"} \subseteq Named
      /\ {"init", "deploy", "health", "bootstrap"} \subseteq Actions \ {"import"}
  BY DEF Named, Actions, AllServices
<1>1. PICK l, k : /\ l = <<"policy", "nebula", "oauth">> /\ k = <<"explorer">>
                  /\ l \in Seq(Named) /\ Len(l) = 3 /\ k \in Seq(Named) /\ Len(k) = 1
                  /\ l[1] = "policy" /\ l[2] = "nebula" /\ l[3] = "oauth" /\ k[1] = "explorer"
  <2>1. "policy" \in Named /\ "nebula" \in Named /\ "oauth" \in Named /\ "explorer" \in Named
    BY <1>n
  <2>2. PICK l, k : l = <<"policy", "nebula", "oauth">> /\ k = <<"explorer">>
    OBVIOUS
  <2>3. /\ l \in Seq(Named) /\ Len(l) = 3 /\ l[1] = "policy" /\ l[2] = "nebula" /\ l[3] = "oauth"
    BY <2>1, <2>2, ListFact
  <2>4. k \in Seq(Named) /\ Len(k) = 1 /\ k[1] = "explorer"
    BY <2>1, <2>2, ListFact
  <2> QED
    BY <2>2, <2>3, <2>4
<1>2. /\ I \in Seq({"init"} \X Named) /\ Len(I) = 3
      /\ I[1] = <<"init", "policy">> /\ I[2] = <<"init", "nebula">> /\ I[3] = <<"init", "oauth">>
  <2>1. /\ Each("init", l) \in Seq({"init"} \X Named) /\ Len(Each("init", l)) = 3
        /\ \A i \in 1 .. 3 : Each("init", l)[i] = <<"init", l[i]>>
    BY <1>1, EachFact
  <2> QED
    BY <1>1, <2>1
<1>3. E \in Seq({"init"} \X Named) /\ Len(E) = 1 /\ E[1] = <<"init", "explorer">>
  <2>1. /\ Each("init", k) \in Seq({"init"} \X Named) /\ Len(Each("init", k)) = 1
        /\ \A i \in 1 .. 1 : Each("init", k)[i] = <<"init", k[i]>>
    BY <1>1, EachFact
  <2> QED
    BY <1>1, <2>1
<1>4. /\ P \in Seq(M) /\ Len(P) = 3 /\ P[1] = <<"deploy", "nebula">>
      /\ P[2] = <<"health", "nebula">> /\ P[3] = <<"bootstrap", "nebula">>
  <2>1. /\ <<"deploy", "nebula">> \in M /\ <<"health", "nebula">> \in M
        /\ <<"bootstrap", "nebula">> \in M
    BY <1>n DEF Makeable
  <2> QED
    BY <2>1, ListFact
<1>5. /\ A \in Seq(M) /\ Len(A) = 5 /\ A[1] = <<"deploy", "explorer">>
      /\ A[2] = <<"health", "explorer">> /\ A[3] = <<"init", "playground">>
      /\ A[4] = <<"deploy", "playground">> /\ A[5] = <<"health", "playground">>
  <2>1. /\ <<"deploy", "explorer">> \in M /\ <<"health", "explorer">> \in M
        /\ <<"init", "playground">> \in M /\ <<"deploy", "playground">> \in M
        /\ <<"health", "playground">> \in M
    BY <1>n DEF Makeable
  <2> QED
    BY <2>1, ListFact
<1>6. /\ PhaseCommands("prepare") = I /\ PhaseCommands("platform") = I \o P
      /\ PhaseCommands("applications") = E \o A
  BY DEF PhaseCommands
<1>7. {"init"} \X Named \subseteq M
  BY <1>n DEF Makeable
<1> HIDE DEF I, E, P, A, M
<1>8. I \in Seq(M) /\ E \in Seq(M)
  BY <1>2, <1>3, <1>7, SeqMonotonic
<1>9. /\ Len(I \o P) = 6
      /\ \A i \in 1 .. 3 : (I \o P)[i] = I[i] /\ (I \o P)[3 + i] = P[i]
  <2>1. /\ Len(I \o P) = Len(I) + Len(P)
        /\ \A i \in 1 .. Len(I) : (I \o P)[i] = I[i]
        /\ \A i \in 1 .. Len(P) : (I \o P)[Len(I) + i] = P[i]
    <3>1. I \in Seq(M) /\ P \in Seq(M)
      BY <1>4, <1>8
    <3> QED
      BY <3>1, PartsFact
  <2> QED
    BY <1>2, <1>4, <2>1
<1>10. /\ Len(E \o A) = 6 /\ (E \o A)[1] = E[1]
       /\ \A i \in 1 .. 5 : (E \o A)[1 + i] = A[i]
  <2>1. /\ Len(E \o A) = Len(E) + Len(A)
        /\ \A i \in 1 .. Len(E) : (E \o A)[i] = E[i]
        /\ \A i \in 1 .. Len(A) : (E \o A)[Len(E) + i] = A[i]
    <3>1. E \in Seq(M) /\ A \in Seq(M)
      BY <1>5, <1>8
    <3> QED
      BY <3>1, PartsFact
  <2> QED
    BY <1>3, <1>5, <2>1
<1>11. /\ (I \o P)[1] = I[1] /\ (I \o P)[2] = I[2] /\ (I \o P)[3] = I[3]
       /\ (I \o P)[4] = P[1] /\ (I \o P)[5] = P[2] /\ (I \o P)[6] = P[3]
  BY <1>9
<1>12. /\ (E \o A)[2] = A[1] /\ (E \o A)[3] = A[2] /\ (E \o A)[4] = A[3]
       /\ (E \o A)[5] = A[4] /\ (E \o A)[6] = A[5]
  BY <1>10
<1> QED
  BY <1>2, <1>3, <1>4, <1>5, <1>6, <1>9, <1>10, <1>11, <1>12

\* What a script comes without, a part of it does too.
LEMMA ComesLess ==
  ASSUME NEW q, NEW A, NEW B, NEW X, Comes(q, A, X), B \subseteq A
  PROVE  Comes(q, B, X)
BY DEF Comes

\* A deploy of one service stages, probes what it requires, looks at its key
\* and starts it, and does nothing else.
LEMMA DeploySteps ==
  ASSUME NEW s \in AllServices
  PROVE  Deploy(s) \in Seq({<<"stage", s>>, <<"up", s>>} \cup ({"probe"} \X Required(s))
                           \cup KeyStep(s))
<1> DEFINE T == {<<"stage", s>>} \cup ({"probe"} \X Required(s)) \cup KeyStep(s)
           U == {<<"stage", s>>, <<"up", s>>} \cup ({"probe"} \X Required(s)) \cup KeyStep(s)
           u == <<<<"up", s>>>>
<1>1. Preparation(s) \in Seq(T) /\ Deploy(s) = Preparation(s) \o u
  BY PreparationFact
<1>2. T \subseteq U /\ u \in Seq(U)
  OBVIOUS
<1> HIDE DEF T, U, u
<1>3. Preparation(s) \in Seq(U)
  BY <1>1, <1>2, SeqMonotonic
<1>4. Deploy(s) \in Seq(U)
  BY <1>1, <1>2, <1>3, ConcatProperties
<1> QED
  BY <1>4 DEF U

\* What a deploy in a phase does not do: load, decide about Explorer, make a
\* file, or start another service.
Foreign(s) == ({"load", "ifkey", "initialize"} \X Names) \cup ({"up"} \X (Names \ {s}))

LEMMA DeployKeepsToItself ==
  ASSUME NEW s \in AllServices
  PROVE  Comes(Deploy(s), Foreign(s), {})
<1>1. PICK U : U = {<<"stage", s>>, <<"up", s>>} \cup ({"probe"} \X Required(s)) \cup KeyStep(s)
  OBVIOUS
<1>2. U \cap Foreign(s) = {}
  BY <1>1 DEF KeyStep, Foreign
<1> QED
  BY <1>1, <1>2, DeploySteps, ComesNone

\* The script of an init makes the environment file and the durable files.
LEMMA InitScript ==
  ASSUME NEW x \in Named
  PROVE  /\ Script("init", x) \in Seq({<<"generate", Product[x]>>, <<"initialize", x>>})
         /\ Has(Script("init", x), {<<"generate", Product[x]>>})
         /\ Has(Script("init", x), {<<"initialize", x>>})
<1>1. PICK a, b : a = <<"generate", Product[x]>> /\ b = <<"initialize", x>>
  OBVIOUS
<1>2. Script("init", x) = <<a, b>>
  BY <1>1, ScriptSplit
<1>3. <<a, b>> \in Seq({a, b})
  OBVIOUS
<1>4. Has(<<a, b>>, {a}) /\ Has(<<a, b>>, {b})
  BY DEF Has
<1> QED
  BY <1>1, <1>2, <1>3, <1>4

\* The load every other command begins with.
LEMMA LoadFact ==
  ASSUME NEW x \in Named
  PROVE  Each("load", <<Product[x]>>) \in Seq({<<"load", Product[x]>>})
<1>1. PICK p : p = Product[x]
  OBVIOUS
<1>2. <<p>> \in Seq({p})
  OBVIOUS
<1>3. Each("load", <<p>>) \in Seq({"load"} \X {p})
  BY <1>2, EachFact
<1>4. {"load"} \X {p} = {<<"load", p>>}
  OBVIOUS
<1> QED
  BY <1>1, <1>3, <1>4

\* One question.
LEMMA AskFact ==
  ASSUME NEW op, NEW x
  PROVE  Each(op, <<x>>) \in Seq({<<op, x>>})
<1>1. <<x>> \in Seq({x})
  OBVIOUS
<1>2. Each(op, <<x>>) \in Seq({op} \X {x})
  BY <1>1, EachFact
<1>3. {op} \X {x} = {<<op, x>>}
  OBVIOUS
<1> QED
  BY <1>2, <1>3

\* The steps of the commands that a phase runs on Explorer and Playground.
LEMMA ServiceScripts ==
  ASSUME NEW s \in {"explorer", "playground"}
  PROVE  /\ Script("deploy", s) \in
              Seq({<<"load", Product[s]>>, <<"stage", s>>, <<"up", s>>}
                  \cup ({"probe"} \X Required(s)) \cup KeyStep(s))
         /\ Script("health", s) \in Seq({<<"load", Product[s]>>, <<"health", s>>})
<1> DEFINE L == Each("load", <<Product[s]>>)
           l == <<"load", Product[s]>>
           D == {<<"stage", s>>, <<"up", s>>} \cup ({"probe"} \X Required(s)) \cup KeyStep(s)
           p == <<"health", s>>
<1>n. s \in Named /\ s \in AllServices /\ s # "nebula"
  BY DEF Named, AllServices
<1>1. /\ Script("deploy", s) = L \o Deploy(s)
      /\ Script("health", s) = L \o Each("health", <<s>>)
  BY <1>n, ScriptSplit DEF Health
<1>2. L \in Seq({l})
  BY <1>n, LoadFact
<1>3. Deploy(s) \in Seq(D)
  BY <1>n, DeploySteps
<1>4. Each("health", <<s>>) \in Seq({p})
  BY AskFact
<1>5. /\ {l} \subseteq {l} \cup D /\ D \subseteq {l} \cup D
      /\ {l} \subseteq {l, p} /\ {p} \subseteq {l, p}
      /\ {l} \cup D = {<<"load", Product[s]>>, <<"stage", s>>, <<"up", s>>}
                      \cup ({"probe"} \X Required(s)) \cup KeyStep(s)
  OBVIOUS
<1> HIDE DEF L, l, D, p
<1>6. L \in Seq({l} \cup D) /\ Deploy(s) \in Seq({l} \cup D)
  BY <1>2, <1>3, <1>5, SeqMonotonic
<1>7. L \in Seq({l, p}) /\ Each("health", <<s>>) \in Seq({l, p})
  BY <1>2, <1>4, <1>5, SeqMonotonic
<1>8. L \o Deploy(s) \in Seq({l} \cup D)
  BY <1>6, ConcatProperties
<1>9. L \o Each("health", <<s>>) \in Seq({l, p})
  BY <1>7, ConcatProperties
<1>10. {l, p} = {<<"load", Product[s]>>, <<"health", s>>}
  BY DEF l, p
<1> QED
  BY <1>1, <1>5, <1>8, <1>9, <1>10

\* What a deploy of the stack leaves to other commands.
Elsewhere ==
  ({"load"} \X (Names \ {"nebula", "policy", "oauth"}))
    \cup {<<"initialize", "oauth">>, <<"up", "playground">>}

\* And those of the commands it runs on the stack.
LEMMA StackScripts ==
  /\ Comes(Script("deploy", "nebula"), Elsewhere, {})
  /\ Script("health", "nebula") \in
       Seq({<<"load", "nebula">>, <<"health", "core">>, <<"health", "console">>,
            <<"ifkey", "health">>})
  /\ Has(Script("health", "nebula"), {<<"health", "core">>})
  /\ Script("bootstrap", "nebula") \in Seq({<<"load", "nebula">>, <<"probe", "core">>})
<1> DEFINE L == Each("load", <<Product["nebula"]>>)
           l == <<"load", "nebula">>
<1>n. "nebula" \in Named /\ Product["nebula"] = "nebula"
  BY DEF Named, Product
<1>1. L \in Seq({l})
  BY <1>n, LoadFact
<1>2. Script("bootstrap", "nebula") \in Seq({l, <<"probe", "core">>})
  <2> DEFINE c == <<"probe", "core">>
             B == Each("probe", <<"core">>)
  <2>1. Script("bootstrap", "nebula") = L \o B /\ B \in Seq({c})
    BY <1>n, ScriptSplit, AskFact
  <2> HIDE DEF L, l, c, B
  <2>2. L \in Seq({l, c}) /\ B \in Seq({l, c})
    <3>1. {l} \subseteq {l, c} /\ {c} \subseteq {l, c}
      OBVIOUS
    <3> QED
      BY <1>1, <2>1, <3>1, SeqMonotonic
  <2>3. L \o B \in Seq({l, c})
    BY <2>2, ConcatProperties
  <2> QED
    BY <2>1, <2>3 DEF c
<1>3. /\ Script("health", "nebula") \in
           Seq({l, <<"health", "core">>, <<"health", "console">>, <<"ifkey", "health">>})
      /\ Has(Script("health", "nebula"), {<<"health", "core">>})
  <2> DEFINE H == Each("health", <<"core", "console">>)
             w == <<"ifkey", "health">>
             c == <<"health", "core">>
             P == {"health"} \X {"core", "console"}
             T == {l, <<"health", "core">>, <<"health", "console">>, w}
  <2>1. Script("health", "nebula") = L \o (H \o <<w>>)
    BY <1>n, ScriptSplit DEF Health
  <2>2. PICK k : k = <<"core", "console">>
    OBVIOUS
  <2>3. H \in Seq(P) /\ Has(H, {c})
    <3>a. <<"core", "console">> \in Seq({"core", "console"})
      OBVIOUS
    <3>b. Len(<<"core", "console">>) = 2 /\ <<"core", "console">>[1] = "core"
      OBVIOUS
    <3>1. k \in Seq({"core", "console"}) /\ Len(k) = 2 /\ k[1] = "core"
      BY <2>2, <3>a, <3>b
    <3>2. PICK S : S = {"core", "console"}
      OBVIOUS
    <3>3. k \in Seq(S)
      BY <3>1, <3>2
    <3>4. /\ Each("health", k) \in Seq({"health"} \X S)
          /\ Len(Each("health", k)) = Len(k)
          /\ \A i \in 1 .. Len(k) : Each("health", k)[i] = <<"health", k[i]>>
      BY <3>3, EachFact
    <3>5. H = Each("health", k) /\ P = {"health"} \X S /\ 1 \in 1 .. Len(k)
      BY <2>2, <3>1, <3>2
    <3> HIDE DEF H, P
    <3> QED
      BY <3>1, <3>4, <3>5 DEF Has
  <2>4. P \subseteq T /\ {l} \subseteq T /\ w \in T
    OBVIOUS
  <2> HIDE DEF L, l, H, w, P, T, c
  <2>5. L \in Seq(T) /\ H \in Seq(T) /\ <<w>> \in Seq(T)
    BY <1>1, <2>3, <2>4, SeqMonotonic
  <2>6. H \o <<w>> \in Seq(T) /\ Has(H \o <<w>>, {c})
    BY <2>3, <2>5, ConcatProperties, HasConcat
  <2>7. L \o (H \o <<w>>) \in Seq(T) /\ Has(L \o (H \o <<w>>), {c})
    BY <2>5, <2>6, ConcatProperties, HasConcat
  <2> QED
    BY <2>1, <2>7 DEF T, w, c
<1>4. Comes(Script("deploy", "nebula"), Elsewhere, {})
  <2> DEFINE M == Each("load", <<"policy", "oauth">>)
             w == <<"ifkey", "deploy">>
             Core4 == {"policy", "core", "oauth", "console"}
  <2>a. PICK A : A = Elsewhere
    OBVIOUS
  <2>1. M \in Seq({"load"} \X {"policy", "oauth"})
    <3>1. <<"policy", "oauth">> \in Seq({"policy", "oauth"})
      OBVIOUS
    <3> QED
      BY <3>1, EachFact
  <2>2. Comes(M, A, {})
    <3>1. ({"load"} \X {"policy", "oauth"}) \cap A = {}
      BY <2>a DEF Elsewhere
    <3> HIDE DEF M
    <3> QED
      BY <2>1, <3>1, ComesNone
  <2>3. Comes(L, A, {})
    <3>1. {l} \cap A = {}
      BY <2>a DEF Elsewhere
    <3> HIDE DEF L, l
    <3> QED
      BY <1>1, <3>1, ComesNone
  <2>4. \A s \in Core4 : Comes(Deploy(s), A, {}) /\ Deploy(s) \in Seq(ScriptStep)
    <3> SUFFICES ASSUME NEW s \in Core4
                 PROVE  Comes(Deploy(s), A, {}) /\ Deploy(s) \in Seq(ScriptStep)
      OBVIOUS
    <3>s. s \in AllServices /\ s \in Services
      BY NamesFact DEF Core5, AllServices
    <3>1. A \subseteq Foreign(s)
      BY <2>a DEF Elsewhere, Foreign, Names, AllServices
    <3>2. Comes(Deploy(s), A, {})
      BY <3>s, <3>1, DeployKeepsToItself, ComesLess
    <3>3. Deploy(s) \in Seq(StepsOf("deploy"))
      BY <3>s, DeployProbed DEF Probed
    <3>4. StepsOf("deploy") \subseteq ScriptStep
      BY StepsAreSteps DEF Actions
    <3> QED
      BY <3>2, <3>3, <3>4, SeqMonotonic
  <2>5. \A d \in Gates : Comes(Each("health", <<d>>), A, {})
                         /\ Each("health", <<d>>) \in Seq(ScriptStep)
    <3> SUFFICES ASSUME NEW d \in Gates
                 PROVE  Comes(Each("health", <<d>>), A, {})
                        /\ Each("health", <<d>>) \in Seq(ScriptStep)
      OBVIOUS
    <3>1. {<<"health", d>>} \cap A = {} /\ {<<"health", d>>} \subseteq ScriptStep
      BY <2>a, NamesFact DEF ScriptStep, Ops, Elsewhere
    <3>2. Each("health", <<d>>) \in Seq({<<"health", d>>})
      BY AskFact
    <3> QED
      BY <3>1, <3>2, ComesNone, SeqMonotonic
  <2>6. M \in Seq(ScriptStep) /\ L \in Seq(ScriptStep) /\ <<w>> \in Seq(ScriptStep)
        /\ Comes(<<w>>, A, {})
    <3>1. /\ {"load"} \X {"policy", "oauth"} \subseteq ScriptStep /\ l \in ScriptStep
          /\ w \in ScriptStep
      BY DEF ScriptStep, Ops, Names, AllServices
    <3>2. {l} \subseteq ScriptStep
      BY <3>1
    <3>3. Comes(<<w>>, A, {})
      <4>1. <<w>> \in Seq({w}) /\ {w} \cap A = {}
        BY <2>a DEF Elsewhere
      <4> HIDE DEF w
      <4> QED
        BY <4>1, ComesNone
    <3> HIDE DEF M, L, l, w
    <3> QED
      BY <1>1, <2>1, <3>1, <3>2, <3>3, SeqMonotonic
  <2> DEFINE Dry(q) == q \in Seq(ScriptStep) /\ Comes(q, A, {})
  <2>7. \A p, q : Dry(p) /\ Dry(q) => Dry(p \o q)
    BY ComesConcat, ConcatProperties
  <2>8. /\ Dry(L) /\ Dry(M) /\ Dry(<<w>>)
        /\ \A s \in Core4 : Dry(Deploy(s))
        /\ \A d \in Gates : Dry(Each("health", <<d>>))
    BY <2>2, <2>3, <2>4, <2>5, <2>6
  <2> HIDE DEF Dry
  <2>9. Dry(DeployStack)
    <3>1. /\ Dry(Deploy("policy")) /\ Dry(Deploy("core")) /\ Dry(Deploy("oauth"))
          /\ Dry(Deploy("console"))
          /\ Dry(Each("health", <<"policy">>)) /\ Dry(Each("health", <<"core">>))
          /\ Dry(Each("health", <<"oauth">>))
      BY <2>8 DEF Gates
    <3>2. DeployStack = M \o Deploy("policy") \o Each("health", <<"policy">>)
            \o Deploy("core") \o Each("health", <<"core">>)
            \o Deploy("oauth") \o Each("health", <<"oauth">>)
            \o Deploy("console") \o <<w>>
      BY DEF DeployStack
    <3> HIDE DEF M, w
    <3> QED
      BY <2>7, <2>8, <3>1, <3>2
  <2>10. Dry(L \o DeployStack)
    BY <2>7, <2>8, <2>9
  <2> QED
    BY <1>n, <2>a, <2>10, ScriptSplit DEF Dry
<1> QED
  BY <1>2, <1>3, <1>4

-----------------------------------------------------------------------------
(* A command of a phase, step by step *)

\* None of them stops or removes anything.
Gentle == {"init", "deploy", "health", "bootstrap"}

\* What is first in the script of a command that meets its checks.
LEMMA MeetsFirst ==
  ASSUME ShapeInv, Meets, script # <<>>
  PROVE  /\ script \in Seq(ScriptStep) /\ script \in Seq(StepsOf(command[1]))
         /\ Head(script) \in ScriptStep /\ Head(script) \in StepsOf(command[1])
         /\ failure = "none"
         /\ \A A : Comes(script, A, {}) => Head(script) \notin A /\ Comes(Tail(script), A, {})
         /\ \A x : Has(script, {x}) => x = Head(script) \/ Has(Tail(script), {x})
<1>1. /\ script \in Seq(ScriptStep) /\ script \in Seq(StepsOf(command[1]))
      /\ failure = "none"
  BY DEF ShapeInv, HostTypes, Meets, Running
<1>2. Head(script) \in ScriptStep /\ Head(script) \in StepsOf(command[1])
  BY <1>1, TailFact
<1>3. \A A : Comes(script, A, {}) => Head(script) \notin A /\ Comes(Tail(script), A, {})
  BY <1>1, ComesFirst, ComesTail
<1>4. \A x : Has(script, {x}) => x = Head(script) \/ Has(Tail(script), {x})
  BY <1>1, HasTail
<1> QED
  BY <1>1, <1>2, <1>3, <1>4

\* Its starts find their files.
LEMMA MeetsProvides ==
  ASSUME ShapeInv, Meets, NEW s \in Services, Doing("up", s)
  PROVE  Provided(s)
<1>1. script # <<>> /\ Head(script) = <<"up", s>>
  BY DEF Doing, Running
<1>2. Provided(s) \/ Comes(script, {<<"up", s>>}, {})
  BY DEF Meets
<1> QED
  BY <1>1, <1>2, MeetsFirst

\* So every step of them leaves what there is, and does what it is for.
LEMMA GentleStep ==
  ASSUME ShapeInv, Meets, Execute, command[1] \in Gentle
  PROVE  /\ env \subseteq env' /\ keys \subseteq keys' /\ files \subseteq files'
         /\ vaulted' = vaulted
         /\ \A s \in Services : s \in HasHealthcheck /\ status[s] = "ready" => status'[s] = "ready"
         /\ command[1] # "deploy" => status' = status
         /\ command[1] \in {"health", "bootstrap"} => keys' = keys
         /\ \A p : Head(script) = <<"load", p>> /\ p \in env => failure' = failure
         /\ \A s : Head(script) = <<"probe", s>> => s \in Services
         /\ \A p : Head(script) = <<"generate", p>> => p \in env'
         /\ \A x : Head(script) = <<"initialize", x>> =>
              /\ vaulted \subseteq keys'
              /\ \/ Created(x) \subseteq files' /\ failure' = failure
                 \/ x = "oauth" /\ "database" \notin files /\ failure' = "files"
         /\ \A s : Head(script) = <<"health", s>> => status'[s] = "ready" \/ failure' = "health"
<1>t. status \in [Services -> Status]
  BY DEF ShapeInv, HostTypes
<1>a. command[1] \in Actions
  BY DEF Gentle, Actions
<1>h. /\ \A op, x : Doing(op, x) =>
           op \in {"load", "generate", "initialize", "stage", "probe", "key", "up", "health",
                   "ifkey"}
      /\ \A op, x : Doing(op, x) /\ op \in {"initialize", "stage"} =>
           command[1] \notin {"health", "bootstrap"}
      /\ \A x : Doing("up", x) => command[1] = "deploy"
  <2> SUFFICES ASSUME NEW op, NEW x, Doing(op, x)
               PROVE  /\ op \in {"load", "generate", "initialize", "stage", "probe", "key", "up",
                                 "health", "ifkey"}
                      /\ op \in {"initialize", "stage"} =>
                           command[1] \notin {"health", "bootstrap"}
                      /\ op = "up" => command[1] = "deploy"
    OBVIOUS
  <2>1. <<op, x>> \in StepsOf(command[1]) /\ op \in Ops
    BY DoingFact
  <2> QED
    BY <1>a, <2>1, StepsFact DEF Gentle, Ops
<1> DEFINE G == /\ env \subseteq env' /\ keys \subseteq keys' /\ files \subseteq files'
                /\ vaulted' = vaulted
                /\ \A s \in Services : s \in HasHealthcheck /\ status[s] = "ready"
                                         => status'[s] = "ready"
                /\ command[1] # "deploy" => status' = status
                /\ command[1] \in {"health", "bootstrap"} => keys' = keys
                /\ \A p : Head(script) = <<"load", p>> /\ p \in env => failure' = failure
                /\ \A s : Head(script) = <<"probe", s>> => s \in Services
                /\ \A p : Head(script) = <<"generate", p>> => p \in env'
                /\ \A x : Head(script) = <<"initialize", x>> =>
                     /\ vaulted \subseteq keys'
                     /\ \/ Created(x) \subseteq files' /\ failure' = failure
                        \/ x = "oauth" /\ "database" \notin files /\ failure' = "files"
                /\ \A s : Head(script) = <<"health", s>> =>
                     status'[s] = "ready" \/ failure' = "health"
<1>1. ASSUME NEW p, Load(p) PROVE G
  <2>1. /\ Head(script) = <<"load", p>> /\ UNCHANGED <<env, status, files, keys, vaulted>>
        /\ Check(p \in env, "environment")
    BY <1>1 DEF Load, Doing
  <2>2. p \in env => failure' = failure
    BY <2>1, CheckFact
  <2> QED
    BY <2>1, <2>2
<1>2. ASSUME NEW p, Generate(p) PROVE G
  BY <1>2 DEF Generate, Doing
<1>3. ASSUME NEW x, Initialize(x) PROVE G
  <2>1. /\ Head(script) = <<"initialize", x>> /\ UNCHANGED <<env, status, vaulted>>
        /\ keys' = keys \cup vaulted /\ command[1] \notin {"health", "bootstrap"}
    BY <1>3, <1>h DEF Initialize, Doing
  <2>2. /\ files \subseteq files'
        /\ \/ Created(x) \subseteq files' /\ failure' = failure
           \/ x = "oauth" /\ "database" \notin files /\ failure' = "files"
    BY <1>3 DEF Initialize, FailWith, Advance
  <2> QED
    BY <2>1, <2>2
<1>4. ASSUME NEW s, Stage(s) PROVE G
  BY <1>4, <1>h DEF Stage, Doing
<1>5. ASSUME NEW s \in Services, Probe(s) PROVE G
  BY <1>5 DEF Probe, Doing
<1>6. ASSUME NEW s, RequireKey(s) PROVE G
  BY <1>6 DEF RequireKey, Doing
<1>7. ASSUME NEW s \in Services, Up(s) PROVE G
  <2>1. /\ Head(script) = <<"up", s>> /\ UNCHANGED <<env, files, keys, vaulted>>
        /\ status' \in BroughtUp(s, Starts(s)) /\ command[1] = "deploy"
    BY <1>7, <1>h DEF Up, Doing
  <2>2. \A t \in Services : t \in HasHealthcheck /\ status[t] = "ready" => status'[t] = "ready"
    BY <1>t, <2>1, BroughtFact, SettledFact
  <2> QED
    BY <2>1, <2>2
<1>8. ASSUME NEW s, StopService(s) \/ Down(s) \/ RemoveTree(s) \/ Unlink(s) PROVE G
  BY <1>8, <1>h DEF StopService, Down, RemoveTree, Unlink
<1>9. ASSUME NEW then, IfKey(then) PROVE G
  BY <1>9 DEF IfKey, Doing
<1>10. ASSUME NEW s, HealthCheck(s) PROVE G
  BY <1>10 DEF HealthCheck, Doing, FailWith
<1>11. ASSUME NEW s \in Services, UpWithoutFiles(s) PROVE FALSE
  <2>1. Doing("up", s) /\ \E t \in Starts(s) : ~(Mounts(t) \subseteq files)
    BY <1>11 DEF UpWithoutFiles
  <2> QED
    BY <2>1, MeetsProvides DEF Provided
<1> HIDE DEF G
<1>12. G
  BY <1>1, <1>2, <1>3, <1>4, <1>5, <1>6, <1>7, <1>8, <1>9, <1>10, <1>11 DEF Execute
<1> QED
  BY <1>12 DEF G

\* A command that meets its checks fails only on a health check.
LEMMA MeetsFails ==
  ASSUME ShapeInv, DeployInv, Meets, Execute, command[1] \in Gentle, Fails
  PROVE  /\ failure' = "health" /\ command[1] # "init" /\ script' = <<>>
         /\ status' = status
<1>1. /\ script # <<>> /\ script \in Seq(ScriptStep) /\ Head(script) \in ScriptStep
      /\ Head(script) \in StepsOf(command[1]) /\ failure = "none"
      /\ \A A : Comes(script, A, {}) => Head(script) \notin A
  BY MeetsFirst DEF Fails
<1>u. ASSUME NEW s \in Services, UpWithoutFiles(s) PROVE FALSE
  <2>1. Doing("up", s) /\ \E t \in Starts(s) : ~(Mounts(t) \subseteq files)
    BY <1>u DEF UpWithoutFiles
  <2> QED
    BY <2>1, MeetsProvides DEF Provided
<1>2. ASSUME NEW x, Head(script) = <<"load", x>>, failure' = "environment"
      PROVE  FALSE
  <2>1. x \in Names
    BY <1>1, <1>2 DEF ScriptStep
  <2>2. Head(script) \notin {"load"} \X (Names \ env)
    BY <1>1 DEF Meets
  <2>3. x \in env
    BY <1>2, <2>1, <2>2
  <2> QED
    BY <1>1, <1>2, <2>3, GentleStep
<1>3. ASSUME NEW x, Head(script) = <<"initialize", x>>, failure' = "files"
      PROVE  FALSE
  <2>1. x = "oauth" /\ "database" \notin files
    BY <1>1, <1>3, GentleStep
  <2>2. Head(script) \notin {<<"initialize", "oauth">>}
    BY <1>1, <2>1 DEF Meets
  <2> QED
    BY <1>3, <2>1, <2>2
<1>4. status' = status
  BY <1>u DEF Fails
<1>5. failure' = "health"
  <2>1. CASE command = <<"deploy", "nebula">>
    <3>1. failure' \in {"environment", "files", "health"}
      BY <2>1, DeployFails DEF Meets
    <3>2. failure' # "environment"
      BY <1>2 DEF Fails
    <3>3. failure' # "files"
      BY <1>3, <1>u DEF Fails
    <3> QED
      BY <3>1, <3>2, <3>3
  <2>2. CASE command # <<"deploy", "nebula">>
    <3>1. ASSUME NEW x, Head(script) = <<"probe", x>>, status[x] # "ready" PROVE FALSE
      <4>1. x \in Services
        BY <3>1, GentleStep
      <4>2. status[x] = "ready" \/ Comes(script, {<<"probe", x>>}, {})
        BY <2>2, <4>1 DEF Meets, Sure
      <4> QED
        BY <1>1, <3>1, <4>2
    <3>2. ASSUME NEW x, Head(script) = <<"key", x>>, x \notin keys PROVE FALSE
      <4>1. x \in Names
        BY <1>1, <3>2 DEF ScriptStep
      <4>2. Head(script) \notin {"key"} \X (Names \ keys)
        BY <1>1, <2>2 DEF Meets
      <4> QED
        BY <3>2, <4>1, <4>2
    <3> QED
      BY <1>2, <1>3, <1>u, <3>1, <3>2 DEF Fails
  <2> QED
    BY <2>1, <2>2
<1>6. command[1] # "init"
  <2>1. \E x : Head(script) = <<"health", x>>
    BY <1>5, <1>u DEF Fails
  <2> QED
    BY <1>1, <2>1 DEF StepsOf
<1> QED
  BY <1>4, <1>5, <1>6 DEF Fails, Ended

\* Each of its steps leaves it so, and what its script has is done or left,
\* unless a health check ends it.
LEMMA MeetsStep ==
  ASSUME ShapeInv, DeployInv, Meets, Execute, command[1] \in Gentle
  PROVE  /\ Meets'
         /\ \A x : Has(script, {x}) => x = Head(script) \/ Has(script', {x}) \/ failure' # "none"
<1>g. /\ env \subseteq env' /\ keys \subseteq keys' /\ files \subseteq files'
      /\ \A s \in Services : s \in HasHealthcheck /\ status[s] = "ready" => status'[s] = "ready"
      /\ command[1] # "deploy" => status' = status
  BY GentleStep
<1>c. command' = command /\ disturbed' = disturbed /\ script # <<>>
  BY ExecuteKeeps DEF Running
<1>s. /\ script \in Seq(ScriptStep) /\ Tail(script) \in Seq(ScriptStep)
      /\ Head(script) \in ScriptStep /\ failure = "none"
  BY <1>c, MeetsFirst, TailFact
<1>p. \A s : Provided(s) => Provided(s)'
  BY <1>g DEF Provided
<1>r. \A s \in Services : Sure(s) => Sure(s)'
  BY <1>c, <1>g DEF Sure
<1>t. /\ \A A : Comes(script, A, {}) => Comes(Tail(script), A, {}) /\ Head(script) \notin A
      /\ \A x : Has(script, {x}) => x = Head(script) \/ Has(Tail(script), {x})
  BY <1>c, MeetsFirst
\* The rest of the script, with what goes before it.
<1>m. ASSUME NEW q, script' = q,
             failure' = "none" \/ (failure' = "health" /\ ~Running' /\ command[1] # "init"),
             Comes(q, {"load"} \X (Names \ env), {}),
             "database" \in files \/ Comes(q, {<<"initialize", "oauth">>}, {}),
             \A s \in Services : Provided(s) \/ Comes(q, {<<"up", s>>}, {}),
             command # <<"deploy", "nebula">> =>
               /\ \A s \in Services : Sure(s) \/ Comes(q, {<<"probe", s>>}, {})
               /\ Comes(q, {"key"} \X (Names \ keys), {}),
             command[2] # "nebula" => Comes(q, {"ifkey"} \X Names, {})
      PROVE  Meets'
  <2>1. Comes(q, {"load"} \X (Names \ env'), {})
    <3>1. {"load"} \X (Names \ env') \subseteq {"load"} \X (Names \ env)
      BY <1>g
    <3> QED
      BY <1>m, <3>1, ComesLess
  <2>2. command # <<"deploy", "nebula">> =>
          /\ \A s \in Services : Sure(s)' \/ Comes(q, {<<"probe", s>>}, {})
          /\ Comes(q, {"key"} \X (Names \ keys'), {})
    <3>1. {"key"} \X (Names \ keys') \subseteq {"key"} \X (Names \ keys)
      BY <1>g
    <3> QED
      BY <1>m, <1>r, <3>1, ComesLess
  <2>3. /\ "database" \in files' \/ Comes(q, {<<"initialize", "oauth">>}, {})
        /\ \A s \in Services : Provided(s)' \/ Comes(q, {<<"up", s>>}, {})
        /\ command = <<"deploy", "nebula">> => Provided("explorer")'
    BY <1>g, <1>m, <1>p DEF Meets
  <2>4. ~disturbed'
    BY <1>c DEF Meets
  <2> QED
    BY <1>c, <1>m, <2>1, <2>2, <2>3, <2>4 DEF Meets
<1>1. ASSUME NEW op, NEW x, Passes(op, x)
      PROVE  /\ Meets'
             /\ \A y : Has(script, {y}) => y = Head(script) \/ Has(script', {y})
  <2>1. script' = Tail(script) /\ failure' = "none"
    BY <1>1, <1>s, PassesFact DEF Passes
  <2>2. Meets'
    BY <1>m, <1>t, <2>1 DEF Meets
  <2> QED
    BY <1>t, <2>1, <2>2
<1>2. ASSUME NEW then, IfKey(then)
      PROVE  /\ Meets'
             /\ \A y : Has(script, {y}) => y = Head(script) \/ Has(script', {y})
  <2>1. Head(script) = <<"ifkey", then>> /\ then \in Names
    BY <1>2, DoingFact DEF IfKey, Doing
  <2>2. command[2] = "nebula"
    BY <1>t, <2>1 DEF Meets
  <2>3. /\ command[1] \in {"deploy", "health"} /\ then = command[1]
        /\ script' = IF "explorer" \notin keys THEN Tail(script)
                     ELSE IF then = "deploy" THEN Deploy("explorer") \o Tail(script)
                     ELSE <<<<then, "explorer">>>> \o Tail(script)
    BY <1>2, IfKeyFact DEF Gentle
  <2>4. failure' = "none"
    BY <1>2, <1>s DEF IfKey
  <2>5. command = <<command[1], command[2]>>
    BY DEF ShapeInv, HostTypes, Command
  <2>6. CASE "explorer" \notin keys
    <3>1. script' = Tail(script)
      BY <2>3, <2>6
    <3>2. Meets'
      BY <1>m, <1>t, <2>4, <3>1 DEF Meets
    <3> QED
      BY <1>t, <3>1, <3>2
  <2>7. CASE "explorer" \in keys /\ command[1] = "deploy"
    <3> DEFINE D == Deploy("explorer")
               q == D \o Tail(script)
    <3>1. script' = q
      BY <2>3, <2>7
    <3>2. command = <<"deploy", "nebula">>
      BY <2>2, <2>5, <2>7
    <3>3. D \in Seq(ScriptStep)
      BY ExplorerDeploy, StepsAreSteps, SeqMonotonic DEF Actions
    <3>4. \A A : A \subseteq Foreign("explorer") => Comes(D, A, {})
      BY NamesFact, DeployKeepsToItself, ComesLess DEF AllServices
    <3> HIDE DEF D
    <3>5. \A A : A \subseteq Foreign("explorer") /\ Comes(script, A, {}) => Comes(q, A, {})
      BY <1>s, <1>t, <3>3, <3>4, ComesConcat
    <3>6. /\ {"load"} \X (Names \ env) \subseteq Foreign("explorer")
          /\ {<<"initialize", "oauth">>} \subseteq Foreign("explorer")
          /\ \A s \in Services \ {"explorer"} : {<<"up", s>>} \subseteq Foreign("explorer")
      BY NamesFact DEF Foreign, Names, AllServices
    <3>7. \A s \in Services : Provided(s) \/ Comes(q, {<<"up", s>>}, {})
      BY <3>2, <3>5, <3>6 DEF Meets
    <3>8. /\ Comes(q, {"load"} \X (Names \ env), {})
          /\ "database" \in files \/ Comes(q, {<<"initialize", "oauth">>}, {})
      BY <3>5, <3>6 DEF Meets
    <3>9. \A y : Has(Tail(script), {y}) => Has(q, {y})
      BY <1>s, <3>3, HasConcat
    <3> HIDE DEF q
    <3>10. Meets'
      BY <1>m, <2>2, <2>4, <3>1, <3>2, <3>7, <3>8
    <3> QED
      BY <1>t, <3>1, <3>9, <3>10
  <2>8. CASE "explorer" \in keys /\ command[1] = "health"
    <3> DEFINE p == <<"health", "explorer">>
               q == <<p>> \o Tail(script)
    <3>1. script' = q
      BY <2>3, <2>8
    <3>2. command # <<"deploy", "nebula">>
      BY <2>5, <2>8
    <3>3. p \in ScriptStep
      BY DEF ScriptStep, Ops, Names, AllServices
    <3>4. <<p>> \in Seq(ScriptStep) /\ <<p>> \in Seq({p})
      BY <3>3
    <3>5. \A A : p \notin A /\ Comes(script, A, {}) => Comes(q, A, {})
      <4> SUFFICES ASSUME NEW A, p \notin A, Comes(script, A, {})
                   PROVE  Comes(q, A, {})
        OBVIOUS
      <4>1. {p} \cap A = {}
        OBVIOUS
      <4> HIDE DEF p
      <4>2. Comes(<<p>>, A, {}) /\ Comes(Tail(script), A, {})
        BY <1>t, <3>4, <4>1, ComesNone
      <4> QED
        BY <1>s, <3>4, <4>2, ComesConcat
    <3>6. /\ p \notin {"load"} \X (Names \ env) /\ p \notin {<<"initialize", "oauth">>}
          /\ \A s : p \notin {<<"up", s>>} /\ p \notin {<<"probe", s>>}
          /\ p \notin {"key"} \X (Names \ keys)
      OBVIOUS
    <3>7. \A y : Has(Tail(script), {y}) => Has(q, {y})
      <4> HIDE DEF p
      <4> QED
        BY <1>s, <3>4, HasConcat
    <3> HIDE DEF p, q
    <3>8. /\ Comes(q, {"load"} \X (Names \ env), {})
          /\ "database" \in files \/ Comes(q, {<<"initialize", "oauth">>}, {})
          /\ \A s \in Services : Provided(s) \/ Comes(q, {<<"up", s>>}, {})
          /\ \A s \in Services : Sure(s) \/ Comes(q, {<<"probe", s>>}, {})
          /\ Comes(q, {"key"} \X (Names \ keys), {})
      BY <3>2, <3>5, <3>6 DEF Meets
    <3>9. Meets'
      BY <1>m, <2>2, <2>4, <3>1, <3>8
    <3> QED
      BY <1>t, <3>1, <3>7, <3>9
  <2> QED
    BY <2>3, <2>6, <2>7, <2>8
<1>3. CASE Fails
  <2>1. failure' = "health" /\ command[1] # "init" /\ script' = <<>>
    BY <1>3, MeetsFails
  <2>2. Meets'
    BY <1>m, <2>1, ComesEmpty DEF Running
  <2> QED
    BY <2>1, <2>2
<1> QED
  BY <1>1, <1>2, <1>3, ExecuteCases

\* A command of a phase begins with every file and probe it has to ask for
\* there, or with steps that see to it.
LEMMA MeetsBegin ==
  ASSUME NEW a, NEW x, Begin(a, x),
         \/ a = "init" /\ x \in Named /\ (x = "oauth" => "database" \in files)
         \/ /\ a = "deploy" /\ x = "nebula" /\ {"nebula", "policy", "oauth"} \subseteq env
            /\ \A s \in Services \ {"playground"} : Provided(s)
         \/ a = "health" /\ x = "nebula" /\ "nebula" \in env
         \/ a = "bootstrap" /\ x = "nebula" /\ "nebula" \in env /\ Ready({"core"})
         \/ /\ a = "deploy" /\ x \in {"explorer", "playground"} /\ Product[x] \in env
            /\ Ready({"policy", "oauth"}) /\ KeyOwners \subseteq keys /\ Provided(x)
         \/ a = "health" /\ x \in {"explorer", "playground"} /\ Product[x] \in env
  PROVE  Meets'
<1> DEFINE S == Script(a, x)
           sure(s) == status[s] = "ready" /\ (s \in HasHealthcheck \/ a # "deploy")
<1>1. /\ script' = S /\ command' = <<a, x>> /\ failure' = "none" /\ disturbed' = FALSE
      /\ UNCHANGED <<env, status, files, keys>>
  BY DEF Begin
<1>2. /\ \A s : Provided(s)' <=> Provided(s)
      /\ \A s : Sure(s)' <=> sure(s)
  BY <1>1 DEF Provided, Sure
<1>3. SUFFICES
        /\ Comes(S, {"load"} \X (Names \ env), {})
        /\ "database" \in files \/ Comes(S, {<<"initialize", "oauth">>}, {})
        /\ \A s \in Services : Provided(s) \/ Comes(S, {<<"up", s>>}, {})
        /\ <<a, x>> = <<"deploy", "nebula">> => Provided("explorer")
        /\ <<a, x>> # <<"deploy", "nebula">> =>
             /\ \A s \in Services : sure(s) \/ Comes(S, {<<"probe", s>>}, {})
             /\ Comes(S, {"key"} \X (Names \ keys), {})
        /\ x # "nebula" => Comes(S, {"ifkey"} \X Names, {})
  <2> HIDE DEF S, sure
  <2> QED
    BY <1>1, <1>2, <1>3 DEF Meets
<1>n. {"nebula", "explorer", "playground"} \subseteq Named
  BY DEF Named, AllServices
<1>4. CASE /\ a = "deploy" /\ x = "nebula" /\ {"nebula", "policy", "oauth"} \subseteq env
           /\ \A s \in Services \ {"playground"} : Provided(s)
  <2>1. /\ {"load"} \X (Names \ env) \subseteq Elsewhere
        /\ {<<"initialize", "oauth">>} \subseteq Elsewhere
        /\ {<<"up", "playground">>} \subseteq Elsewhere
    BY <1>4 DEF Elsewhere
  <2>2. \A A : A \subseteq Elsewhere => Comes(S, A, {})
    BY <1>4, StackScripts, ComesLess
  <2>3. Provided("explorer")
    BY <1>4, NamesFact
  <2> HIDE DEF S
  <2> QED
    BY <1>4, <2>1, <2>2, <2>3
\* The other scripts, by the steps T that they have.
<1>5. ASSUME NEW T, S \in Seq(T), <<a, x>> # <<"deploy", "nebula">>,
             T \cap ({"load"} \X (Names \ env)) = {}, T \cap ({"key"} \X (Names \ keys)) = {},
             "database" \in files \/ T \cap {<<"initialize", "oauth">>} = {},
             \A s \in Services : Provided(s) \/ T \cap {<<"up", s>>} = {},
             \A s \in Services : sure(s) \/ T \cap {<<"probe", s>>} = {},
             x # "nebula" => T \cap ({"ifkey"} \X Names) = {}
      PROVE  /\ Comes(S, {"load"} \X (Names \ env), {})
             /\ "database" \in files \/ Comes(S, {<<"initialize", "oauth">>}, {})
             /\ \A s \in Services : Provided(s) \/ Comes(S, {<<"up", s>>}, {})
             /\ <<a, x>> # <<"deploy", "nebula">> =>
                  /\ \A s \in Services : sure(s) \/ Comes(S, {<<"probe", s>>}, {})
                  /\ Comes(S, {"key"} \X (Names \ keys), {})
             /\ x # "nebula" => Comes(S, {"ifkey"} \X Names, {})
  <2> HIDE DEF S, sure
  <2> QED
    BY <1>5, ComesNone
<1>6. CASE a = "init" /\ x \in Named /\ (x = "oauth" => "database" \in files)
  <2>1. PICK T : T = {<<"generate", Product[x]>>, <<"initialize", x>>}
    OBVIOUS
  <2>2. S \in Seq(T)
    BY <1>6, <2>1, InitScript
  <2>3. /\ T \cap ({"load"} \X (Names \ env)) = {} /\ T \cap ({"key"} \X (Names \ keys)) = {}
        /\ T \cap ({"ifkey"} \X Names) = {}
        /\ "database" \in files \/ T \cap {<<"initialize", "oauth">>} = {}
        /\ \A s : T \cap {<<"up", s>>} = {} /\ T \cap {<<"probe", s>>} = {}
    BY <1>6, <2>1
  <2>4. <<a, x>> # <<"deploy", "nebula">>
    BY <1>6
  <2> HIDE DEF S, sure
  <2> QED
    BY <1>5, <2>2, <2>3, <2>4
<1>7. CASE a = "health" /\ x = "nebula" /\ "nebula" \in env
  <2>1. PICK T : T = {<<"load", "nebula">>, <<"health", "core">>, <<"health", "console">>,
                      <<"ifkey", "health">>}
    OBVIOUS
  <2>2. S \in Seq(T)
    BY <1>7, <2>1, StackScripts
  <2>3. /\ T \cap ({"load"} \X (Names \ env)) = {} /\ T \cap ({"key"} \X (Names \ keys)) = {}
        /\ T \cap {<<"initialize", "oauth">>} = {}
        /\ \A s : T \cap {<<"up", s>>} = {} /\ T \cap {<<"probe", s>>} = {}
    BY <1>7, <2>1
  <2>4. <<a, x>> # <<"deploy", "nebula">> /\ x = "nebula"
    BY <1>7
  <2> HIDE DEF S, sure
  <2> QED
    BY <1>5, <2>2, <2>3, <2>4
<1>8. CASE a = "bootstrap" /\ x = "nebula" /\ "nebula" \in env /\ Ready({"core"})
  <2>1. PICK T : T = {<<"load", "nebula">>, <<"probe", "core">>}
    OBVIOUS
  <2>2. S \in Seq(T)
    BY <1>8, <2>1, StackScripts
  <2>3. /\ T \cap ({"load"} \X (Names \ env)) = {} /\ T \cap ({"key"} \X (Names \ keys)) = {}
        /\ T \cap {<<"initialize", "oauth">>} = {}
        /\ \A s : T \cap {<<"up", s>>} = {}
    BY <1>8, <2>1
  <2>4. \A s \in Services : sure(s) \/ T \cap {<<"probe", s>>} = {}
    BY <1>8, <2>1 DEF Ready
  <2>5. <<a, x>> # <<"deploy", "nebula">> /\ x = "nebula"
    BY <1>8
  <2> HIDE DEF S, sure
  <2> QED
    BY <1>5, <2>2, <2>3, <2>4, <2>5
<1>9. CASE /\ a = "deploy" /\ x \in {"explorer", "playground"} /\ Product[x] \in env
           /\ Ready({"policy", "oauth"}) /\ KeyOwners \subseteq keys /\ Provided(x)
  <2>1. PICK T : T = {<<"load", Product[x]>>, <<"stage", x>>, <<"up", x>>}
                     \cup ({"probe"} \X Required(x)) \cup KeyStep(x)
    OBVIOUS
  <2>2. S \in Seq(T)
    BY <1>9, <2>1, ServiceScripts
  <2>3. /\ T \cap ({"load"} \X (Names \ env)) = {} /\ T \cap ({"key"} \X (Names \ keys)) = {}
        /\ T \cap ({"ifkey"} \X Names) = {} /\ T \cap {<<"initialize", "oauth">>} = {}
    BY <1>9, <2>1 DEF KeyStep
  <2>4. \A s \in Services : Provided(s) \/ T \cap {<<"up", s>>} = {}
    BY <1>9, <2>1 DEF KeyStep
  <2>5. Required(x) \subseteq {"policy", "oauth"}
    BY <1>9 DEF Required
  <2>6. \A s \in Services : sure(s) \/ T \cap {<<"probe", s>>} = {}
    <3> SUFFICES ASSUME NEW s \in Services, ~sure(s)
                 PROVE  T \cap {<<"probe", s>>} = {}
      OBVIOUS
    <3>1. s \notin {"policy", "oauth"}
      BY <1>9 DEF Ready, HasHealthcheck
    <3> QED
      BY <2>1, <2>5, <3>1 DEF KeyStep
  <2>7. <<a, x>> # <<"deploy", "nebula">>
    BY <1>9
  <2> HIDE DEF S, sure
  <2> QED
    BY <1>5, <2>2, <2>3, <2>4, <2>6, <2>7
<1>10. CASE a = "health" /\ x \in {"explorer", "playground"} /\ Product[x] \in env
  <2>1. PICK T : T = {<<"load", Product[x]>>, <<"health", x>>}
    OBVIOUS
  <2>2. S \in Seq(T)
    BY <1>10, <2>1, ServiceScripts
  <2>3. /\ T \cap ({"load"} \X (Names \ env)) = {} /\ T \cap ({"key"} \X (Names \ keys)) = {}
        /\ T \cap ({"ifkey"} \X Names) = {} /\ T \cap {<<"initialize", "oauth">>} = {}
        /\ \A s : T \cap {<<"up", s>>} = {} /\ T \cap {<<"probe", s>>} = {}
    BY <1>10, <2>1
  <2>4. <<a, x>> # <<"deploy", "nebula">>
    BY <1>10
  <2> HIDE DEF S, sure
  <2> QED
    BY <1>5, <2>2, <2>3, <2>4
<1>11. <<a, x>> = <<"deploy", "nebula">> => <<a, x>>[1] = "deploy" /\ <<a, x>>[2] = "nebula"
  BY Zenon
<1> HIDE DEF S, sure
<1>12. CASE <<a, x>> = <<"deploy", "nebula">>
  <2>1. a = "deploy" /\ x = "nebula"
    BY <1>12
  <2> QED
    BY <1>4, <2>1
<1>13. CASE <<a, x>> # <<"deploy", "nebula">>
  BY <1>4, <1>6, <1>7, <1>8, <1>9, <1>10, <1>13
<1> QED
  BY <1>12, <1>13

-----------------------------------------------------------------------------
(* The phase of an attempt *)

\* How far a phase has come when its next command begins.
LEMMA NextCommand ==
  ASSUME MakeInv, phase \in Phases, PhaseInv, RunNext
  PROVE  /\ Begun \in 0 .. Len(PhaseCommands(phase)) - 1 /\ Begun' = Begun + 1
         /\ Begin(PhaseCommands(phase)[Begun + 1][1], PhaseCommands(phase)[Begun + 1][2])
         /\ \A j \in 1 .. Len(make') : make'[j] = PhaseCommands(phase)[Begun' + j]
         /\ phase' = phase /\ script = <<>>
         /\ Begun > 0 => failure = "none"
<1> DEFINE C == PhaseCommands(phase)
<1>1. make # <<>> /\ make' = Tail(make) /\ phase' = phase /\ script = <<>>
      /\ Begin(Head(make)[1], Head(make)[2])
  BY DEF RunNext, Begin, Running
<1>2. /\ Len(Tail(make)) = Len(make) - 1 /\ Len(make) \in Nat \ {0} /\ Head(make) = make[1]
      /\ \A i \in 1 .. Len(make) - 1 : Tail(make)[i] = make[i + 1]
  BY <1>1, TailFact DEF MakeInv
<1>3. Len(C) \in Nat
  BY PhaseList DEF Phases
<1>4. Begun = Len(C) - Len(make) /\ Begun' = Len(C) - Len(make')
      /\ \A j \in 1 .. Len(make) : make[j] = C[Begun + j]
  BY <1>1 DEF Begun, PhaseInv
<1>5. Begun \in 0 .. Len(C)
  BY DEF PhaseInv
<1>9. Begun > 0 => failure = "none"
  <2>1. make = C => Begun = 0
    BY <1>3, <1>4
  <2> QED
    BY <2>1 DEF RunNext, InOrder
<1> HIDE DEF C
<1>6. Begun' = Begun + 1 /\ Begun \in 0 .. Len(C) - 1
  BY <1>1, <1>2, <1>3, <1>4, <1>5
<1>7. Head(make) = C[Begun + 1]
  BY <1>2, <1>4
<1>8. \A j \in 1 .. Len(make') : make'[j] = C[Begun' + j]
  <2> SUFFICES ASSUME NEW j \in 1 .. Len(make') PROVE make'[j] = C[Begun' + j]
    OBVIOUS
  <2>1. j \in 1 .. Len(make) - 1 /\ j + 1 \in 1 .. Len(make)
    BY <1>1, <1>2
  <2>2. make'[j] = make[j + 1] /\ make[j + 1] = C[Begun + (j + 1)]
    BY <1>1, <1>2, <1>4, <2>1
  <2>3. Begun + (j + 1) = Begun' + j
    BY <1>3, <1>6
  <2> QED
    BY <2>2, <2>3
<1> QED
  BY <1>1, <1>6, <1>7, <1>8, <1>9 DEF C

\* The durable files of all products of the platform: what the stack starts
\* with, and what the applications start over.
LEMMA FilesOfPlatform ==
  /\ Created("policy") \cup Created("nebula") \cup Created("oauth") \subseteq files =>
       \A s \in Services \ {"playground"} : Provided(s)
  /\ Created("nebula") \subseteq files => "database" \in files
  /\ Created("explorer") \cup {"database", "core", "copy"} \subseteq files => Provided("explorer")
  /\ Created("playground") \subseteq files => Provided("playground")
BY NamesFact DEF Provided, Created, Owned, Mounts, Starts, DependsOn, AllServices

\* The next command of a phase meets its checks over what the others brought.
LEMMA PhaseBegins ==
  ASSUME InstallerInv, phase \in Phases, PhaseInv, phase = "applications" => Able3, RunNext
  PROVE  PhaseInv'
<1> DEFINE C == PhaseCommands(phase)
           n == Begun
           a == C[n + 1][1]
           x == C[n + 1][2]
<1>1. /\ n \in 0 .. Len(C) - 1 /\ Begun' = n + 1 /\ Begin(a, x)
      /\ \A j \in 1 .. Len(make') : make'[j] = C[Begun' + j]
      /\ phase' = phase /\ script = <<>> /\ (n > 0 => failure = "none")
  BY NextCommand DEF InstallerInv
<1>2. /\ script' = Script(a, x) /\ command' = <<a, x>>
      /\ UNCHANGED <<env, status, files, keys, vaulted>>
  BY <1>1 DEF Begin
<1>3. Len(C) \in {3, 6} /\ (phase # "platform" /\ phase # "applications" => Len(C) = 3)
  BY PhaseList DEF Phases
<1>d. n \in 0 .. Len(C) - 1 /\ Begin(a, x)
  BY <1>1
<1>e. n \in {0, 1, 2, 3, 4, 5}
  BY <1>d, <1>3
<1>4. \A X : ~Has(script, X)
  BY <1>1, ComesEmpty
<1>5. \A R : Ready(R)' <=> Ready(R)
  BY <1>2 DEF Ready
<1>n. {"nebula", "explorer", "playground", "policy", "oauth"} \subseteq Named
  BY DEF Named, AllServices
<1>p. /\ Product["explorer"] = "nebula" /\ Product["playground"] = "playground"
      /\ Product["policy"] = "policy" /\ Product["nebula"] = "nebula" /\ Product["oauth"] = "oauth"
  BY DEF Product, AllServices
<1>7. CASE phase # "applications"
  <2>1. /\ n >= 1 => "policy" \in env /\ Created("policy") \subseteq files
        /\ n >= 2 => "nebula" \in env /\ Created("nebula") \subseteq files
        /\ n >= 3 => "oauth" \in env /\ Created("oauth") \subseteq files
        /\ n >= 5 => Ready({"core"})
    BY <1>1, <1>4, <1>7 DEF PhaseInv, Progress, Brings
  <2>2. /\ n = 0 => a = "init" /\ x = "policy"
        /\ n = 1 => a = "init" /\ x = "nebula"
        /\ n = 2 => a = "init" /\ x = "oauth"
        /\ n = 3 => a = "deploy" /\ x = "nebula"
        /\ n = 4 => a = "health" /\ x = "nebula"
        /\ n = 5 => a = "bootstrap" /\ x = "nebula"
    BY <1>1, <1>3, <1>7, PhaseList DEF Phases
  <2> HIDE DEF C, n, a, x
  <2>6. Meets'
    <3>1. CASE n \in {0, 1}
      <4>1. a = "init" /\ x \in Named /\ x # "oauth"
        BY <1>n, <2>2, <3>1
      <4> QED
        BY <1>d, <4>1, MeetsBegin
    <3>5. CASE n = 2
      <4>1. a = "init" /\ x \in Named /\ "database" \in files
        BY <1>n, <2>1, <2>2, <3>5, FilesOfPlatform
      <4> QED
        BY <1>d, <4>1, MeetsBegin
    <3>2. CASE n = 3
      <4>1. a = "deploy" /\ x = "nebula"
        BY <2>2, <3>2
      <4>2. {"nebula", "policy", "oauth"} \subseteq env
        BY <2>1, <3>2
      <4>3. \A s \in Services \ {"playground"} : Provided(s)
        BY <2>1, <3>2, FilesOfPlatform
      <4> QED
        BY <1>d, <4>1, <4>2, <4>3, MeetsBegin
    <3>3. CASE n = 4
      <4>1. a = "health" /\ x = "nebula" /\ "nebula" \in env
        BY <2>1, <2>2, <3>3
      <4> QED
        BY <1>d, <4>1, MeetsBegin
    <3>4. CASE n = 5
      <4>1. a = "bootstrap" /\ x = "nebula" /\ "nebula" \in env /\ Ready({"core"})
        BY <2>1, <2>2, <3>4
      <4> QED
        BY <1>d, <4>1, MeetsBegin
    <3> QED
      BY <1>e, <3>1, <3>2, <3>3, <3>4, <3>5
  <2>7. /\ n = 0 => Has(script', {<<"generate", "policy">>})
                    /\ Has(script', {<<"initialize", "policy">>})
        /\ n = 1 => Has(script', {<<"generate", "nebula">>})
                    /\ Has(script', {<<"initialize", "nebula">>})
        /\ n = 2 => Has(script', {<<"generate", "oauth">>})
                    /\ Has(script', {<<"initialize", "oauth">>})
        /\ n = 4 => Has(script', {<<"health", "core">>})
    BY <1>2, <1>n, <1>p, <2>2, InitScript, StackScripts
  <2>8. Progress'
    <3>1. /\ Brings(1, "policy" \in env, <<"generate", "policy">>)'
          /\ Brings(2, "nebula" \in env, <<"generate", "nebula">>)'
          /\ Brings(3, "oauth" \in env, <<"generate", "oauth">>)'
      BY <1>1, <1>2, <2>1, <1>e, <2>7 DEF Brings
    <3>2. /\ Brings(1, Created("policy") \subseteq files, <<"initialize", "policy">>)'
          /\ Brings(2, Created("nebula") \subseteq files, <<"initialize", "nebula">>)'
          /\ Brings(3, Created("oauth") \subseteq files, <<"initialize", "oauth">>)'
      BY <1>1, <1>2, <2>1, <1>e, <2>7 DEF Brings
    <3>3. Brings(5, Ready({"core"}), <<"health", "core">>)'
      BY <1>1, <1>5, <2>1, <1>e, <2>7 DEF Brings
    <3> QED
      BY <1>1, <1>7, <3>1, <3>2, <3>3 DEF Progress
  <2>9. command' = C[Begun'] /\ Begun' \in 0 .. Len(C) /\ Begun' > 0
    <3>1. /\ n = 0 => C[n + 1] = <<"init", "policy">>
          /\ n = 1 => C[n + 1] = <<"init", "nebula">>
          /\ n = 2 => C[n + 1] = <<"init", "oauth">>
          /\ n = 3 => C[n + 1] = <<"deploy", "nebula">>
          /\ n = 4 => C[n + 1] = <<"health", "nebula">>
          /\ n = 5 => C[n + 1] = <<"bootstrap", "nebula">>
      <4>1. C[1] = <<"init", "policy">> /\ C[2] = <<"init", "nebula">> /\ C[3] = <<"init", "oauth">>
        BY <1>7, PhaseList DEF C, Phases
      <4>2. n >= 3 => phase = "platform"
        <5>1. n \in 0 .. Len(C) - 1
          BY <1>1
        <5>2. Len(C) \in {3, 6} /\ (phase # "platform" => Len(C) = 3)
          BY <1>3, <1>7
        <5>3. Len(C) = 3 => n <= 2
          BY <1>e, <5>1
        <5> QED
          BY <1>e, <5>2, <5>3
      <4>3. phase = "platform" =>
              C[4] = <<"deploy", "nebula">> /\ C[5] = <<"health", "nebula">>
              /\ C[6] = <<"bootstrap", "nebula">>
        BY PhaseList DEF C
      <4> QED
        BY <1>e, <4>1, <4>2, <4>3
    <3>2. C[n + 1] = <<a, x>>
      BY <1>e, <2>2, <3>1
    <3> QED
      BY <1>1, <1>2, <1>3, <3>2
  <2> QED
    BY <1>1, <2>6, <2>8, <2>9 DEF PhaseInv, C
<1>8. CASE phase = "applications"
  <2>1. /\ n >= 1 => "nebula" \in env /\ KeyOwners \subseteq keys /\ Created("explorer") \subseteq files
        /\ n >= 4 => "playground" \in env /\ Created("playground") \subseteq files
    BY <1>1, <1>4, <1>8 DEF PhaseInv, Progress, Brings
  <2>2. /\ n = 0 => a = "init" /\ x = "explorer"
        /\ n = 1 => a = "deploy" /\ x = "explorer"
        /\ n = 2 => a = "health" /\ x = "explorer"
        /\ n = 3 => a = "init" /\ x = "playground"
        /\ n = 4 => a = "deploy" /\ x = "playground"
        /\ n = 5 => a = "health" /\ x = "playground"
    BY <1>1, <1>3, <1>8, PhaseList DEF Phases
  <2>3. Ready({"policy", "oauth"}) /\ {"database", "core", "copy"} \subseteq files
    BY <1>8 DEF Able3
  <2> HIDE DEF C, n, a, x
  <2>6. Meets'
    <3>1. CASE n \in {0, 3}
      <4>1. a = "init" /\ x \in Named /\ x # "oauth"
        BY <1>n, <2>2, <3>1
      <4> QED
        BY <1>d, <4>1, MeetsBegin
    <3>2. CASE n = 1
      <4>1. a = "deploy" /\ x = "explorer"
        BY <2>2, <3>2
      <4>2. "nebula" \in env /\ KeyOwners \subseteq keys /\ Provided("explorer")
        BY <2>1, <2>3, <3>2, FilesOfPlatform
      <4>3. x \in {"explorer", "playground"} /\ Product[x] \in env /\ Provided(x)
        BY <1>p, <4>1, <4>2
      <4> QED
        BY <1>d, <2>3, <4>1, <4>2, <4>3, MeetsBegin
    <3>3. CASE n = 2
      <4>1. a = "health" /\ x \in {"explorer", "playground"} /\ Product[x] \in env
        BY <1>p, <2>1, <2>2, <3>3
      <4> QED
        BY <1>d, <4>1, MeetsBegin
    <3>4. CASE n = 4
      <4>1. a = "deploy" /\ x = "playground"
        BY <2>2, <3>4
      <4>2. "playground" \in env /\ KeyOwners \subseteq keys /\ Provided("playground")
        BY <2>1, <3>4, FilesOfPlatform
      <4>3. x \in {"explorer", "playground"} /\ Product[x] \in env /\ Provided(x)
        BY <1>p, <4>1, <4>2
      <4> QED
        BY <1>d, <2>3, <4>1, <4>2, <4>3, MeetsBegin
    <3>5. CASE n = 5
      <4>1. a = "health" /\ x \in {"explorer", "playground"} /\ Product[x] \in env
        BY <1>p, <2>1, <2>2, <3>5
      <4> QED
        BY <1>d, <4>1, MeetsBegin
    <3> QED
      BY <1>e, <3>1, <3>2, <3>3, <3>4, <3>5
  <2>7. /\ n = 0 => Has(script', {<<"generate", "nebula">>})
                    /\ Has(script', {<<"initialize", "explorer">>})
        /\ n = 3 => Has(script', {<<"generate", "playground">>})
                    /\ Has(script', {<<"initialize", "playground">>})
    BY <1>2, <1>n, <1>p, <2>2, InitScript
  <2>8. Progress'
    <3>1. /\ Brings(1, "nebula" \in env, <<"generate", "nebula">>)'
          /\ Brings(4, "playground" \in env, <<"generate", "playground">>)'
      BY <1>1, <1>2, <2>1, <1>e, <2>7 DEF Brings
    <3>2. /\ Brings(1, KeyOwners \subseteq keys, <<"initialize", "explorer">>)'
          /\ Brings(1, Created("explorer") \subseteq files, <<"initialize", "explorer">>)'
          /\ Brings(4, Created("playground") \subseteq files, <<"initialize", "playground">>)'
      BY <1>1, <1>2, <2>1, <1>e, <2>7 DEF Brings
    <3> QED
      BY <1>1, <1>8, <3>1, <3>2 DEF Progress
  <2>9. command' = C[Begun'] /\ Begun' \in 0 .. Len(C) /\ Begun' > 0
    BY <1>1, <1>2, <1>3, <1>e, <2>2, <1>8, PhaseList DEF C, a, x
  <2> QED
    BY <1>1, <2>6, <2>8, <2>9 DEF PhaseInv, C
<1> QED
  BY <1>7, <1>8

\* The commands of a phase stop and remove nothing, and after a platform
\* deploy they only look; those of prepare only initialize.
LEMMA PhaseGentle ==
  ASSUME NEW ph \in Phases, NEW n \in 1 .. Len(PhaseCommands(ph))
  PROVE  /\ PhaseCommands(ph)[n][1] \in Gentle
         /\ ph # "applications" /\ n >= 5 =>
              PhaseCommands(ph)[n][1] \in {"health", "bootstrap"}
         /\ ph = "prepare" => PhaseCommands(ph)[n][1] = "init"
<1>m. PICK m : m = Len(PhaseCommands(ph))
  OBVIOUS
<1>l. m \in {3, 6} /\ (ph = "prepare" => m = 3)
  BY <1>m, PhaseList DEF Phases
<1>i. n \in 1 .. m
  BY <1>m
<1>1. n \in {1, 2, 3, 4, 5, 6}
  BY <1>i, <1>l
<1>2. CASE ph = "applications"
  BY <1>1, <1>2, PhaseList DEF Gentle
<1>3. CASE ph = "prepare"
  <2>1. n \in {1, 2, 3}
    BY <1>3, <1>i, <1>l
  <2> QED
    BY <1>3, <2>1, PhaseList DEF Gentle
<1>4. CASE ph = "platform"
  BY <1>1, <1>4, PhaseList DEF Gentle
<1> QED
  BY <1>2, <1>3, <1>4 DEF Phases

\* A phase whose commands have begun runs one of them.
LEMMA PhaseRuns ==
  ASSUME phase \in Phases, PhaseInv, Begun > 0
  PROVE  /\ Meets /\ command[1] \in Gentle
         /\ phase # "applications" /\ Begun >= 5 => command[1] \in {"health", "bootstrap"}
         /\ phase = "prepare" => command[1] = "init"
<1> DEFINE b == Begun
<1>1. Len(PhaseCommands(phase)) \in Nat
  BY PhaseList DEF Phases
<1>2. b \in 1 .. Len(PhaseCommands(phase))
  BY <1>1 DEF PhaseInv
<1>3. command = PhaseCommands(phase)[b] /\ Meets
  BY DEF PhaseInv
<1> HIDE DEF b
<1>4. /\ PhaseCommands(phase)[b][1] \in Gentle
      /\ phase # "applications" /\ b >= 5 =>
           PhaseCommands(phase)[b][1] \in {"health", "bootstrap"}
      /\ phase = "prepare" => PhaseCommands(phase)[b][1] = "init"
  BY <1>2, PhaseGentle
<1> QED
  BY <1>3, <1>4 DEF b

\* A step of the host that only adds keeps what an applications attempt
\* relies on.
LEMMA AbleStays ==
  ASSUME Able3,
         \A s \in Services : s \in HasHealthcheck /\ status[s] = "ready" => status'[s] = "ready",
         keys \subseteq keys', vaulted' = vaulted, files \subseteq files'
  PROVE  Able3'
BY DEF Able3, Ready, HasHealthcheck

\* A step of the phase's command keeps what the phase relies on.
LEMMA PhaseExecutes ==
  ASSUME InstallerInv, phase \in Phases, PhaseInv, phase = "applications" => Able3,
         Execute, UNCHANGED installVars
  PROVE  PhaseInv' /\ (phase = "applications" => Able3')
<1>1. ShapeInv /\ DeployInv
  BY DEF InstallerInv, HostInv
<1>2. command' = command /\ Running
  BY ExecuteKeeps
<1>3. phase' = phase /\ make' = make
  BY DEF installVars
<1>4. Begun' = Begun
  BY <1>3 DEF Begun
<1>5. Begun > 0
  <2>1. Begun \in 0 .. Len(PhaseCommands(phase)) /\ Begun # 0
    BY <1>2 DEF PhaseInv
  <2>2. Len(PhaseCommands(phase)) \in Nat
    BY PhaseList DEF Phases
  <2> QED
    BY <2>1, <2>2
<1>6. /\ Meets /\ command[1] \in Gentle
      /\ phase # "applications" /\ Begun >= 5 => command[1] \in {"health", "bootstrap"}
  BY <1>5, PhaseRuns
<1>m. failure = "none" /\ ("database" \in files \/ Head(script) # <<"initialize", "oauth">>)
  BY <1>1, <1>2, <1>6, MeetsFirst DEF Meets, Running
<1>7. /\ env \subseteq env' /\ keys \subseteq keys' /\ files \subseteq files' /\ vaulted' = vaulted
      /\ \A s \in Services : s \in HasHealthcheck /\ status[s] = "ready" => status'[s] = "ready"
      /\ command[1] # "deploy" => status' = status
      /\ \A p : Head(script) = <<"generate", p>> => p \in env'
      /\ \A x : Head(script) = <<"initialize", x>> =>
           vaulted \subseteq keys' /\ Created(x) \subseteq files'
      /\ Head(script) = <<"health", "core">> => status'["core"] = "ready" \/ failure' = "health"
  <2>1. \A x : Head(script) = <<"initialize", x>> =>
          \/ Created(x) \subseteq files' /\ failure' = failure
          \/ x = "oauth" /\ "database" \notin files /\ failure' = "files"
    BY <1>1, <1>6, GentleStep
  <2>2. \A x : Head(script) = <<"initialize", x>> => Created(x) \subseteq files'
    BY <1>m, <2>1
  <2> QED
    BY <1>1, <1>6, <2>2, GentleStep
<1>8. /\ Meets'
      /\ \A x : Has(script, {x}) => x = Head(script) \/ Has(script', {x}) \/ failure' # "none"
  BY <1>1, <1>6, MeetsStep
<1>10. ASSUME NEW n, NEW p, Brings(n, p \in env, <<"generate", p>>)
       PROVE  Brings(n, p \in env, <<"generate", p>>)'
  BY <1>4, <1>7, <1>8, <1>m, <1>10 DEF Brings
<1>11. ASSUME NEW n, NEW x, Brings(n, Created(x) \subseteq files, <<"initialize", x>>)
       PROVE  Brings(n, Created(x) \subseteq files, <<"initialize", x>>)'
  <2>1. Created(x) \subseteq files => Created(x) \subseteq files'
    BY <1>7
  <2>2. Head(script) = <<"initialize", x>> => Created(x) \subseteq files'
    BY <1>7
  <2> QED
    BY <1>4, <1>8, <1>m, <1>11, <2>1, <2>2 DEF Brings
<1>12. CASE phase # "applications"
  <2>1. /\ Brings(1, "policy" \in env, <<"generate", "policy">>)'
        /\ Brings(2, "nebula" \in env, <<"generate", "nebula">>)'
        /\ Brings(3, "oauth" \in env, <<"generate", "oauth">>)'
        /\ Brings(1, Created("policy") \subseteq files, <<"initialize", "policy">>)'
        /\ Brings(2, Created("nebula") \subseteq files, <<"initialize", "nebula">>)'
        /\ Brings(3, Created("oauth") \subseteq files, <<"initialize", "oauth">>)'
    BY <1>10, <1>11, <1>12 DEF PhaseInv, Progress
  <2>2. Brings(5, Ready({"core"}), <<"health", "core">>)'
    <3>1. Brings(5, Ready({"core"}), <<"health", "core">>)
      BY <1>12 DEF PhaseInv, Progress
    <3>2. Begun >= 5 => status' = status
      BY <1>6, <1>7, <1>12
    <3>3. Begun >= 5 /\ Ready({"core"}) => Ready({"core"})'
      BY <3>2 DEF Ready
    <3>4. Head(script) = <<"health", "core">> => Ready({"core"})' \/ failure' # "none"
      BY <1>7 DEF Ready
    <3> QED
      BY <1>4, <1>8, <1>m, <3>1, <3>3, <3>4 DEF Brings
  <2> QED
    BY <1>2, <1>3, <1>4, <1>5, <1>8, <1>12, <2>1, <2>2 DEF PhaseInv, Progress
<1>13. CASE phase = "applications"
  <2>1. Able3' /\ KeyOwners \subseteq keys \cup vaulted
    BY <1>7, <1>13, AbleStays DEF Able3
  <2>2. /\ Brings(1, "nebula" \in env, <<"generate", "nebula">>)'
        /\ Brings(4, "playground" \in env, <<"generate", "playground">>)'
        /\ Brings(1, Created("explorer") \subseteq files, <<"initialize", "explorer">>)'
        /\ Brings(4, Created("playground") \subseteq files, <<"initialize", "playground">>)'
    BY <1>10, <1>11, <1>13 DEF PhaseInv, Progress
  <2>4. Brings(1, KeyOwners \subseteq keys, <<"initialize", "explorer">>)'
    <3>1. Brings(1, KeyOwners \subseteq keys, <<"initialize", "explorer">>)
      BY <1>13 DEF PhaseInv, Progress
    <3>2. KeyOwners \subseteq keys => KeyOwners \subseteq keys'
      BY <1>7
    <3>3. Head(script) = <<"initialize", "explorer">> => KeyOwners \subseteq keys'
      BY <1>7, <2>1
    <3> QED
      BY <1>4, <1>8, <1>m, <3>1, <3>2, <3>3 DEF Brings
  <2> QED
    BY <1>2, <1>3, <1>4, <1>5, <1>8, <1>13, <2>1, <2>2, <2>4 DEF PhaseInv, Progress
<1> QED
  BY <1>12, <1>13

\* So does a container that comes back or begins to answer.
LEMMA PhaseRecovers ==
  ASSUME PhaseInv,
         \A s \in Services : status[s] = "ready" => status'[s] = "ready",
         UNCHANGED <<env, files, keys, vaulted, script, command, failure, disturbed>>,
         UNCHANGED installVars
  PROVE  PhaseInv'
<1>1. phase' = phase /\ make' = make /\ Begun' = Begun
  BY DEF installVars, Begun
<1>2. \A R : Ready(R) => Ready(R)'
  BY DEF Ready
<1>3. Meets => Meets'
  <2>1. SUFFICES ASSUME Meets PROVE Meets'
    OBVIOUS
  <2>2. \A s \in Services : Sure(s) \/ Comes(script, {<<"probe", s>>}, {}) =>
          Sure(s)' \/ Comes(script', {<<"probe", s>>}, {})
    BY DEF Sure
  <2>3. \A s : Provided(s)' <=> Provided(s)
    BY DEF Provided
  <2> QED
    BY <2>1, <2>2, <2>3 DEF Meets, Running
<1>4. Progress => Progress'
  <2>1. Brings(5, Ready({"core"}), <<"health", "core">>) =>
          Brings(5, Ready({"core"}), <<"health", "core">>)'
    BY <1>1, <1>2 DEF Brings
  <2>2. ASSUME NEW n, NEW p, Brings(n, p \in env, <<"generate", p>>)
        PROVE  Brings(n, p \in env, <<"generate", p>>)'
    BY <1>1, <2>2 DEF Brings
  <2>3. Brings(1, KeyOwners \subseteq keys, <<"initialize", "explorer">>) =>
          Brings(1, KeyOwners \subseteq keys, <<"initialize", "explorer">>)'
    BY <1>1 DEF Brings
  <2>4. ASSUME NEW n, NEW x, Brings(n, Created(x) \subseteq files, <<"initialize", x>>)
        PROVE  Brings(n, Created(x) \subseteq files, <<"initialize", x>>)'
    BY <1>1, <2>4 DEF Brings
  <2> QED
    BY <1>1, <2>1, <2>2, <2>3, <2>4 DEF Progress
<1> QED
  BY <1>1, <1>3, <1>4 DEF PhaseInv, Running

-----------------------------------------------------------------------------
(* Every step of an attempt *)

\* A fault ends what the attempt may rely on.
LEMMA FaultDisturbs ==
  ASSUME InstallerInv, InstallerTypes, AttemptInv, Fault, UNCHANGED <<step, before>>,
         step \notin {"idle", "phase"} => ~Running'
  PROVE  AttemptInv'
<1>1. before' <= faults' /\ faults' # before'
  BY DEF InstallerInv, HostInv, ShapeInv, HostTypes, InstallerTypes, AttemptInv, Fault
<1> QED
  BY <1>1 DEF AttemptInv, Undisturbed

\* No attempt is running afterwards.
LEMMA IdleAfterwards ==
  ASSUME step' = "idle", before' <= faults'
  PROVE  AttemptInv'
BY DEF AttemptInv, Undisturbed

\* A step of install that leaves the host and the attempt's phase.
LEMMA InstallGoesOn ==
  ASSUME AttemptInv,
         UNCHANGED <<status, files, keys, vaulted, script, failure, faults, phase, before, able>>,
         step # "idle", step' # "idle", ~Running, step' # "phase",
         step' = "logout" => \/ outcome' = "ok" \/ ~Undisturbed
                             \/ failure = "health" /\ phase # "prepare"
  PROVE  AttemptInv'
<1>1. Undisturbed' => Undisturbed
  BY DEF Undisturbed
<1>2. Able3 => Able3'
  BY DEF Able3, Ready
<1>3. ~Running'
  BY DEF Running
<1> QED
  BY <1>1, <1>2, <1>3 DEF AttemptInv

\* A phase fails only when a fault disturbed it, or at a health check.
LEMMA PhaseFailsAtHealth ==
  ASSUME InstallerTypes, AttemptInv, PhaseFails, Undisturbed
  PROVE  failure = "health" /\ phase # "prepare"
<1>1. step = "phase" /\ make # PhaseCommands(phase) /\ failure # "none" /\ phase \in Phases
  BY DEF PhaseFails, InOrder, InstallerTypes
<1>2. PhaseInv
  BY <1>1 DEF AttemptInv
<1>3. Begun > 0
  BY <1>1, <1>2, PhaseList DEF PhaseInv, Phases
<1> QED
  BY <1>1, <1>2, <1>3, PhaseRuns DEF Meets

\* A platform that serves has the files that the applications start over.
LEMMA AbleToStart ==
  ASSUME InstallerInv, Able, UNCHANGED <<status, files, keys, vaulted>>
  PROVE  Able3'
<1>1. {"policy", "oauth", "database", "core"} \subseteq Services
  BY ServicesAssumption DEF AllServices
<1>2. \A s \in {"database", "core"} : Mounts(s) \subseteq files
  BY <1>1 DEF Able, InstallerInv, HostInv, KeyInv, RunsOnItsFiles, Alive
<1>3. {"database", "core", "copy"} \subseteq files
  BY <1>2 DEF Mounts
<1> QED
  BY <1>3 DEF Able, Able3, Ready

\* The steps of install keep the invariant.
LEMMA InstallKeeps ==
  ASSUME InstallerInv, InstallerTypes, AttemptInv, Install
  PROVE  AttemptInv'
<1>f. faults \in Nat /\ before \in Nat
  BY MaxFaultsAssumption DEF InstallerInv, HostInv, ShapeInv, HostTypes, InstallerTypes
<1>1. ASSUME NEW ph \in Phases, StartInstall(ph) PROVE AttemptInv'
  <2>1. /\ step' = "wipe" /\ before' = faults' /\ faults' = faults /\ able' = Able /\ ~Running'
        /\ UNCHANGED <<status, files, keys, vaulted>>
    BY <1>1 DEF StartInstall, hostVars, Running
  <2>2. Able => Able3'
    BY <2>1, AbleToStart
  <2> QED
    BY <1>f, <2>1, <2>2 DEF AttemptInv, Undisturbed
<1>2. CASE Wipe \/ Unpack \/ WriteEnvironment
  <2>1. /\ UNCHANGED <<status, files, keys, vaulted, script, failure, faults, phase, before, able>>
        /\ step \in {"wipe", "unpack", "settings"} /\ step' \in {"unpack", "settings", "login"}
    BY <1>2 DEF Wipe, Unpack, WriteEnvironment, hostVars
  <2> QED
    BY <2>1, InstallGoesOn DEF AttemptInv
<1>3. CASE Login
  <2>1. /\ UNCHANGED <<status, files, keys, vaulted, script, faults, phase, before, able>>
        /\ step = "login" /\ step' = "phase" /\ make' = PhaseCommands(phase)
    BY <1>3 DEF Login, hostVars
  <2>2. Len(PhaseCommands(phase)) \in Nat
    BY PhaseList DEF Phases, InstallerTypes
  <2>3. Begun' = 0 /\ phase' = phase
    BY <2>1, <2>2 DEF Begun
  <2>4. ~Running'
    BY <2>1 DEF AttemptInv, Running
  <2>5. \A j \in 1 .. Len(make') : make'[j] = PhaseCommands(phase)[Begun' + j]
    BY <2>1, <2>3
  <2>6. Progress'
    BY <2>3 DEF Progress, Brings
  <2>7. PhaseInv'
    BY <2>1, <2>2, <2>3, <2>4, <2>5, <2>6 DEF PhaseInv
  <2>8. (Undisturbed' => Undisturbed) /\ (Able3 => Able3')
    BY <2>1 DEF Undisturbed, Able3, Ready
  <2> QED
    BY <2>1, <2>7, <2>8 DEF AttemptInv
<1>4. CASE RunNext
  <2>1. /\ step = "phase" /\ step' = "phase"
        /\ UNCHANGED <<status, files, keys, vaulted, faults, phase, before, able>>
    BY <1>4 DEF RunNext, Begin
  <2>2. (Undisturbed' => Undisturbed) /\ (Able3 => Able3')
    BY <2>1 DEF Undisturbed, Able3, Ready
  <2>3. Undisturbed => PhaseInv'
    BY <1>4, <2>1, PhaseBegins DEF AttemptInv, InstallerTypes
  <2> QED
    BY <2>1, <2>2, <2>3 DEF AttemptInv
<1>5. CASE PhaseFails
  <2>1. /\ UNCHANGED <<status, files, keys, vaulted, script, failure, faults, phase, before, able>>
        /\ step = "phase" /\ step' = "logout" /\ ~Running
    BY <1>5 DEF PhaseFails, hostVars
  <2> QED
    BY <1>5, <2>1, PhaseFailsAtHealth, InstallGoesOn
<1>6. CASE PhaseDone
  <2>1. /\ UNCHANGED <<status, files, keys, vaulted, script, failure, faults, phase, before, able>>
        /\ step = "phase" /\ step' = "logout" /\ ~Running /\ outcome' = "ok"
    BY <1>6 DEF PhaseDone, hostVars
  <2> QED
    BY <2>1, InstallGoesOn
<1>7. CASE Logout
  <2>1. step' = "idle" /\ before' = 0 /\ faults' = faults
    BY <1>7 DEF Logout, Leave, hostVars
  <2> QED
    BY <1>f, <2>1, IdleAfterwards
<1> QED
  BY <1>1, <1>2, <1>3, <1>4, <1>5, <1>6, <1>7 DEF Install

\* So does every other step: what breaks the attempt off, and what happens to
\* the commands and the containers on the VM.
LEMMA AttemptStep ==
  ASSUME InstallerInv, InstallerTypes, AttemptInv, [InstallerNext]_allVars
  PROVE  AttemptInv'
<1>f. faults \in Nat /\ before \in Nat
  BY MaxFaultsAssumption DEF InstallerInv, HostInv, ShapeInv, HostTypes, InstallerTypes
<1>1. CASE Install
  BY <1>1, InstallKeeps
<1>2. CASE InstallFails \/ LoginFails \/ LogoutFails
  <2>1. step' = "idle" /\ before' = 0 /\ faults' = faults + 1
    BY <1>2 DEF InstallFails, LoginFails, LogoutFails, Abandon, Leave, Fault
  <2> QED
    BY <1>f, <2>1, IdleAfterwards
<1>3. CASE Rebuild
  BY <1>3, FaultDisturbs DEF Rebuild
<1>4. CASE OperateOnVm
  <2>1. step' = "idle" /\ before' = before /\ faults' = faults
    BY <1>4 DEF OperateOnVm, Operate, Begin, ImportKey
  <2> QED
    BY <2>1, IdleAfterwards DEF AttemptInv
<1>5. CASE Execute /\ UNCHANGED installVars
  <2>1. /\ Running /\ UNCHANGED <<vaulted, command, disturbed, faults>>
        /\ UNCHANGED <<step, phase, before, able, outcome>>
    BY <1>5, ExecuteKeeps DEF installVars
  <2>2. step \in {"idle", "phase"}
    BY <2>1 DEF AttemptInv
  <2>3. Undisturbed' => Undisturbed
    BY <2>1 DEF Undisturbed
  <2>4. Undisturbed => PhaseInv' /\ (phase = "applications" => Able3')
    <3>1. ASSUME Undisturbed PROVE PhaseInv /\ (phase = "applications" => Able3)
      BY <2>2, <3>1 DEF Undisturbed, AttemptInv
    <3> QED
      BY <1>5, <3>1, PhaseExecutes DEF InstallerTypes
  <2> QED
    BY <2>1, <2>2, <2>3, <2>4 DEF AttemptInv
<1>6. CASE Disturb /\ UNCHANGED installVars
  <2>1. UNCHANGED <<step, phase, before, able, outcome>>
    BY <1>6 DEF installVars
  <2>2. /\ UNCHANGED <<env, files, keys, vaulted, command>>
        /\ \/ Fault /\ (UNCHANGED script \/ script' = <<>>)
           \/ /\ \E s \in Services : Recover(s) \/ Listen(s)
              /\ UNCHANGED <<script, failure, disturbed, faults>>
    BY <1>6, DisturbFact DEF Ended
  <2>3. ASSUME Fault, UNCHANGED script \/ script' = <<>> PROVE AttemptInv'
    BY <2>1, <2>3, FaultDisturbs DEF AttemptInv, Running
  <2>4. ASSUME NEW s \in Services, Recover(s) \/ Listen(s),
               UNCHANGED <<script, failure, disturbed, faults>>
        PROVE  AttemptInv'
    <3>1. \A t \in Services : status[t] = "ready" => status'[t] = "ready"
      BY <2>4 DEF Recover, Listen, InstallerInv, HostInv, ShapeInv, HostTypes
    <3>2. PhaseInv => PhaseInv'
      BY <1>6, <2>2, <2>4, <3>1, PhaseRecovers
    <3>3. Able3 => Able3'
      BY <2>2, <3>1, AbleStays
    <3>4. Undisturbed' => Undisturbed
      BY <2>1, <2>4 DEF Undisturbed
    <3> QED
      BY <2>1, <2>4, <3>2, <3>3, <3>4 DEF AttemptInv, Running
  <2> QED
    BY <2>2, <2>3, <2>4
<1>7. CASE UNCHANGED allVars
  <2>1. PhaseInv => PhaseInv'
    <3>1. Begun' = Begun /\ (Meets => Meets')
      BY <1>7 DEF allVars, Begun, Meets, Sure, Provided, Running
    <3>2. Progress => Progress'
      BY <1>7, <3>1 DEF allVars, Progress, Brings, Ready
    <3> QED
      BY <1>7, <3>1, <3>2 DEF allVars, PhaseInv, Running
  <2>2. Able3 => Able3'
    BY <1>7 DEF allVars, Able3, Ready
  <2> QED
    BY <1>7, <2>1, <2>2 DEF allVars, AttemptInv, Undisturbed, Running
<1> QED
  BY <1>1, <1>2, <1>3, <1>4, <1>5, <1>6, <1>7 DEF InstallerNext, InstallerFaults, OnVm

\* An attempt that no fault disturbs finds every environment file, durable
\* file, key and prerequisite it needs, whatever broke the attempts before it
\* and left the VM with: a prepare phase succeeds, and a platform phase or,
\* when the platform serves and its keys are at hand, an applications phase
\* can fail only at a health check.
THEOREM FaultFreeAttempts == InstallerSpec => []FaultFreeAttemptSucceeds
<1>1. InstallerInit => AttemptInv /\ InstallerTypes
  <2>1. 0 \in 0 .. MaxFaults
    BY MaxFaultsAssumption
  <2>2. InstallerInit => AttemptInv
    BY DEF InstallerInit, HostInit, AttemptInv, Undisturbed
  <2>3. InstallerInit => InstallerTypes
    BY <2>1 DEF InstallerInit, InstallerTypes, Step, Phases
  <2> QED
    BY <2>2, <2>3
<1>2. InstallerInv /\ InstallerTypes /\ AttemptInv /\ [InstallerNext]_allVars =>
        AttemptInv' /\ InstallerTypes'
  BY AttemptStep, InstallerTypesStep DEF InstallerInv
<1>3. AttemptInv => FaultFreeAttemptSucceeds
  BY DEF AttemptInv, Undisturbed, FaultFreeAttemptSucceeds
<1> QED
  BY <1>1, <1>2, <1>3, InstallerInvariant, PTL DEF InstallerSpec

=============================================================================
