-------------------------- MODULE RemoteInstaller ---------------------------
(***************************************************************************)
(* deployment/remote_application.py: OciRemoteApplicationInstaller.        *)
(* install transfers the deployment sources to the OCI VM over SSH, logs   *)
(* in to the image registry, runs the phase's make commands there, which   *)
(* are commands of LifecycleStack, and logs out.  Any SSH command can fail *)
(* and the installer can be killed; the operator runs it again, imports    *)
(* keys, runs lifecycle commands on the VM, or rebuilds the VM.            *)
(*                                                                         *)
(* ANU_HOME on the VM is /opt/agent-nebula, so the sources and the         *)
(* generated environment files share the directory /opt/agent-nebula/      *)
(* deploy.                                                                 *)
(***************************************************************************)
EXTENDS LifecycleStack

VARIABLES
  step,       \* next step of install, or "idle"
  phase,      \* phase of the running attempt
  make,       \* make commands left of the phase
  outcome,    \* how its commands ended
  sources,    \* the sources are complete on the VM
  settings,   \* config/oci-runtime.env exists on the VM
  creds,      \* the registry token is in the VM's Docker configuration
  cut,        \* history: SSH failed or install was killed with creds there
  before,     \* history: faults when the attempt began
  able,       \* history: the platform served and had the keys then
  installed   \* history: applications was installed; only stops since

installVars == <<step, phase, make, outcome, sources, settings, creds,
                 cut, before, able, installed>>

allVars == <<env, status, files, stored, keys, vaulted, script, command, failure, disturbed,
             leftover, faults, step, phase, make, outcome, sources, settings,
             creds, cut, before, able, installed>>

Phases == {"prepare", "platform", "applications"}

Step == {"idle", "wipe", "unpack", "settings", "login", "phase", "logout"}

InstallerTypeOK ==
  /\ TypeOK
  /\ step \in Step
  /\ phase \in Phases
  /\ make \in Seq(Command)
  /\ outcome \in {"none", "ok", "failed"}
  /\ {sources, settings, creds, cut, able, installed} \subseteq BOOLEAN
  /\ before \in 0 .. MaxFaults

InstallerInit ==
  /\ HostInit
  /\ step = "idle"
  /\ phase = "prepare"
  /\ make = <<>>
  /\ outcome = "none"
  /\ sources = FALSE
  /\ settings = FALSE
  /\ creds = FALSE
  /\ cut = FALSE
  /\ before = 0
  /\ able = FALSE
  /\ installed = FALSE

\* Mutant of PhaseCommands: applications relies on the existing environment.
PhaseCommandsWithoutInit(ph) ==
  LET Init == Each("init", <<"policy", "nebula", "oauth">>)
  IN CASE ph = "prepare" -> Init
       [] ph = "platform" ->
            Init \o <<<<"deploy", "nebula">>, <<"health", "nebula">>, <<"bootstrap", "nebula">>>>
       [] OTHER -> <<<<"deploy", "explorer">>, <<"health", "explorer">>, <<"init", "playground">>,
                     <<"deploy", "playground">>, <<"health", "playground">>>>

\* _phase_commands.
PhaseCommands(ph) ==
  LET Init == Each("init", <<"policy", "nebula", "oauth">>)
  IN CASE ph = "prepare" -> Init
       [] ph = "platform" ->
            Init \o <<<<"deploy", "nebula">>, <<"health", "nebula">>, <<"bootstrap", "nebula">>>>
       [] OTHER -> Each("init", <<"explorer">>)
            \o <<<<"deploy", "explorer">>, <<"health", "explorer">>, <<"init", "playground">>,
                 <<"deploy", "playground">>, <<"health", "playground">>>>

-----------------------------------------------------------------------------
(* install *)

\* The installer process ends.
Leave ==
  /\ step' = "idle"
  /\ phase' = "prepare"
  /\ make' = <<>>
  /\ outcome' = "none"
  /\ before' = 0
  /\ able' = FALSE

Able ==
  /\ \A s \in {"policy", "database", "core", "oauth"} : status[s] = "ready"
  /\ KeyOwners \subseteq keys \cup vaulted

\* Waiting for cloud-init and copying the bundles, and later preparing the
\* Python environment, change nothing modelled: a failure there is a failure
\* at the start of the next step.
StartInstall(ph) ==
  /\ step = "idle" /\ ~Running
  /\ step' = "wipe"
  /\ phase' = ph
  /\ outcome' = "none"
  /\ before' = faults
  /\ able' = Able
  /\ installed' = FALSE
  /\ UNCHANGED <<hostVars, make, sources, settings, creds, cut>>

\* rm -rf /opt/agent-nebula/deploy/*
Wipe ==
  /\ step = "wipe"
  /\ sources' = FALSE
  /\ settings' = FALSE
  /\ env' = {}
  /\ step' = "unpack"
  /\ UNCHANGED <<status, files, stored, keys, vaulted, script, command, failure, disturbed,
                 leftover, faults, phase, make, outcome, creds, cut, before, able, installed>>

Unpack ==
  /\ step = "unpack"
  /\ sources' = TRUE
  /\ step' = "settings"
  /\ UNCHANGED <<hostVars, phase, make, outcome, settings, creds, cut, before, able, installed>>

WriteEnvironment ==
  /\ step = "settings"
  /\ settings' = TRUE
  /\ step' = "login"
  /\ UNCHANGED <<hostVars, phase, make, outcome, sources, creds, cut, before, able, installed>>

Login ==
  /\ step = "login"
  /\ creds' = TRUE
  /\ make' = PhaseCommands(phase)
  /\ step' = "phase"
  /\ UNCHANGED <<hostVars, phase, outcome, sources, settings, cut, before, able, installed>>

\* The commands that have been started all succeeded.
InOrder == make = PhaseCommands(phase) \/ failure = "none"

RunNext ==
  /\ step = "phase" /\ make # <<>>
  /\ InOrder
  /\ Begin(Head(make)[1], Head(make)[2])
  /\ make' = Tail(make)
  /\ UNCHANGED <<step, phase, outcome, sources, settings, creds, cut, before, able, installed>>

\* Mutant of PhaseFails: the logout is not in a finally block.
PhaseFailsWithoutLogout ==
  /\ step = "phase" /\ ~Running /\ ~InOrder
  /\ Leave
  /\ UNCHANGED <<hostVars, sources, settings, creds, cut, installed>>

PhaseFails ==
  /\ step = "phase" /\ ~Running /\ ~InOrder
  /\ make' = <<>>
  /\ outcome' = "failed"
  /\ step' = "logout"
  /\ UNCHANGED <<hostVars, phase, sources, settings, creds, cut, before, able, installed>>

PhaseDone ==
  /\ step = "phase" /\ ~Running /\ make = <<>> /\ InOrder
  /\ outcome' = "ok"
  /\ step' = "logout"
  /\ UNCHANGED <<hostVars, phase, make, sources, settings, creds, cut, before, able, installed>>

\* _registry_logout removes the Docker configuration.
Logout ==
  /\ step = "logout"
  /\ creds' = FALSE
  /\ cut' = FALSE
  /\ installed' = (outcome = "ok" /\ phase = "applications")
  /\ Leave
  /\ UNCHANGED <<hostVars, sources, settings>>

-----------------------------------------------------------------------------
(* Failures *)

\* The installer is left with creds as they are.
Abandon ==
  /\ Fault
  /\ Leave
  /\ UNCHANGED <<env, status, files, stored, keys, vaulted, command, leftover,
                 sources, settings, installed>>

\* An SSH command fails before the login, or install is killed.
InstallFails ==
  /\ step \notin {"idle", "login", "logout"}
  /\ script' = <<>>
  /\ failure' = IF Running THEN "fault" ELSE failure
  /\ cut' = creds
  /\ Abandon
  /\ UNCHANGED creds

\* The login raises, on the VM or because the connection broke after it.
LoginFails ==
  /\ step = "login"
  /\ creds' \in {creds, TRUE}
  /\ cut' = creds'
  /\ Abandon
  /\ UNCHANGED <<script, failure>>

\* The error of the logout is dropped: the outcome stays.
LogoutFails ==
  /\ step = "logout"
  /\ cut' = TRUE
  /\ Abandon
  /\ UNCHANGED <<creds, script, failure>>

\* VM-only rebuild: the VM is new, Vault is not.
Rebuild ==
  /\ step = "idle" /\ ~Running
  /\ Fault
  /\ env' = {}
  /\ status' = [s \in Services |-> "down"]
  /\ files' = {}
  /\ keys' = {}
  /\ leftover' = FALSE
  /\ sources' = FALSE
  /\ settings' = FALSE
  /\ creds' = FALSE
  /\ cut' = FALSE
  /\ installed' = FALSE
  /\ UNCHANGED <<stored, vaulted, script, command, failure, step, phase, make, outcome, before, able>>

-----------------------------------------------------------------------------

\* On the VM, with the sources and oci-runtime.env in place.
OperateOnVm ==
  /\ step = "idle" /\ sources /\ settings
  /\ Operate
  /\ installed' = (installed /\ command'[1] = "stop")
  /\ UNCHANGED <<step, phase, make, outcome, sources, settings, creds, cut, before, able>>

OnVm == (Execute \/ Disturb) /\ UNCHANGED installVars

Install ==
  \/ \E ph \in Phases : StartInstall(ph)
  \/ Wipe \/ Unpack \/ WriteEnvironment \/ Login
  \/ RunNext \/ PhaseFails \/ PhaseDone \/ Logout

InstallerFaults == InstallFails \/ LoginFails \/ LogoutFails \/ Rebuild

InstallerNext == Install \/ InstallerFaults \/ OperateOnVm \/ OnVm

InstallerSpec == InstallerInit /\ [][InstallerNext]_allVars

-----------------------------------------------------------------------------
(* Properties *)

\* The registry token is on the VM only while a phase runs, whether its
\* commands succeed or fail, unless SSH failed or install was killed; the
\* next attempt that gets to its logout then removes it.
CredentialsOnlyAfterCut == creds => step \in {"phase", "logout"} \/ cut

\* Any history of broken attempts, transfers cut off half way, stops and
\* rebuilds can be repaired by running install again: without a fault, a
\* prepare or platform attempt meets every prerequisite and has every file
\* it needs, and so does an applications attempt when the platform serves
\* and has the keys.  What remains is the health checks: Core and Explorer
\* may not answer yet, and under Cloudflare the tunnel may not serve.
FaultFreeAttemptSucceeds ==
  step = "logout" /\ faults = before =>
    \/ outcome = "ok"
    \/ failure = "health" /\ phase # "prepare"
    \/ phase = "applications" /\ ~able

\* SETUP-OCI.md:391: "To stop application containers while preserving
\* VM/data/Vault" the operator runs stop with PRODUCT=nebula on the VM; after
\* the applications phase its environment files are all there.
StopWorksAfterInstall ==
  installed /\ command = <<"stop", "nebula">> /\ ~Running => failure # "environment"

=============================================================================
