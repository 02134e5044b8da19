--------------------------- MODULE LifecycleStack ---------------------------
(***************************************************************************)
(* deploy/lifecycle.py: the Compose lifecycle of the products on one host. *)
(* A command is a script of steps.  Each step is one call that can fail:   *)
(* an environment file is loaded, a readiness URL probed, a Compose        *)
(* command run.  The script stops at the first step that fails.            *)
(* redeploy takes the steps of deploy, and logs changes nothing.           *)
(*                                                                         *)
(* The one-shot migrate service is part of starting Core, the three        *)
(* Playground containers are one service, and a host uses one profile.     *)
(* Of the durable files only those a start needs are here: how init writes *)
(* them is in ProductResources, what a deploy does to the staging tree in  *)
(* SecurityPersistence.                                                    *)
(***************************************************************************)
EXTENDS Naturals, Sequences

CONSTANTS
  Target,     \* "local" or "oci"
  Profile,    \* "local" or "cloudflare"
  Services,   \* all services, or all but Playground
  Scopes,     \* bound: what the operator's commands name
  MaxFaults   \* bound: crashes of services and interrupted commands

AllServices ==
  {"policy", "database", "core", "oauth", "console", "explorer", "playground"}

ASSUME TargetAssumption == Target \in {"local", "oci"}
ASSUME ProfileAssumption == Profile \in {"local", "cloudflare"}
ASSUME ServicesAssumption ==
  AllServices \ {"playground"} \subseteq Services /\ Services \subseteq AllServices
ASSUME ScopesAssumption == Scopes \subseteq Services \cup {"nebula"}
ASSUME MaxFaultsAssumption == MaxFaults \in Nat

\* A scope is the product nebula, one component of it, or another product.
Product == [x \in AllServices \cup {"nebula"} |->
              IF x \in {"policy", "oauth", "playground"} THEN x ELSE "nebula"]

Products == {Product[x] : x \in Services \cup {"nebula"}}

\* Services that wait for an operator-created API key.
KeyOwners == {"explorer", "playground"} \cap Services

VARIABLES
  env,        \* products whose environment file exists
  status,     \* status[s]: the container of s
  files,      \* durable files on disk
  stored,     \* durable files in Vault
  keys,       \* services whose onboarding key is on disk
  vaulted,    \* services whose onboarding key is in Vault
  script,     \* steps left of the running command
  command,    \* the last command, <<action, scope>>
  failure,    \* why the last command failed, or "none"
  disturbed,  \* history: a fault since the last command began
  leftover,   \* history: a destroy left the Explorer container behind
  faults      \* faults so far

hostVars == <<env, status, files, stored, keys, vaulted, script, command,
              failure, disturbed, leftover, faults>>

\* A started container runs and does not answer yet; a failing one keeps
\* crashing or answers wrongly.
Status == {"down", "started", "ready", "failing"}
Alive == {"started", "ready"}

Failure == {"none", "environment", "files", "probe", "key", "health", "fault"}

Ops == {"load", "generate", "initialize", "stage", "probe", "key", "up",
        "health", "ifkey", "stop", "down", "rmtree", "unlink"}

\* Each service has a directory of certificates and passwords; Core's copy
\* of the database password is in Core's, but written with the database's.
Files == Services \cup {"copy"}

Actions == {"init", "deploy", "stop", "health", "destroy", "bootstrap", "import"}

Command == Actions \X (AllServices \cup {"nebula"})

TypeOK ==
  /\ env \subseteq Products
  /\ status \in [Services -> Status]
  /\ files \subseteq Files
  /\ stored \subseteq Files
  /\ keys \subseteq KeyOwners
  /\ vaulted \subseteq KeyOwners
  /\ \A i \in DOMAIN script : script[i][1] \in Ops
  /\ command \in Command
  /\ failure \in Failure
  /\ {disturbed, leftover} \subseteq BOOLEAN
  /\ faults \in 0 .. MaxFaults

HostInit ==
  /\ env = {}
  /\ status = [s \in Services |-> "down"]
  /\ files = {}
  /\ stored = {}
  /\ keys = {}
  /\ vaulted = {}
  /\ script = <<>>
  /\ command = <<"health", "nebula">>
  /\ failure = "none"
  /\ disturbed = FALSE
  /\ leftover = FALSE
  /\ faults = 0

-----------------------------------------------------------------------------
(* Scripts *)

\* One step of kind op for each member of a sequence.
Each(op, names) == [i \in DOMAIN names |-> <<op, names[i]>>]

\* Mutant of Requires: OAuth starts without the Registry.
RequiresPolicyOnly(s) == IF s \in {"core", "oauth", "console", "explorer"} THEN <<"policy">> ELSE <<>>

\* The services _deploy probes before it starts s, in its order.
Requires(s) ==
  CASE s \in {"core", "console"} -> <<"policy">>
    [] s = "explorer" -> <<"policy", "oauth">>
    [] s = "oauth" -> <<"policy", "core">>
    [] OTHER -> <<>>

\* _deploy of one service; the image pull of OCI is part of "up".
Deploy(s) ==
  <<<<"stage", s>>>> \o Each("probe", Requires(s))
    \o (IF s \in KeyOwners THEN <<<<"key", s>>>> ELSE <<>>)
    \o <<<<"up", s>>>>

\* Mutant of DeployStack: OAuth before Core.
DeployStackOAuthFirst ==
  Each("load", <<"policy", "oauth">>)
    \o Deploy("policy") \o Each("health", <<"policy">>)
    \o Deploy("oauth") \o Each("health", <<"oauth">>)
    \o Deploy("core") \o Each("health", <<"core">>)
    \o Deploy("console") \o <<<<"ifkey", "deploy">>>>

\* _deploy_nebula_stack.
DeployStack ==
  Each("load", <<"policy", "oauth">>)
    \o Deploy("policy") \o Each("health", <<"policy">>)
    \o Deploy("core") \o Each("health", <<"core">>)
    \o Deploy("oauth") \o Each("health", <<"oauth">>)
    \o Deploy("console") \o <<<<"ifkey", "deploy">>>>

\* Mutants of StopStack: OAuth is stopped last; OAuth is forgotten.
StopStackOAuthLast ==
  Each("load", <<"oauth", "policy">>) \o <<<<"ifkey", "stop">>>>
    \o Each("stop", <<"console", "core", "database", "policy", "oauth">>)

StopStackWithoutOAuth ==
  Each("load", <<"policy">>) \o <<<<"ifkey", "stop">>>>
    \o Each("stop", <<"console", "core", "database", "policy">>)

\* _stop_nebula_stack.
StopStack ==
  Each("load", <<"oauth", "policy">>) \o <<<<"ifkey", "stop">>>>
    \o Each("stop", <<"console", "oauth", "core", "database", "policy">>)

\* _health.
Health(x) ==
  IF x = "nebula" THEN Each("health", <<"core", "console">>) \o <<<<"ifkey", "health">>>>
  ELSE Each("health", <<x>>)

\* Mutant of Destroy: the durable state goes first.
DestroyFilesFirst(x) ==
  IF x \in {"database", "core", "console", "explorer"}
    THEN <<<<"rmtree", x>>, <<"stop", x>>>>
    ELSE <<<<"rmtree", x>>, <<"down", Product[x]>>, <<"unlink", Product[x]>>>>

\* _destroy: a component of nebula is stopped and removed, a product is
\* taken down and loses its environment file.
Destroy(x) ==
  IF x \in {"database", "core", "console", "explorer"}
    THEN <<<<"stop", x>>, <<"rmtree", x>>>>
    ELSE <<<<"down", Product[x]>>, <<"rmtree", x>>, <<"unlink", Product[x]>>>>

\* run: every action but init loads the product's environment file first.
\* platform_bootstrap.py executes its workflow in Core's running container.
Script(action, x) ==
  IF action = "init" THEN <<<<"generate", Product[x]>>, <<"initialize", x>>>>
  ELSE Each("load", <<Product[x]>>) \o
    CASE action = "deploy" -> IF x = "nebula" THEN DeployStack ELSE Deploy(x)
      [] action = "stop" -> IF x = "nebula" THEN StopStack ELSE Each("stop", <<x>>)
      [] action = "health" -> Health(x)
      [] action = "bootstrap" -> Each("probe", <<"core">>)
      [] action = "destroy" -> Destroy(x)

-----------------------------------------------------------------------------
(* Steps *)

Running == script # <<>>

Doing(op, x) == Running /\ Head(script) = <<op, x>>

Advance == script' = Tail(script) /\ UNCHANGED failure

FailWith(reason) == script' = <<>> /\ failure' = reason

\* The step succeeds when cond holds; otherwise the command raises.
Check(cond, reason) == IF cond THEN Advance ELSE FailWith(reason)

Begin(action, x) ==
  /\ ~Running
  /\ script' = Script(action, x)
  /\ command' = <<action, x>>
  /\ failure' = "none"
  /\ disturbed' = FALSE
  /\ UNCHANGED <<env, status, files, stored, keys, vaulted, leftover, faults>>

\* DeploymentEnvironmentService.load.
Load(p) ==
  /\ Doing("load", p)
  /\ Check(p \in env, "environment")
  /\ UNCHANGED <<env, status, files, stored, keys, vaulted, command, disturbed, leftover, faults>>

\* Mutant of Generate: the file is named after the component.
GenerateForComponent(p) ==
  /\ Doing("generate", p)
  /\ env' = env \cup {command[2]}
  /\ Advance
  /\ UNCHANGED <<status, files, stored, keys, vaulted, command, disturbed, leftover, faults>>

\* DeploymentEnvironmentService.generate.
Generate(p) ==
  /\ Doing("generate", p)
  /\ env' = env \cup {p}
  /\ Advance
  /\ UNCHANGED <<status, files, stored, keys, vaulted, command, disturbed, leftover, faults>>

\* What the durable root of a scope holds.
Owned(x) ==
  CASE x = "nebula" -> {"database", "core", "copy", "console", "explorer"}
    [] x = "core" -> {"core", "copy"}
    [] OTHER -> {x}

\* What initialize makes sure of: the copy is written with the original.
Created(x) ==
  CASE x = "core" -> {"core"}
    [] x = "database" -> {"database", "copy"}
    [] OTHER -> Owned(x)

\* _initialize after the generation: on OCI it restores what Vault has and
\* the disk lacks, creates what is missing, and uploads all of it.  OAuth
\* has a copy of the database password too, and fails when there is none.
Initialize(x) ==
  /\ Doing("initialize", x)
  /\ keys' = keys \cup vaulted
  /\ IF x = "oauth" /\ "database" \notin files \cup stored
       THEN /\ files' = files \cup stored
            /\ FailWith("files")
            /\ UNCHANGED stored
       ELSE /\ files' = files \cup stored \cup Created(x)
            /\ stored' = IF Target = "oci" THEN files' ELSE stored
            /\ Advance
  /\ UNCHANGED <<env, status, vaulted, command, disturbed, leftover, faults>>

\* _prepare_runtime_security: a deploy on OCI restores what Vault has.
Stage(s) ==
  /\ Doing("stage", s)
  /\ keys' = keys \cup vaulted
  /\ files' = files \cup stored
  /\ Advance
  /\ UNCHANGED <<env, status, stored, vaulted, command, disturbed, leftover, faults>>

\* A prerequisite is asked once at its local URL.
Probe(s) ==
  /\ Doing("probe", s)
  /\ Check(status[s] = "ready", "probe")
  /\ UNCHANGED <<env, status, files, stored, keys, vaulted, command, disturbed, leftover, faults>>

\* _health asks once; under Cloudflare it asks Core and Console at their
\* public URLs, through a tunnel that may not serve (CloudflareTunnel).
HealthCheck(s) ==
  /\ Doing("health", s)
  /\ \/ status[s] = "ready" /\ Advance
     \/ /\ status[s] # "ready" \/ (Profile = "cloudflare" /\ s \in {"core", "console"})
        /\ FailWith("health")
  /\ UNCHANGED <<env, status, files, stored, keys, vaulted, command, disturbed, leftover, faults>>

\* The onboarding key file exists and is not empty.
RequireKey(s) ==
  /\ Doing("key", s)
  /\ Check(s \in keys, "key")
  /\ UNCHANGED <<env, status, files, stored, keys, vaulted, command, disturbed, leftover, faults>>

\* The stack commands include Explorer when its key is there at that moment.
IfKey(then) ==
  /\ Doing("ifkey", then)
  /\ script' =
       (IF "explorer" \notin keys THEN <<>>
        ELSE IF then = "deploy" THEN Deploy("explorer")
        ELSE <<<<then, "explorer">>>>) \o Tail(script)
  /\ UNCHANGED <<env, status, files, stored, keys, vaulted, command, failure, disturbed, leftover, faults>>

\* depends_on of the Compose files, transitively.
DependsOn(s) ==
  CASE s = "core" -> {"database"}
    [] s \in {"console", "explorer"} -> {"core", "database"}
    [] OTHER -> {}

Starts(s) == {s} \cup DependsOn(s)

\* up --wait and service_healthy wait for these.  Core, Console and Explorer
\* have no healthcheck, and their dependents wait for service_started only.
HasHealthcheck == {"policy", "database", "oauth", "playground"}

\* What is mounted into the container.
Mounts(t) == IF t = "core" THEN {"core", "copy"} ELSE {t}

\* How Compose leaves t when it brings up s: a container that runs is left
\* alone, or recreated when its configuration changed - Core not by the
\* later ups of a deploy of the stack, which has just brought it up.
\* Without its files t crashes; the healthchecks, and for Core its
\* migrations, then stop Compose.
Settled(s, t) ==
  IF Mounts(t) \subseteq files
    THEN IF t \in HasHealthcheck THEN {"ready"}
         ELSE IF status[t] # "ready" THEN {"started"}
         ELSE IF s # t /\ command = <<"deploy", "nebula">> THEN {"ready"}
         ELSE Alive
    ELSE IF t \in HasHealthcheck \cup {"core"} THEN {}
         ELSE {"failing"} \cup ({status[t]} \cap Alive)

\* The states in which up leaves the services S on its way to s.
BroughtUp(s, S) ==
  {[t \in Services |-> IF t \in S THEN new[t] ELSE status[t]] :
     new \in {f \in [S -> Status] : \A t \in S : f[t] \in Settled(s, t)}}

\* docker compose up -d --wait.
Up(s) ==
  /\ Doing("up", s)
  /\ status' \in BroughtUp(s, Starts(s))
  /\ Advance
  /\ UNCHANGED <<env, files, stored, keys, vaulted, command, disturbed, leftover, faults>>

\* up does not get past t: what t depends on is up, t is not, or for Core
\* its migrations failed.
GivesUp(s, t) ==
  \E new \in BroughtUp(s, DependsOn(t)) :
    \/ status' = [new EXCEPT ![t] = "failing"]
    \/ t = "core" /\ status' = new

UpWithoutFiles(s) ==
  /\ Doing("up", s)
  /\ \E t \in Starts(s) : ~(Mounts(t) \subseteq files) /\ GivesUp(s, t)
  /\ FailWith("files")
  /\ UNCHANGED <<env, files, stored, keys, vaulted, command, disturbed, leftover, faults>>

\* docker compose stop, and rm when the component is destroyed.
StopService(s) ==
  /\ Doing("stop", s)
  /\ status' = [status EXCEPT ![s] = "down"]
  /\ leftover' = (leftover /\ s # "explorer")
  /\ Advance
  /\ UNCHANGED <<env, files, stored, keys, vaulted, command, disturbed, faults>>

\* Explorer is behind a Compose profile that this down does not enable.
Down(p) ==
  /\ Doing("down", p)
  /\ status' = [s \in Services |->
       IF Product[s] = p /\ s # "explorer" THEN "down" ELSE status[s]]
  /\ leftover' = (leftover \/ (p = "nebula" /\ status["explorer"] # "down"))
  /\ Advance
  /\ UNCHANGED <<env, files, stored, keys, vaulted, command, disturbed, faults>>

\* _durable_targets: the product's directories, or the component's.
RemoveTree(x) ==
  /\ Doing("rmtree", x)
  /\ files' = files \ Owned(x)
  /\ keys' = keys \ Owned(x)
  /\ Advance
  /\ UNCHANGED <<env, status, stored, vaulted, command, disturbed, leftover, faults>>

\* DeploymentEnvironmentService.remove.
Unlink(p) ==
  /\ Doing("unlink", p)
  /\ env' = env \ {p}
  /\ Advance
  /\ UNCHANGED <<status, files, stored, keys, vaulted, command, disturbed, leftover, faults>>

\* secret-import of an onboarding key; OCI also has it in Vault.
ImportKey(s) ==
  /\ ~Running
  /\ s \notin keys
  /\ keys' = keys \cup {s}
  /\ vaulted' = IF Target = "oci" THEN vaulted \cup {s} ELSE vaulted
  /\ command' = <<"import", s>>
  /\ failure' = "none"
  /\ disturbed' = FALSE
  /\ UNCHANGED <<env, status, files, stored, script, leftover, faults>>

-----------------------------------------------------------------------------
(* Failures *)

Fault ==
  /\ faults < MaxFaults
  /\ faults' = faults + 1
  /\ disturbed' = TRUE

\* A container crashes, or its URL stops answering.
Crash(s) ==
  /\ Fault
  /\ status[s] \in Alive
  /\ status' = [status EXCEPT ![s] = "failing"]
  /\ UNCHANGED <<env, files, stored, keys, vaulted, script, command, failure, leftover>>

\* restart: unless-stopped brings it back.
Recover(s) ==
  /\ status[s] = "failing"
  /\ Mounts(s) \subseteq files
  /\ status' = [status EXCEPT ![s] = "started"]
  /\ UNCHANGED <<env, files, stored, keys, vaulted, script, command, failure,
                 disturbed, leftover, faults>>

\* The application in a started container answers.
Listen(s) ==
  /\ status[s] = "started"
  /\ status' = [status EXCEPT ![s] = "ready"]
  /\ UNCHANGED <<env, files, stored, keys, vaulted, script, command, failure,
                 disturbed, leftover, faults>>

\* A step raises having done nothing, or the process is killed.
Interrupt ==
  /\ Running
  /\ Fault
  /\ FailWith("fault")
  /\ UNCHANGED <<env, status, files, stored, keys, vaulted, command, leftover>>

\* A container that has its files does not come up all the same.
UpFails(s) ==
  /\ Doing("up", s)
  /\ Fault
  /\ \E t \in Starts(s) : GivesUp(s, t)
  /\ FailWith("fault")
  /\ UNCHANGED <<env, files, stored, keys, vaulted, command, leftover>>

-----------------------------------------------------------------------------

\* Health is not defined for the database.
Operate ==
  \/ \E x \in Scopes, a \in {"deploy", "stop", "destroy"} : Begin(a, x)
  \/ \E x \in Scopes \ {"database"} : Begin("health", x)
  \/ \E x \in Scopes \cup Products : Begin("init", x)
  \/ \E s \in KeyOwners : ImportKey(s)

Execute ==
  \/ \E p \in Products : Load(p) \/ Generate(p) \/ Down(p) \/ Unlink(p)
  \/ \E s \in Services : Stage(s) \/ Probe(s) \/ HealthCheck(s) \/ RequireKey(s)
                            \/ Up(s) \/ UpWithoutFiles(s) \/ StopService(s)
  \/ \E x \in Services \cup {"nebula"} : Initialize(x) \/ RemoveTree(x)
  \/ \E then \in {"deploy", "stop", "health"} : IfKey(then)

Disturb ==
  \/ \E s \in Services : Crash(s) \/ Recover(s) \/ Listen(s) \/ UpFails(s)
  \/ Interrupt

Next == Operate \/ Execute \/ Disturb

Spec == HostInit /\ [][Next]_hostVars

-----------------------------------------------------------------------------
(* Properties *)

\* What a service needs while it runs: its Compose dependencies and what
\* _deploy_nebula_stack says it depends on.
Needs(s) ==
  CASE s = "core" -> {"policy", "database"}
    [] s = "console" -> {"policy", "database", "core"}
    [] s = "oauth" -> {"policy", "core"}
    [] s = "explorer" -> {"policy", "database", "core", "oauth"}
    [] OTHER -> {}

\* A service starts only over what it needs, although the probes of _deploy
\* and the start are separate steps, unless something failed between: all
\* of it is ready, as _deploy_nebula_stack says of its user-facing services,
\* but a deploy of Console or Explorer alone asks only that Core runs.
StartsOverReady ==
  [][\A s \in Services :
       status[s] = "down" /\ status'[s] # "down" /\ ~disturbed =>
         \A d \in Needs(s) :
           \/ status'[d] = "ready"
           \/ /\ d = "core" /\ status'[d] \in Alive
              /\ s \in {"console", "explorer"} /\ command # <<"deploy", "nebula">>]_hostVars

\* _stop_nebula_stack stops in reverse dependency order: nothing is stopped
\* under a running service that needs it, except under an Explorer that a
\* destroy of the product left behind.
StopOrder ==
  [][\A d, s \in Services :
       /\ command = <<"stop", "nebula">> /\ Running
       /\ status[d] # "down" /\ status'[d] = "down"
       /\ d \in Needs(s) /\ status'[s] # "down"
       => s = "explorer" /\ leftover]_hostVars

\* A stop of the stack that ends without an error has stopped all of it.
StoppedStackIsDown ==
  command = <<"stop", "nebula">> /\ ~Running /\ failure = "none" =>
    \A s \in Services \ {"playground"} :
      status[s] = "down" \/ (s = "explorer" /\ leftover)

\* Explorer's container and its onboarding key come and go together: the
\* lifecycle decides by the key whether there is an Explorer to stop.
ExplorerHasKey ==
  status["explorer"] # "down" => "explorer" \in keys \/ leftover

\* Nothing runs whose durable files are gone: a destroy stops a service, or
\* takes its product down, before it removes the tree, wherever it breaks off.
RunsOnItsFiles ==
  \A s \in Services : status[s] \in Alive =>
    Mounts(s) \subseteq files \/ (s = "explorer" /\ leftover)

\* A deploy of the stack meets its own prerequisites in the order it starts
\* things.  Nothing but a missing environment file, missing durable files or
\* a health check makes it fail, unless there was a fault; the check then
\* found Core running over Policy and the database.  When it succeeds, all
\* that answers to a check is ready, and Console and, with its key, Explorer
\* have been brought up.
DeployedStackServes ==
  command = <<"deploy", "nebula">> /\ ~Running /\ ~disturbed =>
    \/ failure \in {"environment", "files"}
    \/ /\ failure = "health"
       /\ status["policy"] = "ready" /\ status["database"] = "ready"
       /\ status["core"] \in Alive
    \/ /\ failure = "none"
       /\ \A s \in {"policy", "database", "core", "oauth"} : status[s] = "ready"
       /\ \A s \in {"console"} \cup (keys \cap {"explorer"}) :
            status[s] # "down" /\ (s \in files => status[s] \in Alive)

\* SETUP-LOCAL.md:300: "Destroy deployment-owned containers and product
\* state using the existing lifecycle"; after a destroy of a product that
\* ends without an error none of its containers is left.
DestroyStopsAll ==
  \A p \in Products :
    command = <<"destroy", p>> /\ ~Running /\ failure = "none" =>
      \A s \in Services : Product[s] = p => status[s] = "down"

=============================================================================
