--------------------------- MODULE CloudflareTunnel ---------------------------
(***************************************************************************)
(* The Cloudflare Tunnel of a host: deployment/cloudflare.py runs           *)
(* cloud/cloudflare/setup.sh with the values of nebula.env; init writes     *)
(* credentials, config.yml and a systemd unit, systemd keeps cloudflared    *)
(* running.  The product commands share nebula.env and the CA with it.      *)
(*                                                                         *)
(* A tunnel is named by its ID, which credentials and config.yml carry.  An *)
(* empty file is worth no file: cloudflared cannot start on it and init     *)
(* writes it anew.                                                          *)
(***************************************************************************)
EXTENDS Naturals

CONSTANTS
  Tunnels,       \* tunnels the account may have for the configured name
  NoTunnel,      \* a file that is absent or empty
  MaxRetargets,  \* bound: changes of the tunnel that is configured
  MaxFaults      \* bound: crashes, reboots and commands that fail or stop

ASSUME TunnelsAssumption == Tunnels # {} /\ NoTunnel \notin Tunnels
ASSUME BoundsAssumption == MaxRetargets \in Nat /\ MaxFaults \in Nat

VARIABLES
  setting,      \* the tunnel that the configured ID or name stands for
  source,       \* the tunnel of the file ANU_DEPLOY_CLOUDFLARE_CREDENTIALS_SOURCE
                \* names, or NoTunnel when it is not set
  env,          \* nebula.env: "absent", "images", or "bare" without images
  core,         \* Core's container runs
  ca,           \* the shared CA certificate, caPool of config.yml, exists
  credentials,  \* the tunnel of credentials.json
  config,       \* the tunnel of config.yml
  unit,         \* the unit file is in /etc/systemd/system
  enabled,      \* systemd starts it at boot
  service,      \* "stopped", "activating" (systemd retries) or "serving"
  served,       \* the tunnel cloudflared serves
  pc,           \* next step of the tunnel command that runs
  host,         \* history: "clean", "installed", or "cut" by a failed command
  retargeted,   \* history: the setting changed since the files agreed or were gone
  rewritten,    \* history: an init wrote config.yml since cloudflared started
  orphaned,     \* history: a destroy could not stop the service
  retargets, faults

configuration == <<setting, source>>
product == <<env, core, ca>>
files == <<credentials, config, unit, enabled>>
process == <<service, served>>
history == <<host, retargeted, rewritten, orphaned>>
vars == <<configuration, product, files, process, pc, history, retargets, faults>>

PC == {"idle", "credentials", "config", "unit", "enable",
       "stop", "disable", "rmunit", "rmfiles"}

Flags ==
  /\ core \in BOOLEAN /\ ca \in BOOLEAN
  /\ unit \in BOOLEAN /\ enabled \in BOOLEAN
  /\ retargeted \in BOOLEAN /\ rewritten \in BOOLEAN /\ orphaned \in BOOLEAN

TypeOK ==
  /\ setting \in Tunnels
  /\ source \in Tunnels \cup {NoTunnel}
  /\ env \in {"absent", "images", "bare"}
  /\ Flags
  /\ credentials \in Tunnels \cup {NoTunnel}
  /\ config \in Tunnels \cup {NoTunnel}
  /\ served \in Tunnels \cup {NoTunnel}
  /\ service \in {"stopped", "activating", "serving"}
  /\ service = "serving" <=> served # NoTunnel
  /\ pc \in PC
  /\ host \in {"clean", "installed", "cut"}
  /\ retargets \in 0 .. MaxRetargets
  /\ faults \in 0 .. MaxFaults

Init ==
  /\ setting \in Tunnels /\ source \in Tunnels \cup {NoTunnel}
  /\ env = "absent" /\ core = FALSE /\ ca = FALSE
  /\ credentials = NoTunnel /\ config = NoTunnel
  /\ unit = FALSE /\ enabled = FALSE
  /\ service = "stopped" /\ served = NoTunnel
  /\ pc = "idle"
  /\ host = "clean" /\ retargeted = FALSE /\ rewritten = FALSE /\ orphaned = FALSE
  /\ retargets = 0 /\ faults = 0

Idle == pc = "idle"

-----------------------------------------------------------------------------
(* Product commands, as far as they concern nebula.env and the CA *)

\* generate of a product init, or of a component init, which keeps the file.
\* An init that fails, or of migrate, makes no CA.
InitProduct(whole) ==
  /\ Idle
  /\ env' = IF whole \/ env = "absent" THEN "images" ELSE env
  /\ ca' \in {ca, TRUE}
  /\ UNCHANGED <<configuration, core, files, process, pc, history, retargets, faults>>

\* deploy names the images in an override of its own.
DeployProduct ==
  /\ Idle
  /\ env # "absent" /\ ca
  /\ core' = TRUE
  /\ UNCHANGED <<configuration, env, ca, files, process, pc, history, retargets, faults>>

\* The CA goes with the last product.
DestroyProduct ==
  /\ Idle
  /\ env # "absent"
  /\ env' = "absent"
  /\ core' = FALSE
  /\ ca' \in {FALSE, ca}
  /\ UNCHANGED <<configuration, files, process, pc, history, retargets, faults>>

\* What platform_bootstrap.py meets: it calls exec in Core with the base
\* Compose file alone, so nebula.env must name every image of it.
BootstrapMeets ==
  CASE env = "absent" -> "no environment"
    [] env = "bare" -> "no image"
    [] ~core -> "no container"
    [] OTHER -> "core"

\* The operator configures another tunnel or another credentials file, or
\* makes the named tunnel anew.
Retarget(t, u) ==
  /\ Idle
  /\ retargets < MaxRetargets
  /\ retargets' = retargets + 1
  /\ <<t, u>> # <<setting, source>>
  /\ setting' = t /\ source' = u
  /\ retargeted' = ({credentials, config} # {NoTunnel})
  /\ UNCHANGED <<product, files, process, pc, host, rewritten, orphaned, faults>>

-----------------------------------------------------------------------------
(* execute: only init generates nebula.env, the others must find it *)

Accepted == Idle /\ env # "absent"

\* Without a repository root _image_values returns nothing; then
\* resolve_tunnel_id; the setting stays while the command runs.
BeginInit ==
  /\ Idle
  /\ env' = "bare"
  /\ pc' = "credentials"
  /\ UNCHANGED <<configuration, core, ca, files, process, history, retargets, faults>>

\* Mutants of CopyCredentials: it is forgotten; any credentials will do.
CopyCredentialsNever ==
  /\ pc = "credentials"
  /\ pc' = "config"
  /\ UNCHANGED <<configuration, product, files, process, history, retargets, faults>>

CopyCredentialsAny ==
  /\ pc = "credentials"
  /\ credentials' \in IF credentials = NoTunnel THEN Tunnels ELSE {credentials}
  /\ pc' = "config"
  /\ UNCHANGED <<configuration, product, config, unit, enabled, process,
                 history, retargets, faults>>

\* The file to copy is the configured source, whichever tunnel it is of, or
\* the one cloudflared keeps for the tunnel.
CredentialsSource == IF source # NoTunnel THEN source ELSE setting

\* Credentials that are there are kept, whichever tunnel they are of.
CopyCredentials ==
  /\ pc = "credentials"
  /\ credentials' = IF credentials = NoTunnel THEN CredentialsSource ELSE credentials
  /\ pc' = "config"
  /\ UNCHANGED <<configuration, product, config, unit, enabled, process,
                 history, retargets, faults>>

WriteConfig ==
  /\ pc = "config"
  /\ config' = setting
  /\ retargeted' = (retargeted /\ credentials # setting)
  /\ rewritten' = (service = "serving")
  /\ pc' = "unit"
  /\ UNCHANGED <<configuration, product, credentials, unit, enabled, process,
                 host, orphaned, retargets, faults>>

\* Mutant of WriteUnit: a unit that is enabled is not written again.
WriteUnitOnce ==
  /\ pc = "unit"
  /\ unit' = (unit \/ ~enabled)
  /\ pc' = "enable"
  /\ UNCHANGED <<configuration, product, credentials, config, enabled, process,
                 history, retargets, faults>>

WriteUnit ==
  /\ pc = "unit"
  /\ unit' = TRUE
  /\ pc' = "enable"
  /\ UNCHANGED <<configuration, product, credentials, config, enabled, process,
                 history, retargets, faults>>

\* daemon-reload and enable; a service that runs is not restarted.
Enable ==
  /\ pc = "enable"
  /\ enabled' = TRUE
  /\ host' = "installed"
  /\ orphaned' = FALSE
  /\ pc' = "idle"
  /\ UNCHANGED <<configuration, product, credentials, config, unit, process,
                 retargeted, rewritten, retargets, faults>>

-----------------------------------------------------------------------------
(* systemctl start, stop, restart *)

Start ==
  /\ Accepted
  /\ unit
  /\ service = "stopped"
  /\ service' = "activating"
  /\ UNCHANGED <<configuration, product, files, served, pc, history, retargets, faults>>

Stopped == service' = "stopped" /\ served' = NoTunnel /\ rewritten' = FALSE

Stop ==
  /\ Accepted
  /\ service # "stopped"
  /\ Stopped
  /\ UNCHANGED <<configuration, product, files, pc, host, retargeted, orphaned,
                 retargets, faults>>

Restart ==
  /\ Accepted
  /\ unit
  /\ service' = "activating" /\ served' = NoTunnel /\ rewritten' = FALSE
  /\ UNCHANGED <<configuration, product, files, pc, host, retargeted, orphaned,
                 retargets, faults>>

\* cloudflared needs a tunnel, its own credentials and the pool of CAs.
Startable == config # NoTunnel /\ credentials = config /\ ca

\* Mutant of Launch: cloudflared comes up on any configuration.
LaunchUnchecked ==
  /\ service = "activating"
  /\ unit
  /\ service' = "serving" /\ served' = config
  /\ UNCHANGED <<configuration, product, files, pc, history, retargets, faults>>

\* Restart=always: systemd starts cloudflared until it stays up; every five
\* seconds is below systemd's limit on start attempts.
Launch ==
  /\ service = "activating"
  /\ unit
  /\ Startable
  /\ service' = "serving" /\ served' = config
  /\ UNCHANGED <<configuration, product, files, pc, history, retargets, faults>>

-----------------------------------------------------------------------------
(* destroy_tunnel_configuration *)

BeginDestroy ==
  /\ Accepted
  /\ pc' = "stop"
  /\ UNCHANGED <<configuration, product, files, process, history, retargets, faults>>

\* Mutant of StopService: destroy only disables the service.
StopServiceNever ==
  /\ pc = "stop"
  /\ pc' = "disable"
  /\ UNCHANGED <<configuration, product, files, process, history, retargets, faults>>

StopService ==
  /\ pc = "stop"
  /\ Stopped
  /\ pc' = "disable"
  /\ UNCHANGED <<configuration, product, files, host, retargeted, orphaned, retargets,
                 faults>>

\* systemctl stop || true.
StopServiceFails ==
  /\ pc = "stop"
  /\ faults < MaxFaults
  /\ faults' = faults + 1
  /\ orphaned' = (service # "stopped")
  /\ pc' = "disable"
  /\ UNCHANGED <<configuration, product, files, process,
                 host, retargeted, rewritten, retargets>>

Disable ==
  /\ pc = "disable"
  /\ enabled' = FALSE
  /\ pc' = "rmunit"
  /\ UNCHANGED <<configuration, product, credentials, config, unit, process,
                 history, retargets, faults>>

\* systemctl disable || true.
DisableFails ==
  /\ pc = "disable"
  /\ faults < MaxFaults
  /\ faults' = faults + 1
  /\ pc' = "rmunit"
  /\ UNCHANGED <<configuration, product, files, process, history, retargets>>

RemoveUnit ==
  /\ pc = "rmunit"
  /\ unit' = FALSE
  /\ pc' = "rmfiles"
  /\ UNCHANGED <<configuration, product, credentials, config, enabled, process,
                 history, retargets, faults>>

RemoveFiles ==
  /\ pc = "rmfiles"
  /\ credentials' = NoTunnel /\ config' = NoTunnel
  /\ retargeted' = FALSE
  /\ host' = "clean"
  /\ pc' = "idle"
  /\ UNCHANGED <<configuration, product, unit, enabled, process, rewritten,
                 orphaned, retargets, faults>>

-----------------------------------------------------------------------------
(* Failures *)

\* The tunnel or its credentials are not found, a call fails, or the script
\* is killed: the file it writes may be truncated, a removal half done, and
\* the unit enabled although docker.service was not (setup.sh:102-103).
Cut ==
  /\ ~Idle
  /\ credentials' \in IF pc = "rmfiles" THEN {credentials, NoTunnel} ELSE {credentials}
  /\ config' \in IF pc \in {"config", "rmfiles"} THEN {config, NoTunnel} ELSE {config}
  /\ unit' \in IF pc = "unit" THEN {unit, FALSE} ELSE {unit}
  /\ enabled' \in IF pc = "enable" THEN {enabled, TRUE} ELSE {enabled}
  /\ host' = "cut"
  /\ pc' = "idle"

CommandFails ==
  /\ faults < MaxFaults
  /\ faults' = faults + 1
  /\ Cut
  /\ UNCHANGED <<configuration, product, process, retargeted, rewritten, orphaned,
                 retargets>>

Crash ==
  /\ faults < MaxFaults
  /\ faults' = faults + 1
  /\ service = "serving"
  /\ service' = "activating" /\ served' = NoTunnel /\ rewritten' = FALSE
  /\ UNCHANGED <<configuration, product, files, pc, host, retargeted, orphaned, retargets>>

\* systemd starts what is enabled; Core's container restarts by itself.
Reboot ==
  /\ faults < MaxFaults
  /\ faults' = faults + 1
  /\ \/ Cut
     \/ Idle /\ UNCHANGED <<files, host, pc>>
  /\ \/ enabled' /\ unit' /\ service' = "activating"
     \/ ~(enabled' /\ unit') /\ service' = "stopped"
  /\ served' = NoTunnel /\ rewritten' = FALSE /\ orphaned' = FALSE
  /\ UNCHANGED <<configuration, product, retargeted, retargets>>

-----------------------------------------------------------------------------

InitStep == CopyCredentials \/ WriteConfig \/ WriteUnit \/ Enable

DestroyStep ==
  StopService \/ StopServiceFails \/ Disable \/ DisableFails \/ RemoveUnit \/ RemoveFiles

ProductStep ==
  \/ \E whole \in BOOLEAN : InitProduct(whole)
  \/ DeployProduct
  \/ DestroyProduct

Next ==
  \/ ProductStep
  \/ \E t \in Tunnels, u \in Tunnels \cup {NoTunnel} : Retarget(t, u)
  \/ BeginInit \/ InitStep
  \/ Start \/ Stop \/ Restart
  \/ BeginDestroy \/ DestroyStep
  \/ Launch
  \/ CommandFails \/ Crash \/ Reboot

\* systemd retries, and a destroy that was begun goes on; no operator has to
\* run a command.
Spec == Init /\ [][Next]_vars /\ WF_vars(Launch) /\ WF_vars(DestroyStep)

-----------------------------------------------------------------------------
(* Properties *)

ForeignSource == source \notin {NoTunnel, setting}

\* config.yml and credentials.json name different tunnels only if the
\* configuration changed since they agreed, or if the credentials are those of
\* a configured source that is another tunnel's (setup.sh:61-76 never looks
\* into it): no order of inits, failures and destroys mixes tunnels otherwise.
MismatchOnlyAfterRetarget ==
  config # NoTunnel /\ credentials # NoTunnel /\ config # credentials =>
    retargeted \/ (ForeignSource /\ credentials = source /\ config = setting)

\* An init that ends well leaves a complete installation behind, whatever
\* failed commands came before, and keeps it complete until the next failed
\* command or destroy; a running cloudflared serves the tunnel of config.yml
\* unless an init wrote that file since it started.
InitRepairs ==
  /\ host = "installed" /\ Idle =>
       unit /\ enabled /\ credentials # NoTunnel /\ config # NoTunnel
  /\ service = "serving" /\ served # config => rewritten \/ host # "installed"

\* A destroy that ends well leaves no file, no unit, and no service unless
\* systemctl failed to stop it (setup.sh:111), also after a reboot.
DestroyLeavesNothing ==
  host = "clean" /\ Idle =>
    /\ credentials = NoTunnel /\ config = NoTunnel /\ ~unit
    /\ service = "stopped" \/ orphaned

\* A started service ends up serving after crashes, reboots, restarts and
\* inits, unless it is stopped, an init or destroy broke off or destroyed it,
\* the configured tunnel changed, the configured credentials are another
\* tunnel's, or the CA is gone.
TunnelServes ==
  service = "activating" ~>
    \/ service \in {"serving", "stopped"}
    \/ host # "installed" \/ retargeted \/ ForeignSource \/ ~ca

\* The guide deploys the public profile "only after the tunnel is configured"
\* and bootstraps it next (docs/SETUP-LOCAL.md:252-257): after a deploy the
\* bootstrap reaches Core.
BootstrapAfterDeploy == [][DeployProduct => BootstrapMeets' = "core"]_vars

=============================================================================
