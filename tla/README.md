# Verification of agent-nebula-deploy-oci

TLA+ models of the deployment host's own logic: how private material moves
between OCI Vault, the VM's persistent disk and the ephemeral staging tree, how
the product bootstraps create and rotate the durable security files, in which order
services start and stop, how a VM is installed over SSH, how images get from a push
to a container, how the Cloudflare Tunnel is set up and kept running, and how the
commands behave when they stop half way, overlap or are rerun. Paths below are
relative to the repository root.

## 1. Inventory

| Component | State it keeps | Operations | Talks to |
|---|---|---|---|
| Security persistence (`deployment/security/persistence.py`) | none of its own; the encrypted cache under `ANU_HOME`, the staging tree under `/run`, the master key in Vault | `prepare_for_initialization`, `finalize_initialization`, `prepare_for_deployment`, `import_secret` | Vault client; files of every product |
| Vault client (`deployment/security/vault.py`) | a JSON payload file while a CLI process runs | `put`, `get`, `list_names` | OCI CLI processes |
| Adapter selection and import CLI (`deployment/security/factory.py`, `cli.py`) | none | choose LOCAL or OCI; import one operator key | Security persistence |
| Product bootstraps (`deploy/support/bootstrap.py`, `deployment/topology.py`) | durable directories, shared CA, TLS identities, passwords, OAuth keys | `initialize` per product, force scope and component | agent-nebula-utils (CA, OpenSSL) |
| Host lifecycle (`deploy/lifecycle.py`, `deployment/cli.py`) | none; Docker Compose projects | `init`, `deploy`, `redeploy`, `stop`, `health`, `destroy` | all of the above, Docker, HTTP probes |
| Environment files (`deploy/environment.py`) | `ANU_HOME/deploy/<profile>/<product>.env` | `generate`, `load`, `remove` | host lifecycle |
| Remote installer (`deployment/remote_application.py`) | sources, virtual environment and GHCR login on the VM | phases `prepare`, `platform`, `applications` | SSH, then the host lifecycle |
| Cloudflare adapter (`deployment/cloudflare.py`, `cloud/cloudflare/setup.sh`) | credentials, `config.yml`, systemd unit of the tunnel; rewrites `nebula.env` | `init`, `start`, `stop`, `restart`, `status`, `destroy` | cloudflared, systemd, environment files, shared CA |
| Image pipeline and selection (`deployment/images.py`, `runtime_images.py`, `scripts/`) | tags in GHCR; images in the host's Docker | build, push, check; resolve a tag, pull, start | docker buildx, GHCR, host lifecycle |
| Filesystem and platform bootstrap (`deployment/filesystem.py`, `deploy/platform_bootstrap.py`) | directories | create, chown | - |
| Compose files, PostgreSQL entrypoint, installer image, Makefile, Terraform | declarative | - | - |

Components interact by direct calls inside one host command and by shared files
between commands. **Nothing locks**: two host commands interleave at every Vault
call and every file access. Every OCI call is a process of its own that may
fail, time out after it took effect, or be killed.

Hard behaviour, by component:

* *Security persistence.* Init unseals the whole cache in place and reseals it at
  the end: everything in between that fails leaves plaintext. The master key is
  created by read-then-put. Import writes two stores one after the other. A
  rebuilt VM starts from whatever Vault holds, which may be half of an upload.
  Correct when: sealed files stay decryptable and backed by Vault, the cache is
  not behind Vault, exposure is bounded and heals, a restore leaves no hole,
  staging is what Compose should see.
* *Vault client.* List-then-act against a service other clients write to;
  effects whose answer is lost. Correct when each call is one atomic register
  operation or an error.
* *Product bootstraps.* One CA for all products; forced rotations; copies of
  a password and of the CA key in other components' trees; presence as the test
  of validity. Correct when certificates are trusted by the CA on disk, keys fit
  certificates, copies are current, the password opens the database.
* *Host lifecycle.* Order of dependent products; readiness checked, then used;
  destroy that ignores errors; a shared CA removed with its last user.
* *Remote installer, environment files.* Re-transfer over a live deployment;
  credentials that must leave the host on every path.
* *Cloudflare adapter.* Files written one by one over an installation that runs,
  credentials that are kept whichever tunnel they are of, an environment file that
  it shares with the product commands. Correct when a completed init or destroy
  repairs or removes everything that went before, and a started tunnel ends up serving.
* *Images.* A push is a loop over images and tags that may stop or meet another push;
  a host may start what its cache holds. Correct when a host runs builds of its own
  architecture and of the release it asked for, and no redeploy takes it back.

The hazards, each at its line, with the properties that cover it, are listed in
`PROJECT.json`.

## 2. Modules

| Module | Models | Abstract counterpart |
|---|---|---|
| `SecurityPersistence` | security persistence driven by init, deploy, import, destroy | - |
| `SecretRegister` | what callers assume of the Vault client: a register per secret | - |
| `VaultSecretClient` | `put` and `get` as CLI processes against the Vault service | implements `SecretRegister` |
| `ProductResources` | durable files of all products: create, copy, rotate, remove, restore, upload | - |
| `LifecycleStack` | the commands of the host lifecycle on Compose services, environment files and onboarding keys | - |
| `RemoteInstaller` | `install` over SSH; composes with `LifecycleStack`, whose commands are its make commands | - |
| `ImageRollout` | pushes to GHCR beside deploys on a host: tags, caches, containers | - |
| `CloudflareTunnel` | the tunnel commands of `setup.sh`, systemd's restarts, and what they share with product commands | - |
| `MCSecurityPersistence`, `MCVaultSecretClient` | the order of secret names, and symmetric clients, for model checking | |
| `SecurityPersistenceProofs` and `SecurityPhaseProofs`, `VaultSecretClientProofs`, `ProductResourcesProofs`, `LifecycleStackProofs`, `RemoteInstallerProofs`, `ImageRolloutProofs`, `CloudflareTunnelProofs` | theorems | |

`SecurityPersistence` takes `vault.put` and `vault.get` as single steps; that is
what `VaultSecretClient => SecretRegister` justifies. `ProductResources` takes
the sealing of a file as the identity on its content, and restore and upload as one step
(cut short by `StopRestore` and `StopUpload`); what lies between is the subject of
`SecurityPersistence`.

### SecurityPersistence

A command is a slot of `Commands` with a program counter; each action is one
Vault call or one file access of `persistence.py`:

| Code | Actions |
|---|---|
| `_cipher` | `ReadMaster`, `MintMaster` |
| `_restore_from_vault` | `ListNames`, `CheckExists`, `FetchSecret`, `WriteCache`, `RestoreDone` |
| `_security_files` | `Scan` (the snapshot a loop runs over) |
| `prepare_for_initialization` | `SkipPlain`, `ReadSealed`, `WriteUnsealed`, `UnsealDone` |
| `_initialize` of `lifecycle.py` | `BootstrapUnlink` (a forced rotation drops certificate and key before it makes new ones), `BootstrapWrite`, `BootstrapApplicable`, `BootstrapNotApplicable` |
| `finalize_initialization` | `ReadForSeal`, `PutSecret`, `WriteSealed`, `SealDone` |
| `prepare_for_deployment` | `ClearStaging`, `ReadForStage`, `WriteStaged`, `StageDone`, `ComposeUp` |
| `import_secret` | `StartImport`, `ImportPut`, `ImportWrite` |
| `_destroy` | `Destroy(D)`: any part of the tree, because of `ignore_errors` |
| failures | `Abort`, `PowerLoss`, `Rebuild` |

A plaintext is a version number per file, a cache entry is `[form, key, val]`. Local loops
run in path order, restores in the order of the secrets' base32 names, which need not agree
with it (`VaultRank`).
`MayStart` is the operators' schedule, because the code has no lock: `"never"`
(one command at a time), `"provisioned"` (overlap once a master key exists),
`"always"`. The runs have one command at a time; of the overlapping ones the proofs cover the
master key. A read that raises because another command removed the file, or sealed it under
another key, ends a command as `Abort` does. `interrupted` and `halfImported` are history
variables; no action reads them. Not modelled: the temporary file of `_atomic_write` left by a kill,
Vault secrets with foreign names, symbolic links.

### VaultSecretClient and SecretRegister

A client walks `list`, then `create`, or `compare` and `update`, or `bundle`. The
service is external: create needs an absent name, update needs an `ACTIVE` secret,
a write enters a transitional state until `Settle`. `Raise` is a CLI error in any
step, also a timeout after the effect. `Kill` is a SIGKILL: it skips the `finally` of
`_run_sensitive_json`, so the payload file of a create or
update stays in the tmpfs, with the process it belonged to, until `Reboot`. The refinement maps a
client in `wait` or `return` to a call that has been applied. Not modelled: a
request that takes effect after its CLI process has already failed, and deletion
of secrets (no code deletes).

### ProductResources

Files are `<<kind, owner>>`; content is the generation that made it, and for a certificate
also the CA generation that signed it. One command runs at a time and may stop between any
two actions (`Stop`). The nebula bootstrap follows `initialize`: refuse the rotation,
password, copy to Core, CA, CA key copy, identities in the order of
`_issue_transport_identities`; OAuth makes its signing key and publishes the public half
(`MakeSigningKey`, `PublishKey`: `signing-public.pem` and the verification key are one
step), then copies the password and raises without it; Policy and Playground have a CA and
identities only. `destroy` removes the `Targets`, which for a whole product are the trees of
all its components, installed on this host or not, in the order of `_durable_targets`, and
then the CA when no root is left. On OCI `Restore`/`StopRestore` and
`FinishOci`/`StopUpload` bracket the bootstrap; they stop between any two files, restores in
the order of the secrets' base32 names, uploads in the order of paths, which differ. A
host's target is chosen in `Init`, with the services installed on it. Every removal is
`rmtree(ignore_errors=True)` and may leave half of a tree: `RemovePart`, `RemoveCaPart`.

History variables mark the states nothing promises anything about: `torn` (an upload
stopped half way) and `mixed` (a restore put files of two generations together),
`halfRemoved` (a removal left part of the database tree), `interrupted` (an init of OAuth
was cut off, or OAuth's tree was restored or removed in part).

External, from how `src/` uses it: `anu_ensure_local_ca` and
`anu_issue_local_server_certificate` (key, then certificate; a half-present CA is
recreated or an error), PostgreSQL (data keeps the password of its `initdb`).
Abstracted: playground's three components are one service; `FORCE=config` changes
none of these files and equals no force; certificate names always match. Not
modelled: Explorer's OAuth keys (made when missing, and related to nothing else),
deployment assets, environment files, Docker creating missing bind sources.

### LifecycleStack

A command is the `script` of its steps, `<<op, name>>`, computed when it begins; each
action takes the first step and drops it, or ends the command with a `failure`:

| Code | Steps and actions |
|---|---|
| `run` | `Begin`, `Script`; the first `load` of every action but init |
| `DeploymentEnvironmentService` | `load`, `generate`, `unlink`: `Load`, `Generate`, `Unlink` |
| `_initialize` | `initialize`: restores from Vault, creates what is missing, uploads |
| `_prepare_runtime_security` | `stage`: on OCI a deploy restores what Vault has |
| `_deploy`, `_deploy_nebula_stack` | `Deploy`, `DeployStack`: `stage`, `probe`, `key`, `up`, `health`, and `ifkey`, which looks for Explorer's key when it is reached |
| `_stop_nebula_stack` | `StopStack`: `stop` |
| `_health` | `Health`: `health` |
| `_destroy`, `_durable_targets` | `Destroy`: `stop` or `down`, then `rmtree`, then `unlink` |
| `secret-import` | `ImportKey` |
| Docker and Compose | `Up` with `DependsOn`, `Settled` and `UpWithoutFiles`; `Listen`, `Crash`, `Recover` (`restart: unless-stopped`), `UpFails` |

`status` of a service is `down`, `started` (its container runs and does not answer yet),
`ready`, or `failing` (its container is there and keeps crashing or answers wrongly).
`up --wait` and `service_healthy` wait for readiness only where the Compose file has a
healthcheck (`HasHealthcheck`): Policy, PostgreSQL, OAuth, Playground. Core, Console and
Explorer are left `started`, `depends_on: nebula-core: service_started` is met by a Core that
runs, and the application answers at some later moment (`Listen`). A container that runs may
be re-created by an `up`, so a ready service may be `started` again; in a deploy of the stack
Core is not, because the deploy has just brought it up with the same configuration.
`_health` asks once. A service that does not answer fails it, and so may, under
`Profile = "cloudflare"`, the public URLs of Core and Console (lifecycle.py:474-482): whether
the tunnel serves is the subject of `CloudflareTunnel`, here it is a choice.

`files` are the directories of certificates and passwords, one per service, and Core's copy
of the database password, which an init of the database writes and a destroy of Core removes;
`stored` is what Vault has of them. An init creates them, a destroy removes them with the
tree and keeps the environment file of a component's product, and an `up` whose containers
lack theirs (`Mounts`) raises, or leaves a container that keeps crashing: `UpWithoutFiles`
stops at one with a healthcheck or at Core's migrations, `Up` passes the others. OAuth has a
copy of the database password too and its init raises without the original.

`disturbed` and `leftover` are history variables: a fault since the command began; a `down`
that left Explorer behind. `down` without `--profile explorer` leaves Explorer alone, and
does not take it for an orphan: this is Compose's documented treatment of services whose
profile is not enabled. Abstracted: the one-shot `migrate` is part of starting Core;
Playground's three containers are one service; a host uses one profile; an environment file
is there or not, and so is the directory of a service; a service that stops answering
while its container runs is a crash; `redeploy` takes the steps of `deploy`; what is in the
files, and whether a probe trusts them, is in `ProductResources`.

### RemoteInstaller

`install` is a `step` per SSH command that changes the VM: `Wipe` and `Unpack`
(`_transfer_sources`), `WriteEnvironment`, `Login`, then the phase's make commands
(`RunNext` begins a command of `LifecycleStack`, which then runs by its own actions),
`PhaseFails` or `PhaseDone`, `Logout`. `InstallFails`, `LoginFails` and `LogoutFails` are a
broken connection or a killed installer; a broken connection is taken to stop the remote
command. Waiting for cloud-init, the copies to `/tmp` and the virtual environment change
nothing modelled and are folded into their neighbours. Between attempts the operator runs
lifecycle commands on the VM if the sources and `oci-runtime.env` are there, imports keys,
or rebuilds the VM, which loses what is on its disk but nothing in Vault. `cut`, `before`,
`able` and `installed` are history variables.

### ImageRollout

An image is the number of the push that built it. A tag is a name with suffixes
(`<<"latest", "arm64">>`); a push writes `<release>-<arch>` and `latest-<arch>` of each
selected image in the order of the manifest. What is built is for the `--platform` of the
push, which defaults to linux/arm64, and only the Makefile pairs it with `--arch`: the two
are separate parameters of `StartPush`. Docker may refuse an image that is not for its
host (`Refusable`), and may run it.

| Code | Actions and operators |
|---|---|
| `image_pipeline.py push` | `StartPush`, `PushTag`, `FailPush`; `ReleaseTags` |
| `DeploymentImageResolver` | `ArchitectureTag`, `Lookup` |
| `_deploy`, `_deploy_nebula_stack` | `Deploy`, `DeployStack`: steps `pull` (OCI only) and `up` |
| Compose and the override file | `Pull`, `Up`, `ImageFor`, `DependsOn` |
| `_destroy` | `DestroyNebula` |
| failures | `FailPush`, `Interrupt` |

External, from how `src/` uses it: Compose looks an image up in GHCR only when Docker does
not have the reference; `up` of a service re-creates what it depends on when the reference
or the image behind it changed. `overlapped` is a history variable: the tags that two pushes
wrote at the same time. Not modelled: `list`, `registry`, `check` and local builds, which
write nothing a deploy reads; Playground and installer images.

### CloudflareTunnel

A tunnel is named by its ID; an empty file counts as none. Each write, removal and
`systemctl` call of `setup.sh` is an action. `setting` is the configured tunnel, `source` the
tunnel of the configured credentials file (`CREDENTIALS_SOURCE`), which need not be the same
and which the script never looks into.

| Code | Actions |
|---|---|
| `CloudflareTunnelService.execute` | `Accepted`, `BeginInit` (generates `nebula.env` without images) |
| `install_tunnel` | `CopyCredentials`, `WriteConfig`, `WriteUnit`, `Enable` |
| `start`, `stop`, `restart` | `Start`, `Stop`, `Restart` |
| `destroy_tunnel_configuration` | `BeginDestroy`, `StopService`, `Disable`, `RemoveUnit`, `RemoveFiles`; `StopServiceFails` and `DisableFails` are errors that the script ignores |
| systemd, from the unit template | `Launch` (`Restart=always`), `Crash`, `Reboot` |
| product commands on `nebula.env`, Core and the CA | `InitProduct`, `DeployProduct`, `DestroyProduct` |
| `platform_bootstrap.py` | `BootstrapMeets`: what it finds |
| a failed or killed command | `CommandFails`, `Cut`: the file it writes perhaps truncated, cloudflared perhaps enabled without docker |

`Retarget` is the operator configuring another tunnel or credentials file, or making the
named tunnel anew. `host`, `retargeted`, `rewritten` and `orphaned` are history variables.
Abstracted: the origin URLs of `config.yml` are text; `status` only reads. Changes of
the setting while a tunnel command runs, and product commands beside one, are left out.

## 3. Runs

| Run | Instance | Shows |
|---|---|---|
| `security_serial` | 1 private and 1 public file, 1 slot, 3 versions, 2 faults; 431,122 states | the promises of Vault, cache and staging under faults; `ExposureHeals` under fairness |
| `security_plaintext` | 1 slot, no faults | **violated** `NoPlaintextAtRest` (finding 1) |
| `vault_client` | 3 clients, 1 name, 2 contents, 1 oversized, 1 kill per client; 123,619 states up to symmetry | refinement of `SecretRegister`, payload scope |
| `resources` | LOCAL with database, core and oauth; OCI with database and core, and with database and oauth; 2 generations, 1 fault; 2,057,343 states | consistency of keys, certificates and copies across products, forces, destroys, restores |
| `resources_rotation` | core, policy on OCI, 1 fault | **violated** `InitYieldsPairs` (finding 2) |
| `lifecycle_local` | LOCAL, Nebula's six services, commands on the stack, Core, Console and Explorer, 1 fault; 2,481,621 states | what starts come up over, what runs has its files, stops in order; nothing forgotten |
| `lifecycle_destroy` | commands on the stack, no fault | **violated** `DestroyStopsAll` (finding 3) |
| `installer` | all seven services on OCI under PROFILE=cloudflare, stack commands, all phases, 1 fault; 4,637,507 states | the token goes away; rerunning install repairs every state |
| `installer_stop` | the same, no fault | **violated** `StopWorksAfterInstall` (finding 4) |
| `image_rollout` | core and explorer, LOCAL or OCI, 1 release, both architectures and platforms, 2 pushes; 3,914,944 states | which build a container runs; which images share a tag |
| `cloudflare` | 2 tunnels, 2 changes of the configuration, 3 faults; 316,844 states | init repairs, destroy removes, the tunnel serves |
| `cloudflare_bootstrap` | 1 tunnel, no fault | **violated** `BootstrapAfterDeploy` (finding 5) |

Bounds. *Files*: one of each sealing class is what the loops tell apart, and two are needed
so that a loop can stop between files; the restore runs over them in the other order than the
upload. *Versions*: an import that is lost needs an old, a new and a later value: 3.
*Faults*: 2 allow a second failure while recovering from the first; where more actors
multiply the states, 1. *Names of the Vault client*: calls on different names share nothing,
so one name is where they meet; *kills*: a client that was killed once comes back under the
same slot with another process. *Generations*: 2 tell an old key from a new one; an init
starts only while each key it may make has room (`Room`), so the bound never stops a command
in the middle. *Services*: `resources` has, on LOCAL, both copies of the password, two roots
of one product and a second product; on OCI each copy with its own files in Vault, one at a
time (all three together passed 8 million states without an end in sight);
`resources_rotation` has two products sharing the CA; `image_rollout` has a service and one
that depends on it, which is all `Up` tells apart; the other runs have every service of the
repository but `migrate` (`lifecycle_local` leaves out Playground, which nothing there
depends on). *Pushes*: 2 can overlap, one can overwrite the other, and one can be for the
other architecture, for another platform than its tags say, or only for some images. *Tunnels
and changes*: 2 tell old from new, and a second change can come back; a credentials source
is none or either tunnel's. *Scopes*: `lifecycle_local` lets the operator name the stack and
the components that its commands treat apart - Core, on which others depend and whose
destroy takes the copy of the password, and the two whose deploy counts on a Core that only
runs; in `installer` only the stack, because single commands come from the phases.
Length of histories is not bounded: commands and attempts go on for ever. Deadlock is
checked in every run: some command can always start, stop or destroy.

Fairness. In `security_serial`, `WF(Run(c))`: a started command is a sequential
program whose steps are never disabled by others; the process is scheduled until
it ends. `SF(StartInit(c))` is an assumption about operators, not about the code:
docs/SETUP-OCI.md tells them to rerun phases after failures, and without a rerun
nothing would heal. `BootstrapWrite` and the faults are not fair. In `cloudflare`,
`WF(Launch)`: the unit says `Restart=always` and `RestartSec=5`, so systemd tries for ever
and below its start limit; `WF(DestroyStep)`: a destroy that was begun goes on. No operator
has to run a command there, and no init has to end.

Properties and the hazards they are aimed at:

* `CacheDecryptable` - the key minted by read-then-put, a command that stops between minting
  it and sealing with it, a rebuilt VM, a restore of sealed and of public files. Proved also
  for overlapping commands that start once a key exists; two first commands that overlap on
  an empty Vault are an observation in section 4.
* `SealedIsBacked`, `StaleOnlyAfterHalfImport`, `RegressionOnlyAfterHalfImport` - two
  stores written one after the other, with crashes in between. The last two say that an
  import that stops between its two writes is the *only* way to a stale cache, or to a
  Vault value going back at the next init.
* `ExposureOnlyWhenInterrupted`, `ExposureHeals` - plaintext on the persistent disk has
  one cause, and a completed init ends it.
* `RestoreComplete` - no hole after a restore that stopped or met a partial Vault, other than
  what a forced rotation has unlinked and not yet made again; `StagingFaithful` - staging is
  exactly the durable plaintext when Compose starts.
* `ImplementsRegister` - atomicity of list-then-act; `PayloadScoped` - secret content lies in
  the tmpfs only while its CLI process runs, or after a SIGKILL that skipped the removal.
* `IdentitiesTrusted`, `PairsMatch`, `CoreCaKeyCurrent` - CA, identities and copies
  under rotation, destroy and restore.
* `PasswordOpensCluster` - the password under data, at every moment.
* `InitSyncsCopies` - what repairs the copies of the password: whatever cut-off inits,
  rotations, destroys, restores and uploads came before, an init of the database leaves
  Core's copy current, and one of OAuth OAuth's, on disk and in Vault. It is an action
  property about what a finished init leaves; between such inits a copy may be behind or
  absent, and section 4 says when.
* `SigningKeyPublished` - a rotation of the signing key that stops, fails or is followed
  by a restore: OAuth publishes the key it signs with once an init of OAuth ends well.
* `StartsOverReady` - readiness asked in one step and used in another, with re-creations and
  a Core that runs before it answers: what a service needs is ready when its container
  comes up, but that Console or Explorer deployed alone may come up over a Core that only
  runs; the comment "User-facing dependents start only after their backing services are
  ready" (deploy/lifecycle.py:249) holds of the deploy of the stack it stands in.
  The dependencies are those the comments of `_deploy_nebula_stack` and the Compose files
  state, not the list of probes.
* `DeployedStackServes` - a deploy of the stack meets its own prerequisites; it can fail
  without a fault, for files that a destroy removed or at a single health check.
* `StopOrder`, `StoppedStackIsDown` - dependency order and completeness of a stop.
* `RunsOnItsFiles` - destroys that break off between the stop and the removal of a tree.
* `ExplorerHasKey` - the key by which the lifecycle finds Explorer is there while
  Explorer is.
* `CredentialsOnlyAfterCut` - the registry token leaves the VM on every path of
  `install`.
* `FaultFreeAttemptSucceeds` - reruns: no history of broken attempts, stops, destroys
  and rebuilds leaves a VM on which an undisturbed attempt lacks an environment file, a
  durable file, a key or a prerequisite. What remains is the single health checks, of a Core
  or Explorer that does not answer yet and of public URLs without a tunnel.
* `NeverRollsBack` - a redeploy under one tag, with LOCAL never pulling, OCI pulling only the
  service it names, and caches behind GHCR for different services by different pushes: no
  service goes back to an older build, unless two pushes wrote the tag at once.
* `RunsHostBuild` - tag resolution: no order of pushes, caches and deploys gives a host
  a build of another release, or one for another architecture unless a push gave its
  `--arch` and its `--platform` different values.
* `MixedOnlyByBrokenPush` - the ways in which one tag comes to stand for images of two
  pushes; without them a deploy by tag is a deploy of one build.
* `MismatchOnlyAfterRetarget`, `InitRepairs`, `DestroyLeavesNothing` - files written and
  removed one by one, with `|| true`, truncated writes and crashes in between; credentials
  of another tunnel come only from a change of the configuration or from a configured source
  that is another tunnel's.
* `TunnelServes` - crashes, reboots, restarts and reruns of init under systemd's
  restarts.

Each property has a mutant: the definition named in `PROJECT.json` replaced by the
operator commented "Mutant of ..." above it, which TLC must then refute.

## 4. Findings

1. **An init that does not apply leaves the cache in plaintext** (`security_plaintext`,
   `deploy/lifecycle.py:202`).
2. **An interrupted forced rotation on OCI ends in a key and a certificate that do not
   fit, and no init repairs it** (`resources_rotation`,
   `deploy/support/bootstrap.py:243`).
3. **Destroying nebula leaves the Explorer container running** over its removed
   directory, and no later stop finds it (`lifecycle_destroy`,
   `deploy/lifecycle.py:342`).
4. **After the applications phase the documented stop on the VM fails**, because the
   transfer of sources removed the environment files of OAuth and Policy
   (`installer_stop`, `deployment/remote_application.py:194`).
5. **The documented order of the public profile ends in a bootstrap that cannot reach Core**:
   `cloudflare-init` rewrites `nebula.env` without image references, which deploy replaces by
   an override of its own and the bootstrap needs (`cloudflare_bootstrap`,
   `deployment/cloudflare.py:56`).

Further observations, each an exception that a property names:

* *A half-finished import is undone by the next init.* `import_secret` writes Vault,
  then the cache; a kill in between leaves the old cache, which the next init uploads
  over the new Vault value (`deployment/security/persistence.py:96`;
  `RegressionOnlyAfterHalfImport`).
* *The guide for OCI under Cloudflare* (docs/SETUP-OCI.md:324) goes from `cloudflare-init` to
  the platform phase. `cloud/cloudflare/setup.sh:101-103` enables the tunnel and does not
  start it, and the phase's `health` asks Core at its public URL
  (`deploy/lifecycle.py:474`): without `cloudflare-start`, which the guide does not name, or a
  reboot, that phase fails (`FaultFreeAttemptSucceeds`, `failure = "health"`). A Core that
  does not answer its one probe yet fails it under either profile
  (`deploy/lifecycle.py:243`).
* *LOCAL never pulls* (`deploy/lifecycle.py:313-315`): a host that has `latest-amd64` keeps it
  after a push, while README.md:31, Makefile:45, docs/SETUP-LOCAL.md:146 and
  `deployment/runtime_images.py:4` say that installations pull from GHCR; on OCI the deploy
  of a component pulls that component only, and Compose may re-create its dependency from a
  stale cached image. `NeverRollsBack` bounds what a stale cache can do.
* *Platforms and tags.* `scripts/image_pipeline.py push --arch amd64` without `--platform`
  puts an arm64 build under the amd64 tags (lines 157-158); only the Makefile pairs the two
  (`RunsHostBuild`, `p.arch \notin p.platforms`).
* *`destroy core`, then `init core`* leaves Core on LOCAL without the password, against
  `deploy/support/bootstrap.py:282`, "Missing resources are always created idempotently":
  only an init of the database makes the copy (line 319), and its next one repairs it
  (`InitSyncsCopies`). A deploy before that fails at Core (`DeployedStackServes`,
  `failure = "files"`). A password made anew reaches OAuth only by an init of OAuth (line 578).
* *Two first commands that overlap on an empty Vault* each mint a master key, and what the
  first has sealed does not open with the second's (`deployment/security/persistence.py:102-105`;
  with `Overlap = "always"` `CacheDecryptable` fails). The guides start with one command, and
  nothing in the repository says that commands may overlap.
* *A SIGKILL of a create or update* leaves secret content in the runtime tmpfs until a reboot
  (`deployment/security/vault.py:232-233`; `PayloadScoped`).
* *A credentials source of another tunnel* is copied as it is (`cloud/cloudflare/setup.sh:61-66`):
  config.yml and credentials.json then disagree from the first init on, and cloudflared does
  not come up (`MismatchOnlyAfterRetarget`, `ForeignSource`).

## 5. Proofs

`SecurityPersistenceProofs` proves, for any set of files, any number of commands and any
bounds: `TypeCorrect`; `CacheStaysDecryptable` unless `Overlap = "always"`;
`SealedFilesAreBacked`, `CacheFreshness` and `VaultRegression` when `Overlap = "never"`. The
invariants of the runs are not inductive alone: for the master key one needs that a command
past `_cipher` holds the current key, and that a command can be about to mint only while no
other command runs and nothing is sealed; for the stores one needs what the buffer of a
command holds between its read and its write. These strengthenings are the named invariants
of the module, each proved by one step per action. `SecurityPhaseProofs` adds
`RestoreLeavesNoHole`, `StagedIsCurrent` and `ExposureIsExplained`, for `Overlap = "never"`:
its invariant has what a command has done with the names still in its list and with those no
longer in it, in each of its loops, and which files a running bootstrap may have unlinked.

`VaultSecretClientProofs` proves `TypeCorrect`, `PayloadsAreScoped` and the refinement
`ClientIsRegister` for any clients, names and contents, from the assumption that `NoValue`
and the oversized contents are not contents. `PayloadsAreScoped` says which process each
payload file belongs to, one that runs or one that was killed. `Branches` ties the program
counter to the kind of call, so that each deciding step is the register's `ApplyPut` or
`ApplyGet`.

`ProductResourcesProofs` proves every state invariant of `ProductResources`, for any hosts,
generations and faults: `TypeCorrect`, `CertificatesAreTrusted`, `IdentitiesArePairs`,
`CoreSignsWithTheCa`, `PasswordAlwaysOpens`, `PublishedKeyIsCurrent`, and `InitsSyncCopies`.
None of them is inductive: a restore that stops leaves any part of Vault's files on disk,
and an upload that stops any part of the new ones in Vault. The invariant `ResourcesInv`
says that the disk is consistent, or is a part of a Vault that is (`KeysInv`); what an init
has left of the password once it is past the copies (`CopiesInv`); that past its restore an
init has everything Vault has, but for the identity it is issuing (`HasVault`); which files
earlier steps have left for later ones (`Ready`); that an init which would replace the
password under data does not come to the password (`ClusterInv`); that files lie in the
trees of installed services (`Owned`); and, for the types, that an init has room for every
key it will make (`SpareInv`).

`LifecycleStackProofs` proves, for either target and profile, any services and scopes and any
faults: `TypeCorrect`, `StartsAreOverReady`, `StopsAreInOrder`, `StopIsComplete`,
`ExplorerKeepsItsKey`, `RunningHaveFiles`, `DeployServes`. The invariants are about the script
that is left of a command. `Comes(q, A, X)` says that every step of A in q has one of X before
it, `Before(q, R, A)` that no step of A in q precedes one of R, `Has` that q has such a step;
lemmas say what a step dropped from the front, a concatenation and `Each` do to them. That a
service was ready when it was asked is worth nothing if the script may still re-create it:
`Firm(d)` is a d that is ready and stays so, because it has a healthcheck or because no start
that may re-create Core (`Recreates`) is left. `StartInv`: what a start requires is firm, or
the start is behind its probe, and Explorer's behind the check of its key, and every start
behind the restore of its files. `KeyInv`: a step that removes the files of a service, with
Explorer's its key, comes after the one that stops it or leaves it behind. `StopInv`: what a
service needs is stopped after it, and what is not down is still to be stopped. `DeployInv`:
a deploy of the stack asks only for what it has started before (`Good`: up, with a healthcheck
ready, and running if it has its files), counts only on what has answered, and has still to
start what is not up, with Explorer decided in the last step. A fault makes `disturbed` true,
which is all that the start properties allow it to do.

`RemoteInstallerProofs` proves, for any services, operator commands and number of faults:
`TokenRemoved` (`CredentialsOnlyAfterCut` is inductive as it stands), `FaultFreeAttempts`
and `InstallerTypeCorrect`. Every step of `install` is on the host a command, a step of one
(`HostStep`, for which `LifecycleStackProofs` has shown the invariant), or one of three
breaks (`HostBreaks`: the wipe of the environment files, an abandoned command, a rebuild),
under which `HostInv` is shown to hold; so `HostInv` holds under the installer too.
`FaultFreeAttempts` rests on `AttemptInv`, an invariant of its own. While no fault has
disturbed an attempt: the make commands left are the end of the phase's list (`PhaseInv`);
the running command has every environment file, durable file and key it still asks for, and
every service it has still to probe is ready and is not re-created first (`Sure`), or the
step is not in its script (`Meets`); what each earlier command was for holds, and what the
present one is for holds or is still in its script (`Progress`, a conjunction of `Brings`);
and for the applications phase the platform serves, its files are there and its keys are at
hand (`Able3`). One lemma says per command that what the earlier ones brought is all it
checks (`MeetsBegin`, `PhaseBegins`), another that a step of it leaves that so or ends it at
a health check (`MeetsStep`), since the commands of a phase stop and remove nothing
(`Gentle`). The deploy of the stack starts what it probes itself: there the proof takes over
from `DeployInv`.

`ImageRolloutProofs` proves, for any releases, services, platforms and number of pushes:
`HostBuilds` (`RunsHostBuild`), `DeploysNeverRollBack`, `MixedOnlyAfterBrokenPush`,
`TypeCorrect`. What a container runs follows from where it came from: every image under a
tag, in GHCR and in the cache, is of a push with that tag (`Labelled`), a push only has tags
of its own left (`PushesOwn`), a deploy asks for tags of the host's architecture
(`CommandOwn`), and a container's build fits its tag (`ContainersOwn`). One lemma says that
`ArchitectureTag` never yields a tag of the other architecture, from the assumption that no
release is called "latest". For the rollbacks, `BehindInv` says of a tag that no two pushes
wrote at once that no cached copy under it is ahead of GHCR and no container ahead of the
cached copy: every push that writes it has a higher number than the one before, and every
pull and start copies in that direction. For the tags, `TagInv` says per tag and image that
GHCR has the last push that has written it, which two images can only disagree on when one
of the pushes left one of them out, is not done, or overlapped another.

`CloudflareTunnelProofs` proves, for any tunnels, changes and faults: `TunnelTypeOK`,
`MismatchNeedsRetarget`, `InitCompletes`, `DestroyCompletes`. The strengthening has what an
init has achieved when it reaches each of its steps (`Progress`), what a destroy has
(`Removal`), that files name another tunnel than the configured one only after a change or
from the configured source (`Current`), and that an unserved `config.yml` was rewritten
(`Behind`).

Only model-checked: `ExposureHeals` and `TunnelServes`, which are liveness and out of the
prover's reach. The theorems on the phases of `SecurityPersistence` are
for one command at a time, as the run that checks them: nothing of the kind is claimed
of overlapping commands, one of which may seal or clear what another reads. Each finding
is one counterexample and needs no proof.

## 6. Plan

Done: all modules of section 2, and theorems for every safety property that a passing run
checks. Next:

1. An abstract specification of the lifecycle (a set of services that is started and stopped
   only over running dependencies) that `LifecycleStack` implements, with its proof.

Not modelled, and why: Terraform, Makefile and installer image are declarative, and so
is what the Compose files say beyond dependencies, restarts and profiles; rendering of
environment values, registry names and JSON is a pure mapping from names to text;
`list`, `registry`, `check` and local builds of the image pipeline, `status` and `logs`
change nothing another command reads; Explorer's OAuth keys are made once and copied
nowhere; the temporary file of `_atomic_write` left by a kill would need a file of its
own per write, uploaded under its temporary name; tests are quoted as the reference for
what is intended.
