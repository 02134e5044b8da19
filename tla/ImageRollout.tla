----------------------------- MODULE ImageRollout -----------------------------
(***************************************************************************)
(* How an image gets from a build to a container: scripts/image_pipeline.py *)
(* pushes images one by one under the tags of deployment/images.py; the    *)
(* host resolves a logical tag (deployment/runtime_images.py) and its      *)
(* lifecycle pulls and starts services by it (deploy/lifecycle.py).        *)
(* Pushes run beside each other and beside host commands: nothing locks.   *)
(*                                                                         *)
(* An image is the number of the push that built it.  Probes, keys and     *)
(* health, which decide whether a deploy gets that far, are in             *)
(* LifecycleStack: here a command may stop at any step.                    *)
(***************************************************************************)
EXTENDS Naturals, Sequences, Functions

CONSTANTS
  Targets,    \* the targets a host may be
  Services,   \* the services of the stack; each has an image of its name
  Releases,   \* release names an operator gives
  Archs,      \* bound: architectures that are pushed
  Platforms,  \* bound: sets of platforms an image is built for
  MaxPushes   \* bound: push commands

AllServices == {"policy", "core", "oauth", "console", "explorer"}

ASSUME TargetsAssumption == Targets \subseteq {"local", "oci"} /\ Targets # {}
ASSUME ServicesAssumption == "core" \in Services /\ Services \subseteq AllServices
ASSUME ReleasesAssumption == "latest" \notin Releases
ASSUME ArchsAssumption == Archs \subseteq {"amd64", "arm64"}
ASSUME PlatformsAssumption == Platforms \subseteq (SUBSET {"amd64", "arm64"}) \ {{}}
ASSUME BoundsAssumption == MaxPushes \in Nat

\* A tag is a name and the suffixes appended to it.
Names == Releases \cup {"latest"}
Tags == {<<n, a>> : n \in Names, a \in {"amd64", "arm64"}}

Push == 1 .. MaxPushes
Build == 0 .. MaxPushes   \* 0: no image

VARIABLES
  target,      \* the host's target
  pushes,      \* the push commands so far
  registry,    \* registry[i][t]: what GHCR has for image i under tag t
  cache,       \* cache[i][t]: what the host's Docker has under that reference
  running,     \* running[s]: image and tag of the container of s
  script,      \* steps left of the running host command
  command,     \* the tag the running deploy asked for
  overlapped   \* history: tags that two pushes wrote at the same time

published == <<pushes, registry, overlapped>>
host == <<cache, running>>
execution == <<script, command>>
vars == <<target, pushes, registry, cache, running, script, command,
          overlapped>>

NotRunning == [tag |-> <<>>, build |-> 0]
NoDeploy == [tag |-> <<>>]

\* tags: the names of the current image still to push.
PushRecord == [release : Releases, arch : Archs, platforms : Platforms,
               selected : SUBSET Services, left : SUBSET Services,
               tags : Seq(Tags), failed : BOOLEAN]

TypeOK ==
  /\ target \in Targets
  /\ pushes \in Seq(PushRecord) /\ Len(pushes) <= MaxPushes
  /\ \A n \in DOMAIN pushes : pushes[n].left \subseteq pushes[n].selected
  /\ registry \in [Services -> [Tags -> Build]]
  /\ cache \in [Services -> [Tags -> Build]]
  /\ \A s \in Services : running[s] = NotRunning \/ running[s] \in [tag : Tags, build : Push]
  /\ \A i \in DOMAIN script : script[i] \in {"pull", "up"} \X Services
  /\ overlapped \subseteq Tags

Init ==
  /\ target \in Targets
  /\ pushes = <<>>
  /\ registry = [i \in Services |-> [t \in Tags |-> 0]]
  /\ cache = [i \in Services |-> [t \in Tags |-> 0]]
  /\ running = [s \in Services |-> NotRunning]
  /\ script = <<>>
  /\ command = NoDeploy
  /\ overlapped = {}

-----------------------------------------------------------------------------
(* Tags *)

\* release_tags, from the templates of config/registry.json.
ReleaseTags(release, arch) == <<<<release, arch>>, <<"latest", arch>>>>

\* DeploymentTarget.architecture.
Architecture == IF target = "local" THEN "amd64" ELSE "arm64"

\* Mutant of ArchitectureTag: any suffix will do.
ArchitectureTagAny(t) == IF Len(t) = 2 THEN t ELSE Append(t, Architecture)

\* _architecture_tag: TAG may carry the suffix already.
ArchitectureTag(t) ==
  IF t[Len(t)] = Architecture THEN t ELSE Append(t, Architecture)

\* What the operator gives as TAG: a name, or one with a suffix.
TagArguments == {<<n>> : n \in Names} \cup {<<"latest", a>> : a \in Archs}

-----------------------------------------------------------------------------
(* image_pipeline.py push *)

PushOrder == <<"policy", "core", "console", "explorer", "oauth">>

\* i is the first image of S in the order of the manifest, whose playground
\* and installer images are not here.
IsNext(i, S) ==
  /\ i \in S
  /\ \A j \in S \ {i} : \E k, l \in DOMAIN PushOrder :
       k < l /\ PushOrder[k] = i /\ PushOrder[l] = j

Active(n) == pushes[n].left # {}

Writes(n) == {ReleaseTags(pushes[n].release, pushes[n].arch)[k] : k \in 1 .. 2}

\* select_images: all enabled images, or those named.  --arch names the tags
\* and --platform what is built; only the Makefile pairs the two.
StartPush(release, arch, platforms, selected) ==
  /\ Len(pushes) < MaxPushes
  /\ selected # {}
  /\ pushes' = Append(pushes,
       [release |-> release, arch |-> arch, platforms |-> platforms,
        selected |-> selected, left |-> selected,
        tags |-> ReleaseTags(release, arch), failed |-> FALSE])
  /\ overlapped' = overlapped \cup UNION {Writes(n) \cap Range(ReleaseTags(release, arch)) :
       n \in {m \in DOMAIN pushes : Active(m)}}
  /\ UNCHANGED <<target, registry, host, execution>>

Idle == script = <<>>

\* The command ends here.
Forget == script' = <<>> /\ command' = NoDeploy

\* The command goes on, if there is anything left to do.
Continue ==
  /\ script' = Tail(script)
  /\ command' = IF Tail(script) = <<>> THEN NoDeploy ELSE command

\* One tag of one image: buildx builds the image once and pushes its names
\* one after the other.
PushTag(n, i) ==
  /\ IsNext(i, pushes[n].left)
  /\ LET t == Head(pushes[n].tags)
         rest == Tail(pushes[n].tags)
     IN /\ registry' = [registry EXCEPT ![i][t] = n]
        /\ pushes' = IF rest # <<>> THEN [pushes EXCEPT ![n].tags = rest]
                     ELSE [pushes EXCEPT ![n].left = @ \ {i},
                             ![n].tags = ReleaseTags(pushes[n].release, pushes[n].arch)]
  /\ UNCHANGED <<target, host, execution, overlapped>>

\* Mutant of FailPush: the loop goes on with the next image.
FailPushUnchecked(n) ==
  /\ Active(n)
  /\ \E i \in Services : /\ IsNext(i, pushes[n].left)
                         /\ pushes' = [pushes EXCEPT ![n].left = @ \ {i}]
  /\ UNCHANGED <<target, registry, host, execution, overlapped>>

\* A repository is missing, a build or a push fails: the loop ends here.
FailPush(n) ==
  /\ Active(n)
  /\ pushes' = [pushes EXCEPT ![n].left = {}, ![n].failed = TRUE]
  /\ UNCHANGED <<target, registry, host, execution, overlapped>>

-----------------------------------------------------------------------------
(* deploy and destroy *)

\* destroy of the product: down.  Explorer is behind a Compose profile, and
\* Docker keeps the images.
DestroyNebula ==
  /\ Idle
  /\ Forget
  /\ running' = [s \in Services |->
       IF s \in {"core", "console"} THEN NotRunning ELSE running[s]]
  /\ UNCHANGED <<target, published, cache>>

\* _deploy of one service.
Deploy(s) ==
  IF s \notin Services THEN <<>>
  ELSE IF target = "oci" THEN <<<<"pull", s>>, <<"up", s>>>>
  ELSE <<<<"up", s>>>>

\* _deploy_nebula_stack: Explorer when its key is there.
DeployStack(explorer) ==
  Deploy("policy") \o Deploy("core") \o Deploy("oauth") \o Deploy("console")
    \o (IF explorer THEN Deploy("explorer") ELSE <<>>)

\* depends_on among services with an image of ours; migrate is Core's image.
DependsOn(s) == IF s \in {"console", "explorer"} THEN {"core"} ELSE {}

\* What a reference stands for; an unknown tag stands for nothing.
Lookup(images, i, t) == IF t \in Tags THEN images[i][t] ELSE 0

StartDeploy(argument, steps) ==
  /\ Idle
  /\ steps # <<>>
  /\ command' = [tag |-> ArchitectureTag(argument)]
  /\ script' = steps
  /\ UNCHANGED <<target, published, host>>

Doing(op, s) == ~Idle /\ Head(script) = <<op, s>>

\* Docker may refuse a build that is not for the host's platform; a name
\* nothing was pushed under it does refuse.
Refusable(b) == b # 0 => Architecture \notin pushes[b].platforms

\* docker compose pull: only the services named.
Pull(s) ==
  /\ Doing("pull", s)
  /\ LET found == Lookup(registry, s, command.tag)
     IN \/ Refusable(found) /\ Forget /\ UNCHANGED cache
        \/ /\ found # 0
           /\ cache' = [cache EXCEPT ![s][command.tag] = found]
           /\ Continue
  /\ UNCHANGED <<target, published, running>>

\* The image Compose starts s with: one that Docker has is not looked up.
ImageFor(s) ==
  IF Lookup(cache, s, command.tag) # 0 THEN Lookup(cache, s, command.tag)
  ELSE Lookup(registry, s, command.tag)

\* Mutant of Up: what GHCR has may be run in place of a cached image.
UpUncached(s) ==
  /\ Doing("up", s)
  /\ ImageFor(s) # 0
  /\ cache' = [cache EXCEPT ![s][command.tag] = ImageFor(s)]
  /\ \E source \in {cache', registry} :
       running' = [running EXCEPT ![s] =
         [tag |-> command.tag, build |-> Lookup(source, s, command.tag)]]
  /\ Continue
  /\ UNCHANGED <<target, published>>

\* Mutant of Up: a missing image goes unnoticed.
UpUnchecked(s) ==
  /\ Doing("up", s)
  /\ running' = [d \in Services |->
       IF d \in {s} \cup DependsOn(s) THEN [tag |-> command.tag, build |-> ImageFor(d)]
       ELSE running[d]]
  /\ Continue
  /\ UNCHANGED <<target, published, cache>>

\* docker compose up with the override that write generates for the tag: s
\* and what it depends on run the image of that tag, recreated if need be.
Up(s) ==
  /\ Doing("up", s)
  /\ LET G == {s} \cup DependsOn(s)
     IN \/ (\E d \in G : Refusable(ImageFor(d))) /\ Forget /\ UNCHANGED <<cache, running>>
        \/ /\ \A d \in G : ImageFor(d) # 0
           /\ cache' = [i \in Services |->
                IF i \in G THEN [cache[i] EXCEPT ![command.tag] = ImageFor(i)]
                ELSE cache[i]]
           /\ running' = [d \in Services |->
                IF d \in G THEN [tag |-> command.tag, build |-> ImageFor(d)]
                ELSE running[d]]
           /\ Continue
  /\ UNCHANGED <<target, published>>

\* A probe fails, a service stays unhealthy, or the process is killed.
Interrupt ==
  /\ ~Idle
  /\ Forget
  /\ UNCHANGED <<target, published, host>>

-----------------------------------------------------------------------------

Publish ==
  \/ \E r \in Releases, a \in Archs, P \in Platforms, S \in SUBSET Services :
       StartPush(r, a, P, S)
  \/ \E n \in DOMAIN pushes : FailPush(n) \/ \E i \in Services : PushTag(n, i)

Operate ==
  \/ DestroyNebula
  \/ \E t \in TagArguments :
       \/ \E explorer \in BOOLEAN : StartDeploy(t, DeployStack(explorer))
       \/ \E s \in Services : StartDeploy(t, Deploy(s))

Execute ==
  \/ \E s \in Services : Pull(s) \/ Up(s)
  \/ Interrupt

Next == Publish \/ Operate \/ Execute

Spec == Init /\ [][Next]_vars

-----------------------------------------------------------------------------
(* Properties *)

\* A redeploy under the same tag never takes a service back to an older
\* build, however far the host's cache is behind GHCR - deploy pulls on OCI
\* only, and no dependency - unless two pushes wrote the tag at once.
NeverRollsBack ==
  [][\A s \in Services :
       running[s] # NotRunning /\ running'[s].tag = running[s].tag =>
         \/ running'[s].build >= running[s].build
         \/ running[s].tag \in overlapped]_vars

\* Under the tag of a release a container runs a build of that release, and a
\* build for its host's architecture unless the push was given an --arch that
\* is none of its --platforms: however pushes for other hosts and releases
\* interleave and whatever the caches hold.
RunsHostBuild ==
  \A s \in Services : running[s] # NotRunning =>
    LET p == pushes[running[s].build]
    IN /\ running[s].tag[1] \in {p.release, "latest"}
       /\ Architecture \in p.platforms \/ p.arch \notin p.platforms

\* Images under one tag come from different pushes only while a push that
\* writes the tag runs, after one that reported a failure or was told to push
\* some images only, or after two wrote the tag at once.
MixedOnlyByBrokenPush ==
  \A t \in Tags : \A i, j \in Services :
    registry[i][t] # registry[j][t] =>
      \/ t \in overlapped
      \/ \E n \in DOMAIN pushes : /\ t \in Writes(n)
                                  /\ \/ Active(n)
                                     \/ pushes[n].failed
                                     \/ pushes[n].selected # Services

=============================================================================
