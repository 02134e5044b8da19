-------------------------- MODULE ImageRolloutProofs --------------------------
(***************************************************************************)
(* Which build a container runs, for any releases, services and number of  *)
(* pushes: the tag a name carries tells the architecture and the release   *)
(* of the push it came from, in GHCR, in the cache and in the container.   *)
(* When one tag stands for two builds, why no redeploy takes a service     *)
(* back, and the types of the state.                                       *)
(***************************************************************************)
EXTENDS ImageRollout, TLAPS

\* Push b has tag t among its release tags.
Fits(b, t) == t[2] = pushes[b].arch /\ t[1] \in {pushes[b].release, "latest"}

\* Every image under a tag comes from a push of that tag.
Labelled(images) ==
  \A i \in Services, t \in Tags :
    images[i][t] # 0 => images[i][t] \in DOMAIN pushes /\ Fits(images[i][t], t)

\* The names a push has still to write are its own.
PushesOwn ==
  /\ pushes \in Seq(PushRecord)
  /\ \A n \in DOMAIN pushes :
       /\ pushes[n].tags # <<>>
       /\ \A k \in DOMAIN pushes[n].tags : Fits(n, pushes[n].tags[k])

\* The host asks for tags of its own architecture only.
CommandOwn == command.tag \in Tags => command.tag[2] = Architecture

ContainersOwn ==
  \A s \in Services : running[s] # NotRunning =>
    /\ running[s].tag \in Tags /\ running[s].tag[2] = Architecture
    /\ running[s].build \in DOMAIN pushes /\ Fits(running[s].build, running[s].tag)

IInv ==
  /\ target \in {"local", "oci"}
  /\ PushesOwn
  /\ registry \in [Services -> [Tags -> Nat]] /\ Labelled(registry)
  /\ cache \in [Services -> [Tags -> Nat]] /\ Labelled(cache)
  /\ running \in [Services -> {NotRunning} \cup [tag : Tags, build : Nat]]
  /\ CommandOwn
  /\ ContainersOwn

USE TargetsAssumption, ServicesAssumption, ReleasesAssumption, ArchsAssumption,
    PlatformsAssumption, BoundsAssumption

\* A push keeps its release and its architecture.
PushesKept ==
  \A n \in DOMAIN pushes :
    /\ n \in DOMAIN pushes'
    /\ pushes'[n].release = pushes[n].release /\ pushes'[n].arch = pushes[n].arch

\* release_tags names the release and latest, both with the architecture.
LEMMA ReleaseTagsFact ==
  ASSUME NEW r \in Releases, NEW a \in Archs
  PROVE  /\ ReleaseTags(r, a) \in Seq(Tags) /\ ReleaseTags(r, a) # <<>>
         /\ DOMAIN ReleaseTags(r, a) = 1 .. 2
         /\ \A k \in 1 .. 2 : /\ ReleaseTags(r, a)[k][2] = a
                              /\ ReleaseTags(r, a)[k][1] \in {r, "latest"}
BY DEF ReleaseTags, Tags, Names

\* Whatever the operator gives as TAG, a tag that images can have is of the
\* host's architecture.
LEMMA ArchitectureTagFact ==
  ASSUME NEW t \in TagArguments, NEW x, x = ArchitectureTag(t), x \in Tags
  PROVE  x[2] = Architecture
<1> DEFINE S == Names \cup {"amd64", "arm64"}
<1>1. Len(x) = 2
  BY DEF Tags
<1>2. t \in Seq(S) /\ Len(t) \in {1, 2}
  <2>1. ASSUME NEW m \in Names, t = <<m>> PROVE t \in Seq(S) /\ Len(t) \in {1, 2}
    BY <2>1
  <2>2. ASSUME NEW m \in Names, NEW a \in {"amd64", "arm64"}, t = <<m, a>>
        PROVE  t \in Seq(S) /\ Len(t) \in {1, 2}
    BY <2>2
  <2> QED
    BY <2>1, <2>2 DEF TagArguments, Names
<1>3. Architecture \in S
  BY DEF Architecture
<1>4. CASE t[Len(t)] = Architecture
  BY <1>1, <1>4 DEF ArchitectureTag
<1>5. CASE t[Len(t)] # Architecture
  <2>1. x = Append(t, Architecture)
    BY <1>5 DEF ArchitectureTag
  <2> QED
    BY <2>1, <1>1, <1>2, <1>3
<1> QED
  BY <1>4, <1>5

\* The tag of no deploy is no image's.
LEMMA NoDeployFact == NoDeploy.tag \notin Tags
BY DEF NoDeploy, Tags

\* A step that only lets pushes go on preserves the invariant.
LEMMA KeptIInv ==
  ASSUME IInv, PushesKept, PushesOwn', UNCHANGED <<target, registry, cache, running>>,
         command' \in {command, NoDeploy}
  PROVE  IInv'
<1>0. \A b \in DOMAIN pushes, t \in Tags : Fits(b, t) => b \in DOMAIN pushes' /\ Fits(b, t)'
  BY DEF Fits, PushesKept
<1>1. Labelled(registry)'
  <2>1. registry' = registry /\ Labelled(registry)
    BY DEF IInv
  <2>2. ASSUME NEW i \in Services, NEW t \in Tags, registry[i][t] # 0
        PROVE  registry[i][t] \in DOMAIN pushes' /\ Fits(registry[i][t], t)'
    BY <1>0, <2>1, <2>2 DEF Labelled
  <2> QED
    BY <2>1, <2>2 DEF Labelled
<1>2. Labelled(cache)'
  <2>1. cache' = cache /\ Labelled(cache)
    BY DEF IInv
  <2>2. ASSUME NEW i \in Services, NEW t \in Tags, cache[i][t] # 0
        PROVE  cache[i][t] \in DOMAIN pushes' /\ Fits(cache[i][t], t)'
    BY <1>0, <2>1, <2>2 DEF Labelled
  <2> QED
    BY <2>1, <2>2 DEF Labelled
<1>3. CommandOwn'
  <2>1. Architecture' = Architecture
    BY DEF Architecture
  <2>2. CASE command' = command
    BY <2>1, <2>2 DEF IInv, CommandOwn
  <2>3. CASE command' = NoDeploy
    BY <2>3, NoDeployFact DEF CommandOwn
  <2> QED
    BY <2>2, <2>3
<1>4. ContainersOwn'
  BY DEF IInv, ContainersOwn, PushesKept, Fits, Architecture
<1> QED
  BY <1>1, <1>2, <1>3, <1>4 DEF IInv

\* An empty registry and an empty host satisfy the invariant.
LEMMA InitIInv == Init => IInv
<1> SUFFICES ASSUME Init PROVE IInv
  OBVIOUS
<1>1. PushesOwn
  BY DEF Init, PushesOwn
<1>2. registry \in [Services -> [Tags -> Nat]] /\ Labelled(registry)
  BY DEF Init, Labelled
<1>3. cache \in [Services -> [Tags -> Nat]] /\ Labelled(cache)
  BY DEF Init, Labelled
<1>4. CommandOwn
  BY DEF Init, CommandOwn, NoDeploy, Tags
<1>5. running \in [Services -> {NotRunning} \cup [tag : Tags, build : Nat]] /\ ContainersOwn
  BY DEF Init, ContainersOwn
<1> QED
  BY <1>1, <1>2, <1>3, <1>4, <1>5 DEF Init, IInv

\* A push that starts extends the sequence and keeps what is in it.
LEMMA StartPushIInv ==
  ASSUME IInv, NEW r \in Releases, NEW a \in Archs, NEW P \in Platforms,
         NEW S \in SUBSET Services, StartPush(r, a, P, S)
  PROVE  IInv'
<1> DEFINE p == [release |-> r, arch |-> a, platforms |-> P, selected |-> S, left |-> S,
                 tags |-> ReleaseTags(r, a), failed |-> FALSE]
<1>1. p \in PushRecord
  BY ReleaseTagsFact DEF PushRecord
<1>2. pushes \in Seq(PushRecord) /\ pushes' = Append(pushes, p)
  BY DEF IInv, PushesOwn, StartPush
<1>3. /\ pushes' \in Seq(PushRecord) /\ Len(pushes') = Len(pushes) + 1
      /\ \A n \in 1 .. Len(pushes) : pushes'[n] = pushes[n]
      /\ pushes'[Len(pushes) + 1] = p
  BY <1>1, <1>2
<1>4. PushesKept
  BY <1>2, <1>3 DEF PushesKept
<1>5. PushesOwn'
  <2> SUFFICES ASSUME NEW n \in DOMAIN pushes'
               PROVE  /\ pushes'[n].tags # <<>>
                      /\ \A k \in DOMAIN pushes'[n].tags : Fits(n, pushes[n].tags[k])'
    BY <1>3 DEF PushesOwn
  <2>1. CASE n = Len(pushes) + 1
    <3>1. pushes'[n].tags = ReleaseTags(r, a) /\ pushes'[n].release = r /\ pushes'[n].arch = a
      BY <2>1, <1>3
    <3> QED
      BY <3>1, ReleaseTagsFact DEF Fits
  <2>2. CASE n \in 1 .. Len(pushes)
    <3>1. pushes'[n] = pushes[n] /\ n \in DOMAIN pushes
      BY <2>2, <1>2, <1>3
    <3> QED
      BY <3>1 DEF IInv, PushesOwn, Fits
  <2> QED
    BY <2>1, <2>2, <1>2, <1>3
<1>6. UNCHANGED <<target, registry, cache, running, command>>
  BY DEF StartPush, host, execution
<1> QED
  BY <1>4, <1>5, <1>6, KeptIInv

\* A push may change, if not in its release and architecture.
LEMMA ReplacedPush ==
  ASSUME PushesOwn, NEW n \in DOMAIN pushes, NEW q \in PushRecord,
         q.release = pushes[n].release, q.arch = pushes[n].arch,
         q.tags # <<>>, \A k \in DOMAIN q.tags : Fits(n, q.tags[k]),
         pushes' = [pushes EXCEPT ![n] = q]
  PROVE  PushesOwn' /\ PushesKept
<1>1. pushes \in Seq(PushRecord)
  BY DEF PushesOwn
<1>2. /\ pushes' \in Seq(PushRecord) /\ DOMAIN pushes' = DOMAIN pushes
      /\ pushes'[n] = q /\ \A m \in DOMAIN pushes \ {n} : pushes'[m] = pushes[m]
  BY <1>1
<1>3. PushesKept
  BY <1>2 DEF PushesKept
<1>4. ASSUME NEW m \in DOMAIN pushes'
      PROVE  /\ pushes'[m].tags # <<>>
             /\ \A k \in DOMAIN pushes'[m].tags : Fits(m, pushes[m].tags[k])'
  <2>1. CASE m = n
    BY <1>2, <2>1 DEF Fits
  <2>2. CASE m # n
    BY <1>2, <2>2 DEF PushesOwn, Fits
  <2> QED
    BY <2>1, <2>2
<1> QED
  BY <1>2, <1>3, <1>4 DEF PushesOwn

\* A push writes one of its own names, then forgets it or takes the next image.
LEMMA PushTagIInv ==
  ASSUME IInv, NEW n \in DOMAIN pushes, NEW i \in Services, PushTag(n, i)
  PROVE  IInv'
<1> DEFINE p == pushes[n]
           t == Head(p.tags)
           rest == Tail(p.tags)
<1>0. PushesOwn /\ pushes \in Seq(PushRecord) /\ n \in 1 .. Len(pushes)
  BY DEF IInv, PushesOwn
<1>1. p \in PushRecord /\ p.tags # <<>> /\ \A k \in DOMAIN p.tags : Fits(n, p.tags[k])
  BY <1>0 DEF PushesOwn
<1>2. p.release \in Releases /\ p.arch \in Archs /\ p.left \in SUBSET Services /\ p.tags \in Seq(Tags)
  BY <1>1 DEF PushRecord
<1>3. t = p.tags[1] /\ t \in Tags /\ Fits(n, t) /\ n \in Nat \ {0}
  BY <1>0, <1>1, <1>2
<1>4. PushesOwn' /\ PushesKept
  <2>1. CASE rest # <<>>
    <3> DEFINE q == [p EXCEPT !.tags = rest]
    <3>1. pushes' = [pushes EXCEPT ![n] = q]
      BY <2>1 DEF PushTag
    <3>2. rest \in Seq(Tags) /\ \A k \in DOMAIN rest : Fits(n, rest[k])
      BY <1>1, <1>2
    <3>3. q \in PushRecord /\ q.tags = rest /\ q.release = p.release /\ q.arch = p.arch
      BY <1>1, <3>2 DEF PushRecord
    <3> HIDE DEF q, rest
    <3> QED
      BY <1>0, <2>1, <3>1, <3>2, <3>3, ReplacedPush
  <2>2. CASE rest = <<>>
    <3> DEFINE all == ReleaseTags(p.release, p.arch)
               q == [p EXCEPT !.left = @ \ {i}, !.tags = all]
    <3>1. pushes' = [pushes EXCEPT ![n] = q]
      BY <2>2, <1>1 DEF PushTag, PushRecord
    <3>2. all \in Seq(Tags) /\ all # <<>> /\ \A k \in DOMAIN all : Fits(n, all[k])
      <4>1. /\ all \in Seq(Tags) /\ all # <<>> /\ DOMAIN all = 1 .. 2
            /\ \A k \in 1 .. 2 : all[k][2] = p.arch /\ all[k][1] \in {p.release, "latest"}
        BY <1>2, ReleaseTagsFact
      <4> HIDE DEF all
      <4> QED
        BY <4>1 DEF Fits
    <3> HIDE DEF all
    <3>3. q \in PushRecord /\ q.tags = all /\ q.release = p.release /\ q.arch = p.arch
      BY <1>1, <3>2 DEF PushRecord
    <3> HIDE DEF q
    <3> QED
      BY <1>0, <3>1, <3>2, <3>3, ReplacedPush
  <2> QED
    BY <2>1, <2>2
<1>5. registry' = [registry EXCEPT ![i][t] = n]
  BY DEF PushTag
<1>6. n \in DOMAIN pushes' /\ t[2] = pushes'[n].arch /\ t[1] \in {pushes'[n].release, "latest"}
  BY <1>0, <1>3, <1>4 DEF PushesKept, Fits
<1>7. registry' \in [Services -> [Tags -> Nat]]
  BY <1>3, <1>5 DEF IInv
<1> HIDE DEF t, rest
<1>8. ASSUME NEW j \in Services, NEW u \in Tags, registry'[j][u] # 0
      PROVE  registry'[j][u] \in DOMAIN pushes' /\ Fits(registry[j][u], u)'
  <2>1. CASE j = i /\ u = t
    <3>1. registry'[j][u] = n
      BY <2>1, <1>3, <1>5 DEF IInv
    <3> QED
      BY <2>1, <3>1, <1>6 DEF Fits
  <2>2. CASE ~(j = i /\ u = t)
    <3>1. registry'[j][u] = registry[j][u]
      BY <2>2, <1>3, <1>5 DEF IInv
    <3>2. registry[j][u] # 0
      BY <1>8, <3>1
    <3>3. registry[j][u] \in DOMAIN pushes /\ Fits(registry[j][u], u)
      BY <3>2 DEF IInv, Labelled
    <3>4. /\ registry[j][u] \in DOMAIN pushes'
          /\ pushes'[registry[j][u]].release = pushes[registry[j][u]].release
          /\ pushes'[registry[j][u]].arch = pushes[registry[j][u]].arch
      BY <1>4, <3>3 DEF PushesKept
    <3>5. u[2] = pushes'[registry[j][u]].arch
          /\ u[1] \in {pushes'[registry[j][u]].release, "latest"}
      BY <3>3, <3>4 DEF Fits
    <3> QED
      BY <3>1, <3>4, <3>5 DEF Fits
  <2> QED
    BY <2>1, <2>2
<1>9. Labelled(registry)'
  BY <1>8 DEF Labelled
<1>10. UNCHANGED <<target, cache, running>> /\ command' \in {command, NoDeploy}
  BY DEF PushTag, host, execution
<1>11. Labelled(cache)'
  <2>1. cache' = cache
    BY <1>10
  <2>2. SUFFICES ASSUME NEW j \in Services, NEW u \in Tags, cache[j][u] # 0
                 PROVE  /\ cache[j][u] \in DOMAIN pushes'
                        /\ u[2] = pushes'[cache[j][u]].arch
                        /\ u[1] \in {pushes'[cache[j][u]].release, "latest"}
    BY <2>1 DEF Labelled, Fits
  <2>3. cache[j][u] \in DOMAIN pushes /\ Fits(cache[j][u], u)
    BY <2>2 DEF IInv, Labelled
  <2>4. /\ cache[j][u] \in DOMAIN pushes'
        /\ pushes'[cache[j][u]].release = pushes[cache[j][u]].release
        /\ pushes'[cache[j][u]].arch = pushes[cache[j][u]].arch
    BY <1>4, <2>3 DEF PushesKept
  <2> QED
    BY <2>3, <2>4 DEF Fits
<1>12. CommandOwn'
  BY <1>10, NoDeployFact DEF IInv, CommandOwn, Architecture
<1>13. ContainersOwn'
  BY <1>4, <1>10 DEF IInv, ContainersOwn, PushesKept, Fits, Architecture
<1> QED
  BY <1>4, <1>7, <1>9, <1>10, <1>11, <1>12, <1>13 DEF IInv

\* A push that fails keeps what it is.
LEMMA FailPushIInv ==
  ASSUME IInv, NEW n \in DOMAIN pushes, FailPush(n)
  PROVE  IInv'
<1> DEFINE p == pushes[n]
           q == [p EXCEPT !.left = {}, !.failed = TRUE]
<1>1. PushesOwn /\ p \in PushRecord
  BY DEF IInv, PushesOwn
<1>2. p.tags # <<>> /\ \A k \in DOMAIN p.tags : Fits(n, p.tags[k])
  BY DEF IInv, PushesOwn
<1>3. pushes' = [pushes EXCEPT ![n] = q]
  BY <1>1 DEF FailPush, PushRecord
<1>4. q \in PushRecord /\ q.tags = p.tags /\ q.release = p.release /\ q.arch = p.arch
  BY <1>1 DEF PushRecord
<1>5. UNCHANGED <<target, registry, cache, running, command>>
  BY DEF FailPush, host, execution
<1> HIDE DEF q
<1>6. PushesOwn' /\ PushesKept
  BY <1>1, <1>2, <1>3, <1>4, ReplacedPush
<1> QED
  BY <1>5, <1>6, KeptIInv

\* What is looked up is a push of the tag.
LEMMA LookupFact ==
  ASSUME NEW images, images \in [Services -> [Tags -> Nat]], Labelled(images),
         NEW i \in Services, NEW t, Lookup(images, i, t) # 0
  PROVE  /\ t \in Tags /\ Lookup(images, i, t) \in Nat
         /\ Lookup(images, i, t) \in DOMAIN pushes /\ Fits(Lookup(images, i, t), t)
BY DEF Lookup, Labelled

\* A deploy that starts asks for a tag of the host.
LEMMA StartDeployIInv ==
  ASSUME IInv, NEW t \in TagArguments, NEW steps, StartDeploy(t, steps)
  PROVE  IInv'
<1>1. command'.tag = ArchitectureTag(t) /\ UNCHANGED <<target, pushes, registry, cache, running>>
  BY DEF StartDeploy, published, host
<1>2. CommandOwn'
  <2> SUFFICES ASSUME command'.tag \in Tags PROVE command'.tag[2] = Architecture
    BY <1>1 DEF CommandOwn, Architecture
  <2> QED
    BY <1>1, ArchitectureTagFact
<1>3. PushesOwn' /\ Labelled(registry)' /\ Labelled(cache)'
  BY <1>1 DEF IInv, PushesOwn, Labelled, Fits
<1>4. ContainersOwn'
  BY <1>1 DEF IInv, ContainersOwn, Fits, Architecture
<1> QED
  BY <1>1, <1>2, <1>3, <1>4 DEF IInv

\* A pull caches what GHCR has under the tag.
LEMMA PullIInv ==
  ASSUME IInv, NEW s \in Services, Pull(s)
  PROVE  IInv'
<1> DEFINE found == Lookup(registry, s, command.tag)
<1>1. UNCHANGED <<target, pushes, registry, running>> /\ command' \in {command, NoDeploy}
  BY DEF Pull, published, Forget, Continue
<1>2. cache' = cache \/ (found # 0 /\ cache' = [cache EXCEPT ![s][command.tag] = found])
  BY DEF Pull
<1>3. cache' \in [Services -> [Tags -> Nat]] /\ Labelled(cache)'
  <2>1. CASE cache' = cache
    BY <2>1, <1>1 DEF IInv, Labelled, Fits
  <2>2. CASE found # 0 /\ cache' = [cache EXCEPT ![s][command.tag] = found]
    <3>1. /\ command.tag \in Tags /\ found \in Nat
          /\ found \in DOMAIN pushes /\ Fits(found, command.tag)
      BY <2>2, LookupFact DEF IInv
    <3> HIDE DEF found
    <3> QED
      BY <2>2, <3>1, <1>1 DEF IInv, Labelled, Fits
  <2> QED
    BY <1>2, <2>1, <2>2
<1>4. CommandOwn'
  BY <1>1, NoDeployFact DEF IInv, CommandOwn, Architecture
<1>5. PushesOwn' /\ Labelled(registry)' /\ ContainersOwn'
  BY <1>1 DEF IInv, PushesOwn, Labelled, Fits, ContainersOwn, Architecture
<1> QED
  BY <1>1, <1>3, <1>4, <1>5 DEF IInv

\* What Compose starts a service with, if anything, is a push of the tag.
LEMMA ImageForFact ==
  ASSUME IInv, NEW i \in Services, ImageFor(i) # 0
  PROVE  /\ command.tag \in Tags /\ ImageFor(i) \in Nat
         /\ ImageFor(i) \in DOMAIN pushes /\ Fits(ImageFor(i), command.tag)
BY LookupFact DEF IInv, ImageFor

\* up runs and caches such images.
LEMMA UpIInv ==
  ASSUME IInv, NEW s \in Services, Up(s)
  PROVE  IInv'
<1> DEFINE G == {s} \cup DependsOn(s)
<1>1. UNCHANGED <<target, pushes, registry>> /\ command' \in {command, NoDeploy}
  BY DEF Up, published, Forget, Continue
<1>2. CASE cache' = cache /\ running' = running
  BY <1>1, <1>2, NoDeployFact
     DEF IInv, PushesOwn, Labelled, Fits, ContainersOwn, CommandOwn, Architecture
<1>3. CASE ~(cache' = cache /\ running' = running)
  <2>0. \A d \in G : ImageFor(d) # 0
    BY <1>3 DEF Up
  <2>1. /\ cache' = [i \in Services |->
             IF i \in G THEN [cache[i] EXCEPT ![command.tag] = ImageFor(i)] ELSE cache[i]]
        /\ running' = [d \in Services |->
             IF d \in G THEN [tag |-> command.tag, build |-> ImageFor(d)] ELSE running[d]]
    BY <1>3 DEF Up
  <2>2. \A i \in G : /\ i \in Services /\ command.tag \in Tags /\ ImageFor(i) \in Nat
                     /\ ImageFor(i) \in DOMAIN pushes /\ Fits(ImageFor(i), command.tag)
    BY <2>0, ImageForFact DEF DependsOn
  <2>3. command.tag[2] = Architecture
    BY <2>2 DEF IInv, CommandOwn
  <2> HIDE DEF G
  <2>4. cache' \in [Services -> [Tags -> Nat]]
    BY <2>1, <2>2 DEF IInv
  <2>5. Labelled(cache)'
    <3> SUFFICES ASSUME NEW i \in Services, NEW t \in Tags, cache'[i][t] # 0
                 PROVE  cache'[i][t] \in DOMAIN pushes /\ Fits(cache'[i][t], t)
      BY <1>1 DEF Labelled, Fits
    <3>1. CASE i \in G /\ t = command.tag
      BY <3>1, <2>1, <2>2 DEF IInv
    <3>2. CASE ~(i \in G /\ t = command.tag)
      <4>1. cache'[i][t] = cache[i][t]
        BY <3>2, <2>1 DEF IInv
      <4> QED
        BY <4>1 DEF IInv, Labelled
    <3> QED
      BY <3>1, <3>2
  <2>6. running' \in [Services -> {NotRunning} \cup [tag : Tags, build : Nat]]
    BY <2>1, <2>2 DEF IInv
  <2>7. ContainersOwn'
    <3> SUFFICES ASSUME NEW d \in Services, running'[d] # NotRunning
                 PROVE  /\ running'[d].tag \in Tags /\ running'[d].tag[2] = Architecture
                        /\ running'[d].build \in DOMAIN pushes
                        /\ Fits(running'[d].build, running'[d].tag)
      BY <1>1 DEF ContainersOwn, Fits, Architecture
    <3>1. CASE d \in G
      BY <3>1, <2>1, <2>2, <2>3
    <3>2. CASE d \notin G
      BY <3>2, <2>1 DEF IInv, ContainersOwn
    <3> QED
      BY <3>1, <3>2
  <2>8. CommandOwn'
    BY <1>1, NoDeployFact DEF IInv, CommandOwn, Architecture
  <2>9. PushesOwn' /\ Labelled(registry)'
    BY <1>1 DEF IInv, PushesOwn, Labelled, Fits
  <2> QED
    BY <1>1, <2>4, <2>5, <2>6, <2>7, <2>8, <2>9 DEF IInv
<1> QED
  BY <1>2, <1>3 DEF Up

\* destroy and an interrupted command only take containers away.
LEMMA DestroyIInv == IInv /\ DestroyNebula => IInv'
<1> SUFFICES ASSUME IInv, DestroyNebula PROVE IInv'
  OBVIOUS
<1>1. UNCHANGED <<target, pushes, registry, cache>> /\ command' = NoDeploy
  BY DEF DestroyNebula, published, Forget
<1>2. /\ running' \in [Services -> {NotRunning} \cup [tag : Tags, build : Nat]]
      /\ \A s \in Services : running'[s] \in {NotRunning, running[s]}
  BY DEF DestroyNebula, IInv
<1>3. CommandOwn' /\ ContainersOwn'
  BY <1>1, <1>2, NoDeployFact DEF IInv, CommandOwn, ContainersOwn, Fits, Architecture
<1>4. PushesOwn' /\ Labelled(registry)' /\ Labelled(cache)'
  BY <1>1 DEF IInv, PushesOwn, Labelled, Fits
<1> QED
  BY <1>1, <1>2, <1>3, <1>4 DEF IInv

\* Every step of a push or of a host command preserves the invariant.
LEMMA NextIInv == IInv /\ [Next]_vars => IInv'
<1> SUFFICES ASSUME IInv, [Next]_vars PROVE IInv'
  OBVIOUS
<1>1. CASE Publish
  BY <1>1, StartPushIInv, PushTagIInv, FailPushIInv DEF Publish
<1>2. CASE Operate
  BY <1>2, DestroyIInv, StartDeployIInv DEF Operate
<1>3. CASE \E s \in Services : Pull(s) \/ Up(s)
  BY <1>3, PullIInv, UpIInv
<1>4. CASE Interrupt \/ UNCHANGED vars
  <2>1. UNCHANGED <<target, pushes, registry, cache, running>> /\ command' \in {command, NoDeploy}
    BY <1>4 DEF Interrupt, Forget, published, host, vars
  <2>2. PushesOwn' /\ PushesKept
    BY <2>1 DEF IInv, PushesOwn, PushesKept, Fits
  <2> QED
    BY <2>1, <2>2, KeptIInv
<1> QED
  BY <1>1, <1>2, <1>3, <1>4 DEF Next, Execute

\* The inductive invariant holds in every reachable state.
THEOREM Invariance == Spec => []IInv
BY InitIInv, NextIInv, PTL DEF Spec

\* Under the tag of a release no container runs a build of another release,
\* and a build that is not for its architecture only if --arch was none of the
\* platforms of its push (runtime_images.py:67, images.py:131,
\* image_pipeline.py:157).
THEOREM HostBuilds == Spec => []RunsHostBuild
<1>1. IInv => RunsHostBuild
  BY DEF IInv, ContainersOwn, Fits, RunsHostBuild
<1> QED
  BY <1>1, Invariance, PTL

-----------------------------------------------------------------------------
(* Images under one tag *)

First(n) == <<pushes[n].release, pushes[n].arch>>

Second(n) == <<"latest", pushes[n].arch>>

Writers(t) == {n \in DOMAIN pushes : t \in Writes(n)}

IsLast(n, t) == n \in Writers(t) /\ \A m \in Writers(t) : m <= n

\* A push writes the tag of its release first, then latest.
InOrder ==
  \A n \in DOMAIN pushes : pushes[n].tags \in {<<First(n), Second(n)>>, <<Second(n)>>}

\* Push n wrote tag t of the images it is done with, and of the image it is
\* at when t is no longer to be written.
Wrote(n, t) ==
  /\ \A i \in pushes[n].selected \ pushes[n].left : registry[i][t] = n
  /\ \A i \in Services :
       IsNext(i, pushes[n].left) /\ t \notin Range(pushes[n].tags) => registry[i][t] = n

\* Pushes that never wrote a tag at once wrote it one after the other, and
\* what GHCR has under it is the last one's.
LastWins(t) ==
  /\ Writers(t) # {} => \E n \in Writers(t) : IsLast(n, t)
  /\ \A m, n \in Writers(t) : m < n => ~Active(m)
  /\ \A n \in Writers(t) : IsLast(n, t) /\ ~pushes[n].failed => Wrote(n, t)

TagInv == InOrder /\ \A t \in Tags : t \notin overlapped => LastWins(t)

\* The image a push is at is determined by those it has left.
LEMMA NextIsUnique ==
  ASSUME NEW S, NEW i, NEW j, IsNext(i, S), IsNext(j, S)
  PROVE  i = j
<1> SUFFICES ASSUME i # j PROVE FALSE
  OBVIOUS
<1>1. PICK k, l \in DOMAIN PushOrder : k < l /\ PushOrder[k] = i /\ PushOrder[l] = j
  BY DEF IsNext
<1>2. PICK m, n \in DOMAIN PushOrder : m < n /\ PushOrder[m] = j /\ PushOrder[n] = i
  BY DEF IsNext
<1>3. DOMAIN PushOrder = 1 .. 5 /\ \A x, y \in 1 .. 5 : PushOrder[x] = PushOrder[y] => x = y
  BY DEF PushOrder
<1>4. k = n /\ l = m
  BY <1>1, <1>2, <1>3
<1> QED
  BY <1>1, <1>2, <1>3, <1>4

\* A name with the suffix of an architecture is a tag.
LEMMA TagsFact == \A n \in Names, a \in {"amd64", "arm64"} : <<n, a>> \in Tags
BY DEF Tags

\* A push writes two different tags, and those that fit it.
LEMMA WritesFact ==
  ASSUME PushesOwn, NEW n \in DOMAIN pushes
  PROVE  /\ Writes(n) = {First(n), Second(n)} /\ First(n) # Second(n)
         /\ First(n) \in Tags /\ Second(n) \in Tags
         /\ \A t \in Tags : Fits(n, t) => t \in Writes(n)
<1>0. pushes[n] \in PushRecord
  BY DEF PushesOwn
<1>1. pushes[n].release \in Releases /\ pushes[n].arch \in Archs
  BY <1>0 DEF PushRecord
<1>2. Writes(n) = {First(n), Second(n)}
  BY DEF Writes, ReleaseTags, First, Second
<1>3. First(n) # Second(n) /\ First(n) \in Tags /\ Second(n) \in Tags
  <2>1. pushes[n].release # "latest"
    BY <1>1
  <2>2. First(n)[1] = pushes[n].release /\ Second(n)[1] = "latest"
    BY DEF First, Second
  <2>3. First(n) \in Tags /\ Second(n) \in Tags
    BY <1>1, TagsFact DEF First, Second, Names
  <2> QED
    BY <2>1, <2>2, <2>3
<1>4. \A t \in Tags : t = <<t[1], t[2]>>
  BY DEF Tags
<1>5. \A t \in Tags : Fits(n, t) => t \in {First(n), Second(n)}
  BY <1>4 DEF Fits, First, Second
<1> QED
  BY <1>2, <1>3, <1>5

\* A step that leaves the pushes, GHCR and the overlaps alone.
LEMMA SameTagInv ==
  ASSUME TagInv, UNCHANGED <<pushes, registry, overlapped>>
  PROVE  TagInv'
BY DEF TagInv, InOrder, First, Second, LastWins, Writers, Writes, IsLast, Active, Wrote

\* A push that starts is the last to write its tags; a tag of a push that
\* still runs is given up to overlapped.
LEMMA StartPushTagInv ==
  ASSUME IInv, TagInv, NEW r \in Releases, NEW a \in Archs, NEW P \in Platforms,
         NEW S \in SUBSET Services, StartPush(r, a, P, S), IInv'
  PROVE  TagInv'
<1> DEFINE p == [release |-> r, arch |-> a, platforms |-> P, selected |-> S, left |-> S,
                 tags |-> ReleaseTags(r, a), failed |-> FALSE]
<1> PICK new : new = Len(pushes) + 1
  OBVIOUS
<1>1. p \in PushRecord
  BY ReleaseTagsFact DEF PushRecord
<1>2. pushes \in Seq(PushRecord) /\ pushes' = Append(pushes, p)
  BY DEF IInv, PushesOwn, StartPush
<1>3. /\ DOMAIN pushes' = DOMAIN pushes \cup {new} /\ new \notin DOMAIN pushes
      /\ \A n \in DOMAIN pushes : pushes'[n] = pushes[n] /\ n < new /\ n \in Nat
      /\ pushes'[new] = p /\ new \in Nat
  BY <1>1, <1>2
<1>4. /\ registry' = registry
      /\ overlapped' = overlapped \cup UNION {Writes(n) \cap Range(ReleaseTags(r, a)) :
                                                n \in {m \in DOMAIN pushes : Active(m)}}
  BY DEF StartPush
<1>5. /\ Writes(new)' = Range(ReleaseTags(r, a))
      /\ pushes'[new].tags = <<First(new), Second(new)>>'
      /\ Range(ReleaseTags(r, a)) = Range(pushes'[new].tags)
  <2>1. ReleaseTags(r, a) = <<<<r, a>>, <<"latest", a>>>>
    BY DEF ReleaseTags
  <2>2. Range(ReleaseTags(r, a)) = {<<r, a>>, <<"latest", a>>}
    BY <2>1 DEF Range
  <2>3. First(new)' = <<r, a>> /\ Second(new)' = <<"latest", a>> /\ pushes'[new].tags = ReleaseTags(r, a)
    BY <1>3 DEF First, Second
  <2>4. Writes(new)' = {ReleaseTags(r, a)[k] : k \in 1 .. 2}
    BY <1>3 DEF Writes
  <2>5. Writes(new)' = {<<r, a>>, <<"latest", a>>}
    BY <2>1, <2>4
  <2>6. pushes'[new].tags = <<First(new)', Second(new)'>>
    BY <2>1, <2>3
  <2> QED
    BY <2>2, <2>3, <2>5, <2>6
<1> HIDE DEF p
<1>6. \A n \in DOMAIN pushes : /\ Writes(n)' = Writes(n) /\ Active(n)' = Active(n)
                               /\ First(n)' = First(n) /\ Second(n)' = Second(n)
                               /\ \A t : Wrote(n, t)' = Wrote(n, t)
  BY <1>3, <1>4 DEF Writes, Active, First, Second, Wrote
<1>7. InOrder'
  BY <1>3, <1>5, <1>6 DEF TagInv, InOrder
<1>8. ASSUME NEW t \in Tags, t \notin overlapped' PROVE LastWins(t)'
  <2>1. t \notin overlapped /\ LastWins(t)
    BY <1>4, <1>8 DEF TagInv
  <2>2. CASE t \in Writes(new)'
    <3>1. Writers(t)' = Writers(t) \cup {new}
      BY <1>3, <1>6, <2>2 DEF Writers
    <3>2. \A n \in Writers(t) : ~Active(n)
      BY <1>4, <1>5, <1>8, <2>2 DEF Writers
    <3>3. \A n \in Writers(t)' : n <= new
      BY <1>3, <3>1 DEF Writers
    <3>4. IsLast(new, t)'
      BY <3>1, <3>3 DEF IsLast
    <3>5. \A n \in Writers(t)' : IsLast(n, t)' => n = new
      BY <1>3, <3>1, <3>3 DEF IsLast, Writers
    <3>6. Wrote(new, t)'
      BY <1>3, <1>5, <2>2 DEF Wrote, p
    <3>7. \A m, n \in Writers(t)' : m < n => m \in Writers(t)
      BY <1>3, <3>1, <3>3 DEF Writers
    <3>8. \A m \in Writers(t) : Active(m)' = Active(m)
      BY <1>6 DEF Writers
    <3> QED
      BY <3>1, <3>2, <3>4, <3>5, <3>6, <3>7, <3>8 DEF LastWins
  <2>3. CASE t \notin Writes(new)'
    <3>1. Writers(t)' = Writers(t)
      BY <1>3, <1>6, <2>3 DEF Writers
    <3>2. \A n \in Writers(t) : /\ Active(n)' = Active(n) /\ Wrote(n, t)' = Wrote(n, t)
                                /\ pushes'[n] = pushes[n] /\ IsLast(n, t)' = IsLast(n, t)
      BY <1>3, <1>6, <3>1 DEF Writers, IsLast
    <3> QED
      BY <2>1, <3>1, <3>2 DEF LastWins
  <2> QED
    BY <2>2, <2>3
<1> QED
  BY <1>7, <1>8 DEF TagInv

\* Push m keeps what its tags are made of.
SamePush(m) ==
  pushes'[m].release = pushes[m].release /\ pushes'[m].arch = pushes[m].arch

\* The tags of a push follow from its release and its architecture.
LEMMA SamePushFact ==
  ASSUME NEW m, SamePush(m)
  PROVE  Writes(m)' = Writes(m) /\ First(m)' = First(m) /\ Second(m)' = Second(m)
BY DEF SamePush, Writes, First, Second

\* A push that fails promises nothing any more.
LEMMA FailPushTagInv ==
  ASSUME IInv, TagInv, NEW n \in DOMAIN pushes, FailPush(n)
  PROVE  TagInv'
<1>1. pushes \in Seq(PushRecord) /\ pushes[n] \in PushRecord
  BY DEF IInv, PushesOwn
<1>2. /\ pushes' = [pushes EXCEPT ![n].left = {}, ![n].failed = TRUE]
      /\ UNCHANGED <<registry, overlapped>>
  BY DEF FailPush
<1>3. /\ DOMAIN pushes' = DOMAIN pushes
      /\ \A m \in DOMAIN pushes \ {n} : pushes'[m] = pushes[m]
      /\ pushes'[n] = [pushes[n] EXCEPT !.left = {}, !.failed = TRUE]
  BY <1>1, <1>2
<1>4. /\ pushes'[n].left = {} /\ pushes'[n].failed = TRUE /\ pushes'[n].tags = pushes[n].tags
      /\ pushes'[n].release = pushes[n].release /\ pushes'[n].arch = pushes[n].arch
  BY <1>1, <1>3 DEF PushRecord
<1>5. \A m \in DOMAIN pushes : /\ Writes(m)' = Writes(m) /\ First(m)' = First(m)
                               /\ Second(m)' = Second(m) /\ pushes'[m].tags = pushes[m].tags
                               /\ Active(m)' => Active(m)
  <2>1. \A m \in DOMAIN pushes : SamePush(m)
    BY <1>3, <1>4 DEF SamePush
  <2>2. \A m \in DOMAIN pushes : Active(m)' => Active(m)
    BY <1>3, <1>4 DEF Active
  <2>3. \A m \in DOMAIN pushes : pushes'[m].tags = pushes[m].tags
    BY <1>3, <1>4
  <2> QED
    BY <2>1, <2>2, <2>3, SamePushFact
<1>6. InOrder'
  BY <1>3, <1>5 DEF TagInv, InOrder
<1>7. ASSUME NEW t \in Tags, t \notin overlapped PROVE LastWins(t)'
  <2>1. Writers(t)' = Writers(t)
    BY <1>3, <1>5 DEF Writers
  <2>2. \A m \in Writers(t) : IsLast(m, t)' = IsLast(m, t)
    BY <2>1 DEF IsLast
  <2>3. \A m \in Writers(t) : m # n => pushes'[m] = pushes[m] /\ Wrote(m, t)' = Wrote(m, t)
    BY <1>2, <1>3 DEF Writers, Wrote
  <2>4. \A m \in Writers(t) : Active(m)' => Active(m)
    BY <1>5 DEF Writers
  <2>5. LastWins(t)
    BY <1>7 DEF TagInv
  <2> QED
    BY <1>4, <2>1, <2>2, <2>3, <2>4, <2>5 DEF LastWins
<1> QED
  BY <1>2, <1>6, <1>7 DEF TagInv

\* A push that writes a tag is the last one to do so, or the tag is given up.
LEMMA PushTagTagInv ==
  ASSUME IInv, TagInv, NEW n \in DOMAIN pushes, NEW i \in Services, PushTag(n, i)
  PROVE  TagInv'
<1> DEFINE p == pushes[n]
<1>1. /\ PushesOwn /\ pushes \in Seq(PushRecord) /\ p \in PushRecord
      /\ IsNext(i, p.left) /\ i \in p.left /\ n \in Nat
  BY DEF IInv, PushesOwn, PushTag, IsNext
<1>2. p.release \in Releases /\ p.arch \in Archs /\ p.left \subseteq Services
  BY <1>1 DEF PushRecord
<1> PICK t0 : t0 = Head(p.tags)
  OBVIOUS
<1> PICK q : q = IF Tail(p.tags) # <<>> THEN [p EXCEPT !.tags = Tail(p.tags)]
                 ELSE [p EXCEPT !.left = @ \ {i}, !.tags = ReleaseTags(p.release, p.arch)]
  OBVIOUS
<1>3. /\ pushes' = [pushes EXCEPT ![n] = q]
      /\ registry' = [registry EXCEPT ![i][t0] = n] /\ overlapped' = overlapped
  BY <1>1 DEF PushTag, PushRecord
<1>4. /\ Writes(n) = {First(n), Second(n)} /\ First(n) # Second(n)
      /\ First(n) \in Tags /\ Second(n) \in Tags
  BY <1>1, WritesFact
<1>5. /\ q.release = p.release /\ q.arch = p.arch /\ q.failed = p.failed
      /\ q.selected = p.selected
  BY <1>1 DEF PushRecord
<1>6. \/ /\ t0 = First(n) /\ p.tags = <<First(n), Second(n)>>
         /\ q.tags = <<Second(n)>> /\ q.left = p.left
      \/ /\ t0 = Second(n) /\ p.tags = <<Second(n)>>
         /\ q.tags = <<First(n), Second(n)>> /\ q.left = p.left \ {i}
  <2>1. CASE p.tags = <<First(n), Second(n)>>
    <3>1. t0 = First(n) /\ Tail(p.tags) = <<Second(n)>> /\ Tail(p.tags) # <<>>
      BY <2>1
    <3>2. q = [p EXCEPT !.tags = Tail(p.tags)]
      BY <3>1
    <3> QED
      BY <2>1, <3>1, <3>2, <1>1 DEF PushRecord
  <2>2. CASE p.tags = <<Second(n)>>
    <3>1. t0 = Second(n) /\ Tail(p.tags) = <<>>
      BY <2>2
    <3>2. q = [p EXCEPT !.left = @ \ {i}, !.tags = ReleaseTags(p.release, p.arch)]
      BY <3>1
    <3>3. ReleaseTags(p.release, p.arch) = <<First(n), Second(n)>>
      BY DEF ReleaseTags, First, Second
    <3> QED
      BY <2>2, <3>1, <3>2, <3>3, <1>1 DEF PushRecord
  <2> QED
    BY <2>1, <2>2 DEF TagInv, InOrder
<1>7. /\ DOMAIN pushes' = DOMAIN pushes /\ pushes'[n] = q
      /\ \A m \in DOMAIN pushes \ {n} : pushes'[m] = pushes[m]
  BY <1>1, <1>3
<1> HIDE DEF p
<1>8. \A m \in DOMAIN pushes : /\ Writes(m)' = Writes(m) /\ First(m)' = First(m)
                               /\ Second(m)' = Second(m) /\ (Active(m)' => Active(m))
  <2>1. Active(n)
    BY <1>1 DEF Active, p
  <2>2. \A m \in DOMAIN pushes : SamePush(m)
    BY <1>5, <1>7 DEF SamePush, p
  <2>3. \A m \in DOMAIN pushes : Active(m)' => Active(m)
    BY <1>7, <2>1 DEF Active
  <2> QED
    BY <2>2, <2>3, SamePushFact
<1>9. InOrder'
  <2>1. q.tags \in {<<First(n), Second(n)>>', <<Second(n)>>'}
    BY <1>6, <1>8
  <2> QED
    BY <1>7, <1>8, <2>1 DEF TagInv, InOrder
<1>10. registry' \in [Services -> [Tags -> Nat]] /\ t0 \in Tags /\ t0 \in Writes(n)
       /\ registry'[i][t0] = n
       /\ \A j \in Services, t \in Tags :
            ~(j = i /\ t = t0) => registry'[j][t] = registry[j][t]
  <2>1. t0 \in Tags /\ t0 \in Writes(n)
    BY <1>4, <1>6
  <2> QED
    BY <1>1, <1>3, <2>1 DEF IInv
<1>11. ASSUME NEW t \in Tags, t \notin overlapped PROVE LastWins(t)'
  <2>1. LastWins(t)
    BY <1>11 DEF TagInv
  <2>2. Writers(t)' = Writers(t)
    BY <1>7, <1>8 DEF Writers
  <2>3. \A m \in Writers(t) : IsLast(m, t)' = IsLast(m, t)
    BY <2>2 DEF IsLast
  <2>4. ASSUME NEW m \in Writers(t), m # n, IsLast(m, t), ~pushes[m].failed
        PROVE  Wrote(m, t)'
    <3>1. t # t0
      <4> SUFFICES ASSUME t = t0 PROVE FALSE
        OBVIOUS
      <4>1. n \in Writers(t) /\ Active(n)
        BY <1>1, <1>10 DEF Writers, Active, p
      <4>2. n < m
        BY <1>1, <2>4, <4>1 DEF IsLast, Writers
      <4> QED
        BY <2>1, <4>1, <4>2 DEF LastWins
    <3>2. Wrote(m, t)
      BY <2>1, <2>4 DEF LastWins
    <3>3. pushes'[m] = pushes[m] /\ pushes[m] \in PushRecord
      BY <1>1, <1>7, <2>4 DEF Writers
    <3>4. pushes[m].selected \subseteq Services
      BY <3>3 DEF PushRecord
    <3> QED
      BY <1>10, <3>1, <3>2, <3>3, <3>4 DEF Wrote
  <2>5. ASSUME n \in Writers(t), IsLast(n, t), ~p.failed
        PROVE  Wrote(n, t)'
    <3>1. Wrote(n, t) /\ t \in {First(n), Second(n)}
      BY <1>4, <2>1, <2>5 DEF LastWins, Writers, p
    <3>2. p.selected \subseteq Services
      BY <1>1 DEF PushRecord
    <3>3. ASSUME NEW j \in p.selected \ q.left PROVE registry'[j][t] = n
      <4>1. CASE j = i
        <5>1. t0 = Second(n) /\ p.tags = <<Second(n)>>
          BY <1>1, <1>6, <3>3, <4>1
        <5>2. Range(p.tags) = {Second(n)}
          BY <5>1 DEF Range
        <5>3. t = First(n) => registry[i][t] = n
          BY <1>1, <1>4, <3>1, <5>2 DEF Wrote, p
        <5> QED
          BY <1>4, <1>10, <3>1, <4>1, <5>1, <5>3
      <4>2. CASE j # i
        BY <1>6, <1>10, <3>1, <3>2, <3>3, <4>2 DEF Wrote, p
      <4> QED
        BY <4>1, <4>2
    <3>4. ASSUME NEW j \in Services, IsNext(j, q.left), t \notin Range(q.tags)
          PROVE  registry'[j][t] = n
      <4>1. q.tags = <<Second(n)>> /\ q.left = p.left /\ t = First(n) /\ t = t0
        <5>1. Range(<<Second(n)>>) = {Second(n)}
          BY DEF Range
        <5>2. Range(<<First(n), Second(n)>>) = {First(n), Second(n)}
          BY DEF Range
        <5> QED
          BY <1>6, <3>1, <3>4, <5>1, <5>2
      <4>2. j = i
        BY <1>1, <3>4, <4>1, NextIsUnique
      <4> QED
        BY <1>10, <4>1, <4>2
    <3> QED
      BY <1>5, <1>7, <3>3, <3>4 DEF Wrote, p
  <2> QED
    BY <1>5, <1>7, <1>8, <2>1, <2>2, <2>3, <2>4, <2>5 DEF LastWins, Writers, p
<1> QED
  BY <1>3, <1>9, <1>11 DEF TagInv

\* Host commands do not touch what pushes write.
LEMMA NextTagInv == IInv /\ TagInv /\ [Next]_vars => TagInv'
<1> SUFFICES ASSUME IInv, TagInv, [Next]_vars PROVE TagInv'
  OBVIOUS
<1>1. IInv'
  BY NextIInv
<1>2. CASE Publish
  BY <1>1, <1>2, StartPushTagInv, FailPushTagInv, PushTagTagInv DEF Publish
<1>3. CASE Operate \/ Execute \/ UNCHANGED vars
  <2>1. UNCHANGED <<pushes, registry, overlapped>>
    BY <1>3 DEF Operate, Execute, DestroyNebula, StartDeploy, Pull, Up, Interrupt, published,
                vars
  <2> QED
    BY <2>1, SameTagInv
<1> QED
  BY <1>2, <1>3 DEF Next

\* Two images disagree under one tag only around a push that still runs,
\* failed, left images out or overlapped another one (image_pipeline.py:154).
THEOREM MixedOnlyAfterBrokenPush == Spec => []MixedOnlyByBrokenPush
<1>1. Init => TagInv
  BY DEF Init, TagInv, InOrder, LastWins, Writers
<1>2. IInv /\ TagInv => MixedOnlyByBrokenPush
  <2> SUFFICES ASSUME IInv, TagInv, NEW t \in Tags, NEW i \in Services, NEW j \in Services,
                      t \notin overlapped,
                      \A n \in Writers(t) : /\ ~Active(n) /\ ~pushes[n].failed
                                            /\ pushes[n].selected = Services
               PROVE  registry[i][t] = registry[j][t]
    BY DEF MixedOnlyByBrokenPush, Writers
  <2>1. LastWins(t)
    BY DEF TagInv
  <2>2. CASE Writers(t) = {}
    <3>1. \A k \in Services : registry[k][t] = 0
      <4> SUFFICES ASSUME NEW k \in Services, registry[k][t] # 0 PROVE FALSE
        OBVIOUS
      <4>1. registry[k][t] \in DOMAIN pushes /\ Fits(registry[k][t], t)
        BY DEF IInv, Labelled
      <4> QED
        BY <2>2, <4>1, WritesFact DEF IInv, Writers
    <3> QED
      BY <3>1
  <2>3. CASE Writers(t) # {}
    <3>1. PICK n \in Writers(t) : IsLast(n, t)
      BY <2>1, <2>3 DEF LastWins
    <3>2. \A k \in Services : registry[k][t] = n
      BY <2>1, <3>1 DEF LastWins, Wrote, Active
    <3> QED
      BY <3>2
  <2> QED
    BY <2>2, <2>3
<1> QED
  BY <1>1, <1>2, Invariance, NextTagInv, PTL DEF Spec

-----------------------------------------------------------------------------
(* Rollbacks *)

\* While no two pushes wrote a tag at once, no cached copy under it is ahead
\* of GHCR and no container ahead of the cached copy.
Behind(t) ==
  \A s \in Services :
    /\ cache[s][t] <= registry[s][t]
    /\ running[s] # NotRunning /\ running[s].tag = t => running[s].build <= cache[s][t]

BehindInv == \A t \in Tags : t \notin overlapped => Behind(t)

\* Under a tag that is not overlapped GHCR only moves on.
LEMMA PushTagOnward ==
  ASSUME IInv, TagInv, NEW n \in DOMAIN pushes, NEW i \in Services, PushTag(n, i),
         NEW s \in Services, NEW t \in Tags, t \notin overlapped
  PROVE  registry[s][t] <= registry'[s][t]
<1> DEFINE u == Head(pushes[n].tags)
<1>1. pushes[n].tags # <<>> /\ Fits(n, u) /\ u \in Tags /\ n \in Nat
  <2>1. pushes[n] \in PushRecord /\ n \in Nat
    BY DEF IInv, PushesOwn
  <2>2. pushes[n].tags # <<>> /\ pushes[n].tags \in Seq(Tags)
    BY <2>1 DEF IInv, PushesOwn, PushRecord
  <2>3. u = pushes[n].tags[1] /\ 1 \in DOMAIN pushes[n].tags /\ u \in Tags
    BY <2>2
  <2> QED
    BY <2>1, <2>2, <2>3 DEF IInv, PushesOwn
<1>2. registry' = [registry EXCEPT ![i][u] = n]
  BY DEF PushTag
<1> HIDE DEF u
<1>3. CASE s = i /\ t = u
  <2>1. registry'[s][t] = n /\ registry[s][t] \in Nat
    BY <1>1, <1>2, <1>3 DEF IInv
  <2>2. SUFFICES ASSUME n < registry[s][t] PROVE FALSE
    BY <1>1, <2>1
  <2>3. registry[s][t] \in DOMAIN pushes /\ Fits(registry[s][t], t)
    BY <1>1, <2>1, <2>2 DEF IInv, Labelled
  <2>4. registry[s][t] \in Writers(t) /\ n \in Writers(t)
    BY <1>1, <1>3, <2>3, WritesFact DEF IInv, Writers
  <2>5. Active(n)
    BY DEF PushTag, IsNext, Active
  <2> QED
    BY <2>2, <2>4, <2>5 DEF TagInv, LastWins
<1>4. CASE ~(s = i /\ t = u)
  <2>1. registry'[s][t] = registry[s][t] /\ registry[s][t] \in Nat
    BY <1>1, <1>2, <1>4 DEF IInv
  <2> QED
    BY <2>1
<1> QED
  BY <1>3, <1>4

\* A pull brings the cached copy up to GHCR.
LEMMA PullBehind ==
  ASSUME IInv, BehindInv, NEW s \in Services, Pull(s)
  PROVE  BehindInv'
<1> DEFINE found == Lookup(registry, s, command.tag)
<1>1. UNCHANGED <<registry, running, overlapped>>
  BY DEF Pull, published
<1>2. CASE cache' = cache
  BY <1>1, <1>2 DEF BehindInv, Behind
<1>3. CASE found # 0 /\ cache' = [cache EXCEPT ![s][command.tag] = found]
  <2>1. command.tag \in Tags /\ found = registry[s][command.tag] /\ found \in Nat
    BY <1>3 DEF Lookup, IInv
  <2> SUFFICES ASSUME NEW t \in Tags, t \notin overlapped, NEW d \in Services
               PROVE  /\ cache'[d][t] <= registry[d][t]
                      /\ running[d] # NotRunning /\ running[d].tag = t =>
                           running[d].build <= cache'[d][t]
    BY <1>1 DEF BehindInv, Behind
  <2>2. Behind(t)
    BY DEF BehindInv
  <2>3. CASE d = s /\ t = command.tag
    <3>1. cache'[d][t] = registry[d][t]
      BY <1>3, <2>1, <2>3 DEF IInv
    <3>2. /\ cache[d][t] \in Nat /\ registry[d][t] \in Nat
          /\ running[d] # NotRunning => running[d].build \in Nat
      BY DEF IInv
    <3> QED
      BY <2>2, <3>1, <3>2 DEF Behind
  <2>4. CASE ~(d = s /\ t = command.tag)
    <3>1. cache'[d][t] = cache[d][t]
      BY <1>3, <2>1, <2>4 DEF IInv
    <3> QED
      BY <2>2, <3>1 DEF Behind
  <2> QED
    BY <2>3, <2>4
<1> QED
  BY <1>2, <1>3 DEF Pull

\* What up runs: nothing new, or the cached copy or, without one, GHCR's.
LEMMA UpFact ==
  ASSUME IInv, NEW s \in Services, Up(s),
         NEW d \in Services, ~(cache'[d] = cache[d] /\ running'[d] = running[d])
  PROVE  /\ command.tag \in Tags /\ ImageFor(d) \in Nat \ {0}
         /\ cache' \in [Services -> [Tags -> Nat]]
         /\ cache'[d] = [cache[d] EXCEPT ![command.tag] = ImageFor(d)]
         /\ running'[d] = [tag |-> command.tag, build |-> ImageFor(d)]
<1> DEFINE G == {s} \cup DependsOn(s)
<1>1. /\ \A e \in G : ImageFor(e) # 0
      /\ cache' = [i \in Services |->
           IF i \in G THEN [cache[i] EXCEPT ![command.tag] = ImageFor(i)] ELSE cache[i]]
      /\ running' = [e \in Services |->
           IF e \in G THEN [tag |-> command.tag, build |-> ImageFor(e)] ELSE running[e]]
  BY DEF Up
<1>2. d \in G
  BY <1>1
<1>3. command.tag \in Tags /\ ImageFor(d) \in Nat \ {0}
  BY <1>1, <1>2, ImageForFact
<1>4. cache' \in [Services -> [Tags -> Nat]]
  BY UpIInv DEF IInv
<1> HIDE DEF G
<1> QED
  BY <1>1, <1>2, <1>3, <1>4

\* up leaves the containers on the cached copies.
LEMMA UpBehind ==
  ASSUME IInv, BehindInv, NEW s \in Services, Up(s)
  PROVE  BehindInv'
<1>1. UNCHANGED <<registry, overlapped>>
  BY DEF Up, published
<1> SUFFICES ASSUME NEW t \in Tags, t \notin overlapped, NEW d \in Services
             PROVE  /\ cache'[d][t] <= registry[d][t]
                    /\ running'[d] # NotRunning /\ running'[d].tag = t =>
                         running'[d].build <= cache'[d][t]
  BY <1>1 DEF BehindInv, Behind
<1>2. Behind(t) /\ cache[d][t] \in Nat /\ registry[d][t] \in Nat
  BY DEF BehindInv, IInv
<1>3. CASE cache'[d] = cache[d] /\ running'[d] = running[d]
  BY <1>2, <1>3 DEF Behind
<1>4. CASE ~(cache'[d] = cache[d] /\ running'[d] = running[d])
  <2>1. /\ command.tag \in Tags /\ ImageFor(d) \in Nat \ {0}
        /\ cache'[d] = [cache[d] EXCEPT ![command.tag] = ImageFor(d)]
        /\ running'[d] = [tag |-> command.tag, build |-> ImageFor(d)]
    BY <1>4, UpFact
  <2>2. CASE t = command.tag
    <3>1. cache'[d][t] = ImageFor(d) /\ running'[d].build = ImageFor(d)
      BY <2>1, <2>2 DEF IInv
    <3>2. ImageFor(d) \in {cache[d][t], registry[d][t]}
      BY <2>1, <2>2 DEF ImageFor, Lookup
    <3> QED
      BY <1>2, <2>1, <3>1, <3>2 DEF Behind
  <2>3. CASE t # command.tag
    <3>1. cache'[d][t] = cache[d][t] /\ running'[d].tag # t
      BY <2>1, <2>3 DEF IInv
    <3> QED
      BY <1>2, <3>1 DEF Behind
  <2> QED
    BY <2>2, <2>3
<1> QED
  BY <1>3, <1>4

\* Every step keeps cached copies and containers behind.
LEMMA NextBehind == IInv /\ TagInv /\ BehindInv /\ [Next]_vars => BehindInv'
<1> SUFFICES ASSUME IInv, TagInv, BehindInv, [Next]_vars PROVE BehindInv'
  OBVIOUS
<1>1. ASSUME NEW n \in DOMAIN pushes, NEW i \in Services, PushTag(n, i) PROVE BehindInv'
  <2>1. UNCHANGED <<cache, running, overlapped>>
    BY <1>1 DEF PushTag, host
  <2>2. registry' \in [Services -> [Tags -> Nat]]
    BY <1>1, PushTagIInv DEF IInv
  <2> SUFFICES ASSUME NEW t \in Tags, t \notin overlapped, NEW d \in Services
               PROVE  cache[d][t] <= registry'[d][t]
    BY <2>1 DEF BehindInv, Behind
  <2>3. registry[d][t] <= registry'[d][t]
    BY <1>1, PushTagOnward
  <2>4. cache[d][t] <= registry[d][t]
    BY DEF BehindInv, Behind
  <2> QED
    BY <2>2, <2>3, <2>4 DEF IInv
<1>2. ASSUME NEW r \in Releases, NEW a \in Archs, NEW P \in Platforms,
             NEW S \in SUBSET Services, StartPush(r, a, P, S)
      PROVE  BehindInv'
  <2>1. UNCHANGED <<registry, cache, running>> /\ overlapped \subseteq overlapped'
    BY <1>2 DEF StartPush, host
  <2> QED
    BY <2>1 DEF BehindInv, Behind
<1>3. CASE \E n \in DOMAIN pushes : FailPush(n)
  BY <1>3 DEF FailPush, host, BehindInv, Behind
<1>4. CASE Operate \/ Interrupt \/ UNCHANGED vars
  <2>1. /\ UNCHANGED <<registry, cache, overlapped>>
        /\ \A s \in Services : running'[s] \in {running[s], NotRunning}
    BY <1>4 DEF Operate, DestroyNebula, StartDeploy, Interrupt, published, host, vars
  <2> QED
    BY <2>1 DEF BehindInv, Behind
<1>5. CASE \E s \in Services : Pull(s) \/ Up(s)
  BY <1>5, PullBehind, UpBehind
<1> QED
  BY <1>1, <1>2, <1>3, <1>4, <1>5 DEF Next, Publish, Execute

\* No redeploy under the same tag takes a service back to an older build,
\* whatever the host's cache holds, unless two pushes wrote the tag at once
\* (lifecycle.py:314, image_pipeline.py:163).
THEOREM DeploysNeverRollBack == Spec => NeverRollsBack
<1> DEFINE Onward == \A s \in Services :
             running[s] # NotRunning /\ running'[s].tag = running[s].tag =>
               \/ running'[s].build >= running[s].build
               \/ running[s].tag \in overlapped
<1>1. Init => BehindInv /\ TagInv
  BY DEF Init, BehindInv, Behind, TagInv, InOrder, LastWins, Writers
<1>2. IInv /\ TagInv /\ BehindInv /\ [Next]_vars => [Onward]_vars
  <2> SUFFICES ASSUME IInv, TagInv, BehindInv, Next, NEW s \in Services,
                      running[s] # NotRunning, running'[s].tag = running[s].tag,
                      running[s].tag \notin overlapped
               PROVE  running'[s].build >= running[s].build
    BY DEF vars
  <2>1. running[s].tag \in Tags /\ running[s].build \in Nat
    BY DEF IInv, ContainersOwn
  <2>2. CASE running'[s] = running[s]
    BY <2>1, <2>2
  <2>3. ASSUME NEW u \in Services, Up(u), running'[s] # running[s]
        PROVE  running'[s].build >= running[s].build
    <3>1. ImageFor(s) \in Nat \ {0} /\ running'[s] = [tag |-> command.tag, build |-> ImageFor(s)]
      BY <2>3, UpFact
    <3>2. command.tag = running[s].tag
      BY <3>1
    <3>3. /\ running[s].build <= cache[s][command.tag]
          /\ cache[s][command.tag] <= registry[s][command.tag]
      BY <2>1, <3>2 DEF BehindInv, Behind
    <3>4. ImageFor(s) \in {cache[s][command.tag], registry[s][command.tag]}
      BY <2>1, <3>2 DEF ImageFor, Lookup
    <3>5. cache[s][command.tag] \in Nat /\ registry[s][command.tag] \in Nat
      BY <2>1, <3>2 DEF IInv
    <3> QED
      BY <2>1, <3>1, <3>3, <3>4, <3>5
  <2>4. CASE running'[s] = NotRunning
    <3>1. running'[s].tag = <<>>
      BY <2>4 DEF NotRunning
    <3> QED
      BY <2>1, <3>1 DEF Tags
  <2>5. \/ running'[s] \in {running[s], NotRunning}
        \/ \E u \in Services : Up(u)
    BY DEF Next, Publish, Operate, Execute, StartPush, PushTag, FailPush, DestroyNebula,
           StartDeploy, Pull, Interrupt, published, host
  <2> QED
    BY <2>2, <2>3, <2>4, <2>5
<1>3. Spec => [][Onward]_vars
  BY <1>1, <1>2, Invariance, NextTagInv, NextBehind, PTL DEF Spec
<1> QED
  BY <1>3 DEF NeverRollsBack

-----------------------------------------------------------------------------
(* Type correctness *)

\* The parts of TypeOK that the invariants above do not imply.
Bounded ==
  /\ target \in Targets
  /\ Len(pushes) <= MaxPushes
  /\ \A n \in DOMAIN pushes : pushes[n].left \subseteq pushes[n].selected
  /\ overlapped \subseteq Tags

Steps == {"pull", "up"} \X Services

ScriptOwn == script \in Seq(Steps)

\* What a deploy puts in its script is pulls and ups of services.
LEMMA DeploySteps == \A s \in AllServices : Deploy(s) \in Seq(Steps)
<1> SUFFICES ASSUME NEW s \in AllServices PROVE Deploy(s) \in Seq(Steps)
  OBVIOUS
<1>1. CASE s \notin Services
  BY <1>1 DEF Deploy
<1>2. CASE s \in Services
  <2>1. <<"pull", s>> \in Steps /\ <<"up", s>> \in Steps
    BY <1>2 DEF Steps
  <2> QED
    BY <1>2, <2>1 DEF Deploy
<1> QED
  BY <1>1, <1>2

\* Every step keeps the script one of pulls and ups.
LEMMA NextScriptOwn == ScriptOwn /\ [Next]_vars => ScriptOwn'
<1> SUFFICES ASSUME ScriptOwn, [Next]_vars PROVE ScriptOwn'
  OBVIOUS
<1>1. \A b \in BOOLEAN : DeployStack(b) \in Seq(Steps)
  BY DeploySteps DEF DeployStack, AllServices
<1>2. \A s \in Services : Deploy(s) \in Seq(Steps)
  BY DeploySteps
<1>3. CASE Publish \/ UNCHANGED vars
  <2>1. script' = script
    BY <1>3 DEF Publish, StartPush, PushTag, FailPush, execution, vars
  <2> QED
    BY <2>1 DEF ScriptOwn
<1>4. CASE Operate
  <2>1. CASE DestroyNebula
    BY <2>1 DEF DestroyNebula, Forget, ScriptOwn
  <2>2. ASSUME NEW b \in BOOLEAN, script' = DeployStack(b) PROVE ScriptOwn'
    BY <1>1, <2>2 DEF ScriptOwn
  <2>3. ASSUME NEW s \in Services, script' = Deploy(s) PROVE ScriptOwn'
    BY <1>2, <2>3 DEF ScriptOwn
  <2> QED
    BY <1>4, <2>1, <2>2, <2>3 DEF Operate, StartDeploy
<1>5. CASE Execute
  <2>1. script' = <<>> \/ (script # <<>> /\ script' = Tail(script))
    BY <1>5 DEF Execute, Pull, Up, Interrupt, Forget, Continue, Doing, Idle
  <2>2. \A q \in Seq(Steps) : q # <<>> => Tail(q) \in Seq(Steps)
    OBVIOUS
  <2>3. CASE script' = <<>>
    BY <2>3 DEF ScriptOwn
  <2> QED
    BY <2>1, <2>2, <2>3 DEF ScriptOwn
<1> QED
  BY <1>3, <1>4, <1>5 DEF Next

\* Every step keeps these parts.
LEMMA NextBounded == IInv /\ Bounded /\ [Next]_vars => Bounded'
<1> SUFFICES ASSUME IInv, Bounded, [Next]_vars PROVE Bounded'
  OBVIOUS
<1>0. pushes \in Seq(PushRecord)
  BY DEF IInv, PushesOwn
<1>1. ASSUME NEW r \in Releases, NEW a \in Archs, NEW P \in Platforms,
             NEW S \in SUBSET Services, StartPush(r, a, P, S)
      PROVE  Bounded'
  <2> DEFINE p == [release |-> r, arch |-> a, platforms |-> P, selected |-> S, left |-> S,
                   tags |-> ReleaseTags(r, a), failed |-> FALSE]
  <2>1. p \in PushRecord /\ p.left \subseteq p.selected
    BY ReleaseTagsFact DEF PushRecord
  <2>2. pushes' = Append(pushes, p) /\ Len(pushes) < MaxPushes
    BY <1>1 DEF StartPush
  <2>3. /\ Len(pushes') = Len(pushes) + 1
        /\ DOMAIN pushes' = DOMAIN pushes \cup {Len(pushes) + 1}
        /\ \A n \in DOMAIN pushes : pushes'[n] = pushes[n]
        /\ pushes'[Len(pushes) + 1] = p
    BY <1>0, <2>1, <2>2
  <2> HIDE DEF p
  <2>4. overlapped' \subseteq Tags
    <3>1. Range(ReleaseTags(r, a)) \subseteq Tags
      BY ReleaseTagsFact DEF Range
    <3> QED
      BY <1>1, <3>1 DEF StartPush, Bounded
  <2>5. UNCHANGED target
    BY <1>1 DEF StartPush
  <2> QED
    BY <1>0, <2>1, <2>2, <2>3, <2>4, <2>5 DEF Bounded
<1>2. ASSUME NEW n \in DOMAIN pushes, NEW i \in Services, PushTag(n, i) \/ FailPush(n)
      PROVE  Bounded'
  <2>1. pushes[n] \in PushRecord
    BY <1>0
  <2>2. PICK q : /\ pushes' = [pushes EXCEPT ![n] = q]
                 /\ q.left \subseteq pushes[n].left /\ q.selected = pushes[n].selected
    <3>1. CASE FailPush(n)
      <4> DEFINE q == [pushes[n] EXCEPT !.left = {}, !.failed = TRUE]
      <4>1. pushes' = [pushes EXCEPT ![n] = q] /\ q.left = {} /\ q.selected = pushes[n].selected
        BY <2>1, <3>1 DEF FailPush, PushRecord
      <4> QED
        BY <4>1
    <3>2. CASE PushTag(n, i)
      <4> DEFINE rest == Tail(pushes[n].tags)
                 all == ReleaseTags(pushes[n].release, pushes[n].arch)
                 q1 == [pushes[n] EXCEPT !.tags = rest]
                 q2 == [pushes[n] EXCEPT !.left = @ \ {i}, !.tags = all]
      <4>1. pushes' = [pushes EXCEPT ![n] = q1] \/ pushes' = [pushes EXCEPT ![n] = q2]
        BY <2>1, <3>2 DEF PushTag, PushRecord
      <4>2. /\ q1.left = pushes[n].left /\ q1.selected = pushes[n].selected
            /\ q2.left = pushes[n].left \ {i} /\ q2.selected = pushes[n].selected
        BY <2>1 DEF PushRecord
      <4> HIDE DEF q1, q2
      <4> QED
        BY <4>1, <4>2
    <3> QED
      BY <1>2, <3>1, <3>2
  <2>3. /\ Len(pushes') = Len(pushes) /\ DOMAIN pushes' = DOMAIN pushes /\ pushes'[n] = q
        /\ \A m \in DOMAIN pushes \ {n} : pushes'[m] = pushes[m]
    BY <1>0, <2>2
  <2>4. UNCHANGED <<target, overlapped>>
    BY <1>2 DEF PushTag, FailPush
  <2> QED
    BY <2>2, <2>3, <2>4 DEF Bounded
<1>3. CASE Operate \/ Execute \/ UNCHANGED vars
  <2>1. UNCHANGED <<target, pushes, overlapped>>
    BY <1>3 DEF Operate, Execute, DestroyNebula, StartDeploy, Pull, Up, Interrupt, published,
                vars
  <2> QED
    BY <2>1 DEF Bounded
<1> QED
  BY <1>1, <1>2, <1>3 DEF Next, Publish

\* Every image in GHCR, in the cache and in a container is one a push built,
\* and the records of pushes and of the deploy have their types.
THEOREM TypeCorrect == Spec => []TypeOK
<1>1. Init => Bounded /\ ScriptOwn
  BY DEF Init, Bounded, ScriptOwn
<1>2. IInv /\ ScriptOwn /\ Bounded => TypeOK
  <2> SUFFICES ASSUME IInv, ScriptOwn, Bounded PROVE TypeOK
    OBVIOUS
  <2>1. pushes \in Seq(PushRecord) /\ \A n \in DOMAIN pushes : n \in Push
    BY DEF IInv, PushesOwn, Bounded, Push
  <2>2. \A images \in [Services -> [Tags -> Nat]] :
          Labelled(images) => images \in [Services -> [Tags -> Build]]
    <3> SUFFICES ASSUME NEW images \in [Services -> [Tags -> Nat]], Labelled(images),
                        NEW i \in Services, NEW t \in Tags
                 PROVE  images[i][t] \in Build
      OBVIOUS
    <3>1. images[i][t] = 0 \/ images[i][t] \in Push
      BY <2>1 DEF Labelled
    <3> QED
      BY <3>1 DEF Push, Build
  <2>3. registry \in [Services -> [Tags -> Build]] /\ cache \in [Services -> [Tags -> Build]]
    BY <2>2 DEF IInv
  <2>4. \A s \in Services :
          running[s] = NotRunning \/ running[s] \in [tag : Tags, build : Push]
    BY <2>1 DEF IInv, ContainersOwn
  <2>5. \A i \in DOMAIN script : script[i] \in {"pull", "up"} \X Services
    BY DEF ScriptOwn, Steps
  <2> QED
    BY <2>1, <2>2, <2>3, <2>4, <2>5 DEF TypeOK, Bounded
<1> QED
  BY <1>1, <1>2, Invariance, NextScriptOwn, NextBounded, PTL DEF Spec

=============================================================================
