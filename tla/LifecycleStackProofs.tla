------------------------ MODULE LifecycleStackProofs ------------------------
(***************************************************************************)
(* What holds of the lifecycle commands of LifecycleStack for either       *)
(* target, with or without Playground, whatever the operator names and     *)
(* however many containers crash or commands are interrupted: what starts  *)
(* over what, what stops before what, and what a deploy or a stop of the   *)
(* stack leaves behind.                                                    *)
(***************************************************************************)
EXTENDS LifecycleStack, SequenceTheorems, TLAPS

-----------------------------------------------------------------------------
(* The inductive invariants *)

Named == AllServices \cup {"nebula"}

Names == AllServices \cup {"nebula", "deploy", "stop", "health"}

ScriptStep == Ops \X Names

\* Every step of A in a script comes after one of X.
Comes(q, A, X) == \A i \in 1 .. Len(q) : q[i] \in A => \E j \in 1 .. i - 1 : q[j] \in X

\* Every step of A in a script comes before all of X.
Before(q, A, X) == \A i \in 1 .. Len(q) : q[i] \in A => \A j \in 1 .. i - 1 : q[j] \notin X

\* A script has a step of X.
Has(q, X) == \E i \in 1 .. Len(q) : q[i] \in X

HostTypes ==
  /\ env \subseteq Products
  /\ status \in [Services -> Status]
  /\ files \subseteq Files /\ stored \subseteq Files
  /\ keys \subseteq KeyOwners
  /\ vaulted \subseteq KeyOwners
  /\ script \in Seq(ScriptStep)
  /\ command \in Command
  /\ failure \in Failure
  /\ disturbed \in BOOLEAN /\ leftover \in BOOLEAN
  /\ faults \in 0 .. MaxFaults

\* The steps that a command may take.
StepsOf(action) ==
  CASE action = "init" -> {"generate", "initialize"} \X Names
    [] action = "deploy" -> ({"load", "stage", "probe", "health", "key", "up"} \X Names)
                            \cup {<<"ifkey", "deploy">>}
    [] action = "stop" -> ({"load", "stop"} \X Names) \cup {<<"ifkey", "stop">>}
    [] action = "destroy" -> {"load", "stop", "down", "rmtree", "unlink"} \X Names
    [] action = "health" -> ({"load", "health"} \X Names) \cup {<<"ifkey", "health">>}
    [] action = "bootstrap" -> {"load", "probe"} \X Names
    [] action = "import" -> {}

ShapeInv == HostTypes /\ script \in Seq(StepsOf(command[1]))

\* What _deploy probes before it starts s, as a set.
Required(s) ==
  CASE s \in {"core", "console"} -> {"policy"}
    [] s = "explorer" -> {"policy", "oauth"}
    [] s = "oauth" -> {"policy", "core"}
    [] OTHER -> {}

\* The starts by which Compose may recreate Core, and the steps that ask it.
Recreates ==
  IF command = <<"deploy", "nebula">> THEN {<<"up", "core">>}
  ELSE {<<"up", "core">>, <<"up", "console">>, <<"up", "explorer">>}

Asks == {<<"probe", "core">>, <<"health", "core">>}

\* d is ready, and stays so for the rest of the script.
Firm(d) == status[d] = "ready" /\ (d = "core" => Comes(script, Recreates, {}))

\* A start comes after the probes of what it requires, and Explorer's after the
\* check of its key; Core is not recreated after it was asked.  Only a deploy of
\* the stack decides about Explorer.
StartInv ==
  /\ \A s \in Services : \A d \in Required(s) :
       disturbed \/ Firm(d) \/ Comes(script, {<<"up", s>>}, {<<"probe", d>>})
  /\ "explorer" \in keys
       \/ Comes(script, {<<"up", "explorer">>}, {<<"key", "explorer">>})
  /\ \A s \in Services :
       stored \subseteq files \/ Comes(script, {<<"up", s>>}, {<<"stage", s>>})
  /\ Before(script, Recreates, Asks)
  /\ command = <<"deploy", "nebula">> \/ Comes(script, {<<"ifkey", "deploy">>}, {})

\* What makes a service go down before a tree it needs is removed.
Stoppers(s) == {<<"stop", s>>} \cup (IF s = "explorer" THEN {} ELSE {<<"down", Product[s]>>})

\* A tree, with Explorer's its key, is removed only when the containers over it
\* are down, or Explorer's is left behind.
KeyInv ==
  /\ ExplorerHasKey /\ RunsOnItsFiles
  /\ \A s \in Services : status[s] = "down" \/ Comes(script, {<<"rmtree", s>>}, Stoppers(s))
  /\ \A s \in Services : Product[s] = "nebula" =>
       \/ status[s] = "down" \/ (s = "explorer" /\ leftover)
       \/ Comes(script, {<<"rmtree", "nebula">>}, {<<"down", "nebula">>})

\* The steps that stop a service, or decide that it is stopped.
Stops(s) == {<<"stop", s>>} \cup (IF s = "explorer" THEN {<<"ifkey", "stop">>} ELSE {})

Stopped(s) == status[s] = "down" \/ (s = "explorer" /\ leftover)

\* A stop of the stack stops what needs a service before that service, and has
\* still to stop whatever is not down.
StopInv ==
  command = <<"stop", "nebula">> =>
    /\ \A s \in Services : \A d \in Needs(s) :
         Stopped(s) \/ Comes(script, {<<"stop", d>>}, Stops(s))
    /\ failure = "none" =>
         \A s \in Services \ {"playground"} : Stopped(s) \/ Has(script, Stops(s))

\* The services every deploy of the stack starts.
Core5 == {"policy", "database", "core", "oauth", "console"}

\* The services it asks for on the way.
Gates == {"policy", "core", "oauth"}

\* The starts that bring d up.
Ups(d) == {<<"up", s>> : s \in {t \in Services : d \in Starts(t)}}

\* Where they leave it, and where it stays for the rest of the deploy.
Good(d) ==
  /\ stored \subseteq files
  /\ status[d] # "down"
  /\ d \in HasHealthcheck => status[d] = "ready"
  /\ d = "core" \/ d \in files => status[d] \in Alive

\* What counts on a service that is asked for.
Behind(d) ==
  {<<"probe", d>>} \cup (IF d = "core" THEN {<<"up", "console">>, <<"up", "explorer">>} ELSE {})

\* The one step that decides about Explorer is the last.
DecidesLast(q) == \A i \in 1 .. Len(q) : q[i] = <<"ifkey", "deploy">> => i = Len(q)

\* A deploy of the stack asks only for what it has started and counts only on
\* what has answered, and has still to start whatever is not up.
DeployInv ==
  command = <<"deploy", "nebula">> /\ ~disturbed =>
    /\ failure # "none" => ~Running
    /\ \/ failure \in {"none", "environment", "files"}
       \/ /\ failure = "health"
          /\ status["policy"] = "ready" /\ status["database"] = "ready"
          /\ status["core"] \in Alive
    /\ \A d \in Gates : Firm(d) \/ Comes(script, Behind(d), {<<"health", d>>})
    /\ \A d \in Gates : Good(d) \/ Comes(script, {<<"health", d>>}, Ups(d))
    /\ \A d \in {"policy", "database"} : Good(d) \/ Comes(script, {<<"health", "core">>}, Ups(d))
    /\ Comes(script, {"probe", "health"} \X (Names \ Gates), {})
    /\ Comes(script, {"key"} \X (Names \ {"explorer"}), {})
    /\ "explorer" \in keys \/ Comes(script, {<<"key", "explorer">>}, {})
    /\ DecidesLast(script)
    /\ failure = "none" =>
         /\ \A d \in Core5 : Good(d) \/ Has(script, Ups(d))
         /\ Firm("core") \/ Has(script, {<<"health", "core">>})
         /\ \/ Has(script, {<<"ifkey", "deploy">>})
            \/ "explorer" \in keys /\ (Good("explorer") \/ Has(script, {<<"up", "explorer">>}))
            \/ "explorer" \notin keys /\ ~Running
-----------------------------------------------------------------------------
(* Sequences of steps *)

\* The rest of a script.
LEMMA TailFact ==
  ASSUME NEW T, NEW q \in Seq(T), q # <<>>
  PROVE  /\ Tail(q) \in Seq(T) /\ Len(Tail(q)) = Len(q) - 1 /\ Len(q) \in Nat \ {0}
         /\ Head(q) = q[1] /\ Head(q) \in T
         /\ \A i \in 1 .. Len(q) - 1 : Tail(q)[i] = q[i + 1]
BY HeadTailProperties, EmptySeq

\* The first step has nothing before it.
LEMMA ComesFirst ==
  ASSUME NEW T, NEW q \in Seq(T), q # <<>>, NEW A, NEW X, Comes(q, A, X)
  PROVE  Head(q) \notin A
<1>1. 1 \in 1 .. Len(q) /\ Head(q) = q[1]
  BY TailFact
<1> QED
  BY <1>1 DEF Comes

\* A step that is not in X may be dropped from the front.
LEMMA ComesTail ==
  ASSUME NEW T, NEW q \in Seq(T), q # <<>>, NEW A, NEW X, Comes(q, A, X), Head(q) \notin X
  PROVE  Comes(Tail(q), A, X)
<1> SUFFICES ASSUME NEW i \in 1 .. Len(Tail(q)), Tail(q)[i] \in A
             PROVE  \E j \in 1 .. i - 1 : Tail(q)[j] \in X
  BY DEF Comes
<1>1. i + 1 \in 1 .. Len(q) /\ q[i + 1] \in A
  BY TailFact
<1>2. PICK j \in 1 .. i : q[j] \in X
  BY <1>1 DEF Comes
<1>3. j # 1
  BY <1>2, TailFact
<1>4. j - 1 \in 1 .. i - 1 /\ Tail(q)[j - 1] = q[j]
  BY <1>2, <1>3, TailFact
<1> QED
  BY <1>2, <1>4

\* What a script has, it still has after a step of another kind.
LEMMA HasTail ==
  ASSUME NEW T, NEW q \in Seq(T), q # <<>>, NEW X, Has(q, X), Head(q) \notin X
  PROVE  Has(Tail(q), X)
<1>1. PICK i \in 1 .. Len(q) : q[i] \in X
  BY DEF Has
<1>2. i # 1
  BY <1>1, TailFact
<1>3. i - 1 \in 1 .. Len(Tail(q)) /\ Tail(q)[i - 1] = q[i]
  BY <1>1, <1>2, TailFact
<1> QED
  BY <1>1, <1>3 DEF Has

\* What no step is in comes after anything.
LEMMA ComesNone ==
  ASSUME NEW T, NEW q \in Seq(T), NEW A, NEW X, T \cap A = {}
  PROVE  Comes(q, A, X)
<1>1. \A i \in 1 .. Len(q) : q[i] \in T
  BY ElementOfSeq
<1> QED
  BY <1>1 DEF Comes

\* What is no step of a script comes before anything, and so does anything
\* before what is no step of it.
LEMMA BeforeNone ==
  ASSUME NEW T, NEW q \in Seq(T), NEW A, NEW X, T \cap A = {} \/ T \cap X = {}
  PROVE  Before(q, A, X)
<1>1. /\ \A i \in 1 .. Len(q) : q[i] \in T
      /\ \A i \in 1 .. Len(q) : \A j \in 1 .. i - 1 : q[j] \in T
  BY ElementOfSeq, LenProperties
<1> QED
  BY <1>1 DEF Before

\* When a step of X is at the front, no step of A is left.
LEMMA BeforeTail ==
  ASSUME NEW T, NEW q \in Seq(T), q # <<>>, NEW A, NEW X, Before(q, A, X)
  PROVE  /\ Before(Tail(q), A, X)
         /\ Head(q) \in X => Comes(Tail(q), A, {})
<1>1. /\ Len(q) \in Nat /\ Len(Tail(q)) = Len(q) - 1 /\ Head(q) = q[1]
      /\ \A i \in 1 .. Len(q) - 1 : Tail(q)[i] = q[i + 1]
  BY TailFact
<1>2. ASSUME NEW i \in 1 .. Len(Tail(q)), Tail(q)[i] \in A
      PROVE  /\ \A j \in 1 .. i - 1 : Tail(q)[j] \notin X
             /\ Head(q) \notin X
  <2>1. i + 1 \in 1 .. Len(q) /\ q[i + 1] \in A
    BY <1>1, <1>2
  <2>2. \A j \in 1 .. i : q[j] \notin X
    BY <2>1 DEF Before
  <2>3. \A j \in 1 .. i - 1 : j + 1 \in 1 .. i /\ Tail(q)[j] = q[j + 1]
    BY <1>1
  <2>4. 1 \in 1 .. i
    OBVIOUS
  <2> QED
    BY <1>1, <2>2, <2>3, <2>4
<1> QED
  BY <1>2 DEF Before, Comes

\* Two scripts, one after the other: no step of A is after one of X in either,
\* and the first has none of X or the second none of A.
LEMMA BeforeConcat ==
  ASSUME NEW T, NEW p \in Seq(T), NEW q \in Seq(T), NEW A, NEW X,
         Before(p, A, X), Before(q, A, X), Comes(p, X, {}) \/ Comes(q, A, {})
  PROVE  Before(p \o q, A, X)
<1> SUFFICES ASSUME NEW i \in 1 .. Len(p \o q), (p \o q)[i] \in A, NEW j \in 1 .. i - 1
             PROVE  (p \o q)[j] \notin X
  BY DEF Before
<1>1. /\ Len(p) \in Nat /\ Len(q) \in Nat /\ Len(p \o q) = Len(p) + Len(q)
      /\ \A k \in 1 .. Len(p) : (p \o q)[k] = p[k]
      /\ \A k \in 1 .. Len(q) : (p \o q)[Len(p) + k] = q[k]
  BY ConcatProperties, LenProperties
<1>2. CASE i \in 1 .. Len(p)
  <2>1. (p \o q)[i] = p[i] /\ j \in 1 .. Len(p) /\ (p \o q)[j] = p[j]
    BY <1>1, <1>2
  <2> QED
    BY <1>2, <2>1 DEF Before
<1>3. CASE i \notin 1 .. Len(p)
  <2>1. i - Len(p) \in 1 .. Len(q) /\ q[i - Len(p)] \in A
    BY <1>1, <1>3
  <2>2. Comes(p, X, {})
    BY <2>1 DEF Comes
  <2>3. CASE j \in 1 .. Len(p)
    BY <1>1, <2>2, <2>3 DEF Comes
  <2>4. CASE j \notin 1 .. Len(p)
    <3>1. j - Len(p) \in 1 .. i - Len(p) - 1 /\ j - Len(p) \in 1 .. Len(q)
          /\ (p \o q)[j] = q[j - Len(p)]
      BY <1>1, <1>3, <2>4
    <3> QED
      BY <2>1, <3>1 DEF Before
  <2> QED
    BY <2>3, <2>4
<1> QED
  BY <1>2, <1>3

\* A script has nothing that no step of it is in.
LEMMA HasNone ==
  ASSUME NEW T, NEW q \in Seq(T), NEW X, T \cap X = {}
  PROVE  ~Has(q, X)
<1>1. \A i \in 1 .. Len(q) : q[i] \in T
  BY ElementOfSeq
<1> QED
  BY <1>1 DEF Has

\* Scripts in which every step of A comes after one of X, one after the other.
LEMMA ComesConcat ==
  ASSUME NEW T, NEW p \in Seq(T), NEW q \in Seq(T), NEW A, NEW X,
         Comes(p, A, X), Comes(q, A, X) \/ Has(p, X)
  PROVE  Comes(p \o q, A, X)
<1> SUFFICES ASSUME NEW i \in 1 .. Len(p \o q), (p \o q)[i] \in A
             PROVE  \E j \in 1 .. i - 1 : (p \o q)[j] \in X
  BY DEF Comes
<1>1. /\ Len(p) \in Nat /\ Len(q) \in Nat /\ Len(p \o q) = Len(p) + Len(q)
      /\ \A k \in 1 .. Len(p) : (p \o q)[k] = p[k]
      /\ \A k \in 1 .. Len(q) : (p \o q)[Len(p) + k] = q[k]
  BY ConcatProperties, LenProperties
<1>2. CASE i \in 1 .. Len(p)
  <2>1. PICK j \in 1 .. i - 1 : p[j] \in X
    BY <1>1, <1>2 DEF Comes
  <2> QED
    BY <1>1, <1>2, <2>1
<1>3. CASE i \notin 1 .. Len(p) /\ Has(p, X)
  <2>1. PICK j \in 1 .. Len(p) : p[j] \in X
    BY <1>3 DEF Has
  <2>2. j \in 1 .. i - 1
    BY <1>1, <1>3, <2>1
  <2> QED
    BY <1>1, <2>1, <2>2
<1>4. CASE i \notin 1 .. Len(p) /\ Comes(q, A, X)
  <2>1. i - Len(p) \in 1 .. Len(q) /\ q[i - Len(p)] \in A
    BY <1>1, <1>4
  <2>2. PICK j \in 1 .. i - Len(p) - 1 : q[j] \in X
    BY <1>4, <2>1 DEF Comes
  <2>3. Len(p) + j \in 1 .. i - 1 /\ (p \o q)[Len(p) + j] = q[j]
    BY <1>1, <2>1, <2>2
  <2> QED
    BY <2>2, <2>3
<1> QED
  BY <1>2, <1>3, <1>4

\* Two scripts, one after the other, have what either has.
LEMMA HasConcat ==
  ASSUME NEW T, NEW p \in Seq(T), NEW q \in Seq(T), NEW X
  PROVE  Has(p \o q, X) <=> Has(p, X) \/ Has(q, X)
<1>1. /\ Len(p) \in Nat /\ Len(q) \in Nat /\ Len(p \o q) = Len(p) + Len(q)
      /\ \A k \in 1 .. Len(p) : (p \o q)[k] = p[k]
      /\ \A k \in 1 .. Len(q) : (p \o q)[Len(p) + k] = q[k]
  BY ConcatProperties, LenProperties
<1>2. ASSUME NEW i \in 1 .. Len(p), p[i] \in X
      PROVE  Has(p \o q, X)
  BY <1>1, <1>2 DEF Has
<1>3. ASSUME NEW i \in 1 .. Len(q), q[i] \in X
      PROVE  Has(p \o q, X)
  <2>1. Len(p) + i \in 1 .. Len(p \o q)
    BY <1>1
  <2> QED
    BY <1>1, <1>3, <2>1 DEF Has
<1>4. ASSUME NEW i \in 1 .. Len(p \o q), (p \o q)[i] \in X
      PROVE  Has(p, X) \/ Has(q, X)
  <2>1. CASE i \in 1 .. Len(p)
    BY <1>1, <1>4, <2>1 DEF Has
  <2>2. CASE i \notin 1 .. Len(p)
    <3>1. i - Len(p) \in 1 .. Len(q) /\ (p \o q)[i] = q[i - Len(p)]
      BY <1>1, <2>2
    <3> QED
      BY <1>4, <3>1 DEF Has
  <2> QED
    BY <2>1, <2>2
<1> QED
  BY <1>2, <1>3, <1>4 DEF Has

\* One step of kind op for each of the names.
LEMMA EachFact ==
  ASSUME NEW op, NEW N, NEW names \in Seq(N)
  PROVE  /\ Each(op, names) \in Seq({op} \X N) /\ Len(Each(op, names)) = Len(names)
         /\ \A i \in 1 .. Len(names) : Each(op, names)[i] = <<op, names[i]>>
<1>1. /\ Len(names) \in Nat /\ DOMAIN names = 1 .. Len(names)
      /\ \A i \in 1 .. Len(names) : names[i] \in N
  BY LenProperties, ElementOfSeq
<1>2. Each(op, names) = [i \in 1 .. Len(names) |-> <<op, names[i]>>]
  BY <1>1 DEF Each
<1>3. Each(op, names) \in [1 .. Len(names) -> {op} \X N]
  BY <1>1, <1>2
<1> QED
  BY <1>1, <1>2, <1>3
-----------------------------------------------------------------------------
(* The scripts *)

\* Which names there are.
LEMMA NamesFact ==
  /\ Services \subseteq AllServices /\ AllServices \subseteq Names /\ Core5 \subseteq Services
  /\ Gates \subseteq Core5
  /\ "explorer" \in Services /\ "explorer" \in KeyOwners
  /\ Named \subseteq Names /\ Products \subseteq Named
  /\ \A x \in Named : Product[x] \in Named
BY ServicesAssumption DEF AllServices, Names, Core5, Gates, KeyOwners, Named, Products, Product

\* What a deploy requires, as a sequence and as a set.
LEMMA RequiresFact ==
  ASSUME NEW s
  PROVE  /\ Requires(s) \in Seq(Gates)
         /\ \A d \in Required(s) : \E i \in 1 .. Len(Requires(s)) : Requires(s)[i] = d
         /\ \A i \in 1 .. Len(Requires(s)) : Requires(s)[i] \in Required(s)
         /\ Required(s) \subseteq Gates /\ s \notin Required(s)
<1>1. CASE s \in {"core", "console"}
  BY <1>1 DEF Requires, Required, Gates
<1>2. CASE s = "explorer"
  BY <1>2 DEF Requires, Required, Gates
<1>3. CASE s = "oauth"
  BY <1>3 DEF Requires, Required, Gates
<1>4. CASE s \notin {"core", "console", "explorer", "oauth"}
  BY <1>4 DEF Requires, Required, Gates
<1> QED
  BY <1>1, <1>2, <1>3, <1>4

\* The steps of a deploy that do not ask for a key.
Plain == ({"load", "stage", "up"} \X Names) \cup ({"probe", "health"} \X Gates)

KeyStep(s) == IF s \in KeyOwners THEN {<<"key", s>>} ELSE {}

\* The deploy of one service, but for its start.
Preparation(s) ==
  <<<<"stage", s>>>> \o Each("probe", Requires(s))
    \o (IF s \in KeyOwners THEN <<<<"key", s>>>> ELSE <<>>)

\* A deploy of one service probes what it requires, then asks for the key of a
\* service that has one, and then starts it.
LEMMA PreparationFact ==
  ASSUME NEW s \in AllServices
  PROVE  /\ Deploy(s) = Preparation(s) \o <<<<"up", s>>>>
         /\ Preparation(s) \in Seq({<<"stage", s>>} \cup ({"probe"} \X Required(s)) \cup KeyStep(s))
         /\ \A d \in Required(s) : Has(Preparation(s), {<<"probe", d>>})
         /\ s \in KeyOwners => Has(Preparation(s), {<<"key", s>>})
         /\ Has(Preparation(s), {<<"stage", s>>})
<1> DEFINE T == {<<"stage", s>>} \cup ({"probe"} \X Required(s)) \cup KeyStep(s)
           a == <<<<"stage", s>>>>
           b == Each("probe", Requires(s))
           c == IF s \in KeyOwners THEN <<<<"key", s>>>> ELSE <<>>
<1>1. a \in Seq(T) /\ Has(a, {<<"stage", s>>})
  BY DEF Has
<1>2. Requires(s) \in Seq(Required(s))
  BY RequiresFact, LenProperties
<1>3. b \in Seq(T) /\ \A d \in Required(s) : Has(b, {<<"probe", d>>})
  <2>1. /\ b \in Seq({"probe"} \X Required(s)) /\ Len(b) = Len(Requires(s))
        /\ \A i \in 1 .. Len(b) : b[i] = <<"probe", Requires(s)[i]>>
    BY <1>2, EachFact
  <2>2. b \in Seq(T)
    BY <2>1, SeqMonotonic
  <2>3. ASSUME NEW d \in Required(s)
        PROVE  Has(b, {<<"probe", d>>})
    <3>1. PICK i \in 1 .. Len(b) : Requires(s)[i] = d
      BY <2>1, RequiresFact
    <3> QED
      BY <2>1, <3>1 DEF Has
  <2> QED
    BY <2>2, <2>3
<1>4. c \in Seq(T) /\ (s \in KeyOwners => Has(c, {<<"key", s>>}))
  <2>1. CASE s \notin KeyOwners
    BY <2>1
  <2>2. CASE s \in KeyOwners
    <3>1. PICK k : k = <<"key", s>>
      OBVIOUS
    <3>2. c = <<k>> /\ k \in T
      BY <2>2, <3>1 DEF KeyStep
    <3>3. <<k>> \in Seq(T) /\ Has(<<k>>, {k})
      BY <3>2 DEF Has
    <3> QED
      BY <3>1, <3>2, <3>3
  <2> QED
    BY <2>1, <2>2
<1>5. a \o b \in Seq(T) /\ (a \o b) \o c \in Seq(T)
  BY <1>1, <1>3, <1>4, ConcatProperties
<1> HIDE DEF T, a, b, c
<1>6. \A X : Has(a, X) \/ Has(b, X) \/ Has(c, X) => Has((a \o b) \o c, X)
  BY <1>1, <1>3, <1>4, <1>5, HasConcat
<1>7. Preparation(s) = (a \o b) \o c /\ Deploy(s) = ((a \o b) \o c) \o <<<<"up", s>>>>
  BY DEF a, b, c, Preparation, Deploy
<1> QED
  BY <1>1, <1>3, <1>4, <1>5, <1>6, <1>7 DEF T

\* A step of a deploy that is started at all is started after its probes.
Probed(q) ==
  /\ q \in Seq(StepsOf("deploy"))
  /\ \A s \in Services : \A d \in Required(s) : Comes(q, {<<"up", s>>}, {<<"probe", d>>})
  /\ Comes(q, {<<"up", "explorer">>}, {<<"key", "explorer">>})
  /\ \A s \in Services : Comes(q, {<<"up", s>>}, {<<"stage", s>>})

\* Two such scripts, one after the other, are such a script.
LEMMA ProbedConcat ==
  ASSUME NEW p, NEW q, Probed(p), Probed(q)
  PROVE  Probed(p \o q)
BY ComesConcat, ConcatProperties DEF Probed

\* A script that starts nothing.
LEMMA ProbedNone ==
  ASSUME NEW T, NEW q \in Seq(T), T \subseteq StepsOf("deploy"), T \cap ({"up"} \X Names) = {}
  PROVE  Probed(q)
<1>1. q \in Seq(StepsOf("deploy"))
  BY SeqMonotonic
<1>2. \A s \in Services : T \cap {<<"up", s>>} = {}
  BY NamesFact
<1> QED
  BY <1>1, <1>2, ComesNone, NamesFact DEF Probed

\* The deploy of one service probes what it requires, and asks for its key.
LEMMA DeployProbed ==
  ASSUME NEW s \in AllServices
  PROVE  Probed(Deploy(s))
<1> DEFINE T == {<<"stage", s>>} \cup ({"probe"} \X Required(s)) \cup KeyStep(s)
           p == Preparation(s)
           u == <<<<"up", s>>>>
<1>1. /\ Deploy(s) = p \o u /\ p \in Seq(T)
      /\ \A d \in Required(s) : Has(p, {<<"probe", d>>})
      /\ s \in KeyOwners => Has(p, {<<"key", s>>})
      /\ Has(p, {<<"stage", s>>})
  BY PreparationFact
<1>2. T \subseteq StepsOf("deploy") /\ T \cap ({"up"} \X Names) = {}
  BY NamesFact, RequiresFact DEF StepsOf, KeyStep
<1>3. Probed(p)
  BY <1>1, <1>2, ProbedNone
<1>4. u \in Seq({<<"up", s>>}) /\ u \in Seq(StepsOf("deploy"))
  BY NamesFact DEF StepsOf
<1>5. Deploy(s) \in Seq(StepsOf("deploy"))
  BY <1>1, <1>3, <1>4, ConcatProperties DEF Probed
<1> HIDE DEF p
<1>h. \A A, X : Comes(p, A, X) /\ (Comes(u, A, X) \/ Has(p, X)) => Comes(p \o u, A, X)
  <2>1. p \in Seq(StepsOf("deploy"))
    BY <1>3 DEF Probed
  <2> QED
    BY <1>4, <2>1, ComesConcat
<1>6. ASSUME NEW t \in Services, NEW d \in Required(t)
      PROVE  Comes(Deploy(s), {<<"up", t>>}, {<<"probe", d>>})
  <2>1. Comes(u, {<<"up", t>>}, {<<"probe", d>>}) \/ Has(p, {<<"probe", d>>})
    <3>1. CASE t = s
      BY <1>1, <3>1
    <3>2. CASE t # s
      <4>1. {<<"up", s>>} \cap {<<"up", t>>} = {}
        BY <3>2
      <4> QED
        BY <1>4, <4>1, ComesNone
    <3> QED
      BY <3>1, <3>2
  <2>2. Comes(p, {<<"up", t>>}, {<<"probe", d>>})
    BY <1>3 DEF Probed
  <2> QED
    BY <1>1, <2>1, <2>2, <1>h
<1>7. Comes(Deploy(s), {<<"up", "explorer">>}, {<<"key", "explorer">>})
  <2>1. Comes(u, {<<"up", "explorer">>}, {<<"key", "explorer">>})
          \/ Has(p, {<<"key", "explorer">>})
    <3>1. CASE s = "explorer"
      BY <1>1, <3>1, NamesFact
    <3>2. CASE s # "explorer"
      <4>1. {<<"up", s>>} \cap {<<"up", "explorer">>} = {}
        BY <3>2
      <4> QED
        BY <1>4, <4>1, ComesNone
    <3> QED
      BY <3>1, <3>2
  <2>2. Comes(p, {<<"up", "explorer">>}, {<<"key", "explorer">>})
    BY <1>3 DEF Probed
  <2> QED
    BY <1>1, <2>1, <2>2, <1>h
<1>8. ASSUME NEW t \in Services
      PROVE  Comes(Deploy(s), {<<"up", t>>}, {<<"stage", t>>})
  <2>1. Comes(u, {<<"up", t>>}, {<<"stage", t>>}) \/ Has(p, {<<"stage", t>>})
    <3>1. CASE t = s
      BY <1>1, <3>1
    <3>2. CASE t # s
      <4>1. {<<"up", s>>} \cap {<<"up", t>>} = {}
        BY <3>2
      <4> QED
        BY <1>4, <4>1, ComesNone
    <3> QED
      BY <3>1, <3>2
  <2>2. Comes(p, {<<"up", t>>}, {<<"stage", t>>})
    BY <1>3 DEF Probed
  <2> QED
    BY <1>1, <2>1, <2>2, <1>h
<1> QED
  BY <1>5, <1>6, <1>7, <1>8 DEF Probed

\* The probes and the start of a deploy of one service.
LEMMA DeployFact ==
  ASSUME NEW s \in Services
  PROVE  /\ Deploy(s) \in Seq(Plain \cup KeyStep(s))
         /\ \A d : d \notin Required(s) => \A X : Comes(Deploy(s), {<<"probe", d>>}, X)
         /\ \A d, X : Comes(Deploy(s), {<<"health", d>>}, X)
         /\ \A A : <<"up", s>> \notin A /\ A \subseteq {"up"} \X Names =>
              \A X : Comes(Deploy(s), A, X)
         /\ \A d \in Starts(s) : Has(Deploy(s), Ups(d))
         /\ Has(Deploy(s), {<<"up", s>>})
<1> DEFINE T == {<<"stage", s>>} \cup ({"probe"} \X Required(s)) \cup KeyStep(s)
           U == T \cup {<<"up", s>>}
           p == Preparation(s)
           u == <<<<"up", s>>>>
<1>1. Deploy(s) = p \o u /\ p \in Seq(T)
  BY NamesFact, PreparationFact
<1>2. p \in Seq(U) /\ u \in Seq(U)
  BY <1>1, SeqMonotonic
<1>3. Deploy(s) \in Seq(U)
  BY <1>1, <1>2, ConcatProperties
<1>4. U \subseteq Plain \cup KeyStep(s)
  BY RequiresFact, NamesFact DEF Plain
<1>5. Deploy(s) \in Seq(Plain \cup KeyStep(s))
  BY <1>3, <1>4, SeqMonotonic
<1>6. ASSUME NEW A, U \cap A = {}, NEW X
      PROVE  Comes(Deploy(s), A, X)
  BY <1>3, <1>6, ComesNone
<1>7. ASSUME NEW X, <<"up", s>> \in X
      PROVE  Has(Deploy(s), X)
  <2>1. Has(u, X)
    BY <1>7 DEF Has
  <2>2. Has(p \o u, X)
    <3> HIDE DEF p, u, U
    <3> QED
      BY <1>2, <2>1, HasConcat
  <2> QED
    BY <1>1, <2>2
<1>8. \A d \in Starts(s) : <<"up", s>> \in Ups(d)
  BY DEF Ups
<1>9. /\ \A d : d \notin Required(s) => U \cap {<<"probe", d>>} = {}
      /\ \A d : U \cap {<<"health", d>>} = {}
      /\ \A A : <<"up", s>> \notin A /\ A \subseteq {"up"} \X Names => U \cap A = {}
  BY DEF KeyStep
<1> HIDE DEF U
<1> QED
  BY <1>5, <1>6, <1>7, <1>8, <1>9

\* The deploy of the stack, service by service.
Stack1 == Each("load", <<"policy", "oauth">>) \o Deploy("policy")
Stack2 == Stack1 \o Each("health", <<"policy">>) \o Deploy("core")
Stack3 == Stack2 \o Each("health", <<"core">>) \o Deploy("oauth")
Stack4 == Stack3 \o Each("health", <<"oauth">>) \o Deploy("console")

\* The pieces of it that only load or check.
LEMMA PieceFact ==
  /\ Each("load", <<"policy", "oauth">>) \in Seq({"load"} \X Names)
  /\ \A d \in Gates : /\ Each("health", <<d>>) \in Seq({<<"health", d>>})
                       /\ Has(Each("health", <<d>>), {<<"health", d>>})
<1>1. <<"policy", "oauth">> \in Seq({"policy", "oauth"}) /\ {"policy", "oauth"} \subseteq Names
  BY NamesFact DEF Core5
<1>2. Each("load", <<"policy", "oauth">>) \in Seq({"load"} \X {"policy", "oauth"})
  BY <1>1, EachFact
<1>3. Each("load", <<"policy", "oauth">>) \in Seq({"load"} \X Names)
  BY <1>1, <1>2, SeqMonotonic
<1>4. ASSUME NEW d \in Gates
      PROVE  /\ Each("health", <<d>>) \in Seq({<<"health", d>>})
             /\ Has(Each("health", <<d>>), {<<"health", d>>})
  <2>1. PICK n : n = <<d>>
    OBVIOUS
  <2>2. n \in Seq({d}) /\ Len(n) = 1 /\ n[1] = d
    BY <2>1
  <2>e. /\ Each("health", n) \in Seq({"health"} \X {d}) /\ Len(Each("health", n)) = Len(n)
        /\ \A i \in 1 .. Len(n) : Each("health", n)[i] = <<"health", n[i]>>
    BY <2>2, EachFact
  <2>3. /\ Each("health", n) \in Seq({"health"} \X {d}) /\ Len(Each("health", n)) = 1
        /\ Each("health", n)[1] = <<"health", d>>
    BY <2>2, <2>e
  <2>4. {"health"} \X {d} = {<<"health", d>>}
    OBVIOUS
  <2> QED
    BY <2>1, <2>3, <2>4 DEF Has
<1> QED
  BY <1>3, <1>4

\* One more service of the stack, behind the health check of the one before.
LEMMA StackStep ==
  ASSUME NEW p \in Seq(Plain), NEW d \in Gates, NEW s \in Core5 \ KeyOwners
  PROVE  LET q == p \o Each("health", <<d>>) \o Deploy(s)
             h == <<"health", d>>
         IN /\ q \in Seq(Plain)
            /\ Has(q, {h})
            /\ \A X : Has(p, X) \/ Has(Deploy(s), X) => Has(q, X)
            /\ \A A, X :
                 /\ Comes(p, A, X) /\ (h \notin A \/ Has(p, X))
                 /\ Comes(Deploy(s), A, X) \/ Has(p, X) \/ h \in X
                 => Comes(q, A, X)
            /\ \A A, X : Before(p, A, X) /\ h \notin A /\ Comes(Deploy(s), A, {})
                         => Before(q, A, X)
            /\ Probed(p) => Probed(q)
<1> DEFINE b == Each("health", <<d>>)
           c == Deploy(s)
           h == <<"health", d>>
<1>1. b \in Seq({h}) /\ Has(b, {h}) /\ {h} \subseteq Plain
  BY PieceFact DEF Plain
<1>2. b \in Seq(Plain)
  BY <1>1, SeqMonotonic
<1>3. s \in Services /\ c \in Seq(Plain)
  BY DeployFact, NamesFact DEF KeyStep
<1>4. Probed(b) /\ Probed(c)
  <2>1. {h} \subseteq StepsOf("deploy") /\ {h} \cap ({"up"} \X Names) = {}
    BY NamesFact DEF StepsOf
  <2> QED
    BY <1>1, <1>3, <2>1, NamesFact, ProbedNone, DeployProbed
<1> HIDE DEF b, c, h
<1>5. \A A, X : h \notin A => Comes(b, A, X)
  <2>1. \A A : h \notin A => {h} \cap A = {}
    OBVIOUS
  <2> QED
    BY <1>1, <2>1, ComesNone
<1>6. \A X : h \in X => Has(b, X)
  BY <1>1 DEF Has
<1>7. p \o b \in Seq(Plain) /\ (p \o b) \o c \in Seq(Plain)
  BY <1>2, <1>3, ConcatProperties
<1>8. \A X : Has(p, X) \/ Has(b, X) \/ Has(c, X) => Has((p \o b) \o c, X)
  BY <1>2, <1>3, <1>7, HasConcat
<1>9. ASSUME NEW A, NEW X, Comes(p, A, X), h \notin A \/ Has(p, X),
             Comes(c, A, X) \/ Has(p, X) \/ h \in X
      PROVE  Comes((p \o b) \o c, A, X)
  <2>1. Comes(p \o b, A, X)
    <3>1. CASE h \notin A
      BY <1>2, <1>5, <1>9, <3>1, ComesConcat
    <3>2. CASE Has(p, X)
      BY <1>2, <1>9, <3>2, ComesConcat
    <3> QED
      BY <1>9, <3>1, <3>2
  <2>2. Comes(c, A, X) \/ Has(p \o b, X)
    BY <1>2, <1>6, <1>9, HasConcat
  <2> QED
    BY <1>3, <1>7, <2>1, <2>2, ComesConcat
<1>10. Probed(p) => Probed((p \o b) \o c)
  BY <1>4, ProbedConcat
<1>11. ASSUME NEW A, NEW X, Before(p, A, X), h \notin A, Comes(c, A, {})
       PROVE  Before((p \o b) \o c, A, X)
  <2>1. Before(b, A, X) /\ Comes(b, A, {})
    BY <1>1, <1>5, <1>11, BeforeNone
  <2>2. Before(p \o b, A, X)
    BY <1>2, <1>11, <2>1, BeforeConcat
  <2>3. Before(c, A, X)
    BY <1>11 DEF Before, Comes
  <2> QED
    BY <1>3, <1>7, <1>11, <2>2, <2>3, BeforeConcat
<1>12. Has((p \o b) \o c, {h})
  BY <1>1, <1>8
<1> QED
  BY <1>7, <1>8, <1>9, <1>10, <1>11, <1>12 DEF b, c, h

\* The deploy of the stack asks for what it starts, behind its start, counts on
\* what it asked for, starts all five services, recreates Core no more once it
\* asked for it, and decides at its end about Explorer.
LEMMA StackFact ==
  /\ DeployStack = Stack4 \o <<<<"ifkey", "deploy">>>>
  /\ Stack4 \in Seq(Plain) /\ Probed(Stack4)
  /\ \A d \in Core5 : Has(Stack4, Ups(d))
  /\ Has(Stack4, {<<"health", "core">>})
  /\ \A d \in Gates : /\ Comes(Stack4, {<<"health", d>>}, Ups(d))
                       /\ Comes(Stack4, Behind(d), {<<"health", d>>})
  /\ \A d \in {"policy", "database"} : Comes(Stack4, {<<"health", "core">>}, Ups(d))
  /\ Before(Stack4, {<<"up", "core">>}, Asks)
<1> DEFINE H(d) == <<"health", d>>
           Users == {<<"up", "console">>, <<"up", "explorer">>}
<1>s. /\ {"policy", "core", "oauth", "console"} \subseteq Core5 \ KeyOwners
      /\ Core5 \subseteq Services /\ Gates = {"policy", "core", "oauth"}
      /\ Users \subseteq {"up"} \X Names /\ <<"up", "core">> \in {"up"} \X Names
  BY NamesFact DEF Core5, KeyOwners, Gates
<1>r. /\ Required("policy") = {} /\ Required("core") = {"policy"}
      /\ Required("oauth") = {"policy", "core"} /\ Required("console") = {"policy"}
  BY DEF Required
<1>u. /\ \A X : Comes(Deploy("policy"), Users, X) /\ Comes(Deploy("core"), Users, X)
      /\ \A s \in {"policy", "oauth", "console"} : \A X : Comes(Deploy(s), {<<"up", "core">>}, X)
      /\ \A s \in {"policy", "core", "oauth", "console"} : \A d, X : Comes(Deploy(s), {H(d)}, X)
  BY <1>s, DeployFact
<1>p. \A s \in {"policy", "core", "oauth", "console"} : \A d :
        d \notin Required(s) => \A X : Comes(Deploy(s), {<<"probe", d>>}, X)
  BY <1>s, DeployFact
<1>d. \A A, B, X, q : Comes(q, A, X) /\ Comes(q, B, X) => Comes(q, A \cup B, X)
  BY DEF Comes
<1>1. /\ Stack1 \in Seq(Plain) /\ Probed(Stack1)
      /\ Has(Stack1, Ups("policy"))
      /\ \A e, X : Comes(Stack1, {<<"probe", e>>}, X) /\ Comes(Stack1, {H(e)}, X)
      /\ \A X : Comes(Stack1, Users, X)
  <2> DEFINE a == Each("load", <<"policy", "oauth">>)
             b == Deploy("policy")
  <2>1. a \in Seq({"load"} \X Names) /\ {"load"} \X Names \subseteq Plain
    BY PieceFact DEF Plain
  <2>2. a \in Seq(Plain)
    BY <2>1, SeqMonotonic
  <2>3. b \in Seq(Plain) /\ Has(b, Ups("policy")) /\ Probed(b)
    BY <1>s, NamesFact, DeployFact, DeployProbed DEF KeyStep, Starts
  <2>4. Probed(a)
    <3>1. {"load"} \X Names \subseteq StepsOf("deploy")
          /\ ({"load"} \X Names) \cap ({"up"} \X Names) = {}
      BY DEF StepsOf
    <3> QED
      BY <2>1, <3>1, ProbedNone
  <2>5. /\ \A e, X : Comes(a, {<<"probe", e>>}, X) /\ Comes(a, {H(e)}, X)
        /\ \A X : Comes(a, Users, X)
    <3>1. /\ \A e : ({"load"} \X Names) \cap {<<"probe", e>>} = {}
          /\ \A e : ({"load"} \X Names) \cap {H(e)} = {}
          /\ ({"load"} \X Names) \cap Users = {}
      OBVIOUS
    <3> QED
      BY <2>1, <3>1, ComesNone
  <2>6. /\ \A e, X : Comes(b, {<<"probe", e>>}, X) /\ Comes(b, {H(e)}, X)
        /\ \A X : Comes(b, Users, X)
    BY <1>r, <1>u, <1>p
  <2> HIDE DEF a, b, H, Users
  <2>7. a \o b \in Seq(Plain) /\ Probed(a \o b) /\ Has(a \o b, Ups("policy"))
    BY <2>2, <2>3, <2>4, ConcatProperties, ProbedConcat, HasConcat
  <2>8. \A A, X : Comes(a, A, X) /\ Comes(b, A, X) => Comes(a \o b, A, X)
    BY <2>2, <2>3, ComesConcat
  <2> QED
    BY <2>5, <2>6, <2>7, <2>8 DEF a, b, Stack1
<1>h. ASSUME NEW p \in Seq(Plain), NEW d \in Gates, NEW s \in {"core", "oauth", "console"}
      PROVE  LET q == p \o Each("health", <<d>>) \o Deploy(s)
             IN /\ q \in Seq(Plain) /\ Has(q, {H(d)})
                /\ \A X : Has(p, X) \/ Has(Deploy(s), X) => Has(q, X)
                /\ \A A, X : Comes(p, A, X) /\ Has(p, X) => Comes(q, A, X)
                /\ \A A, X : /\ Comes(p, A, X) /\ H(d) \notin A
                             /\ Comes(Deploy(s), A, X) \/ H(d) \in X
                             => Comes(q, A, X)
                /\ \A A, X : Before(p, A, X) /\ H(d) \notin A /\ Comes(Deploy(s), A, {})
                             => Before(q, A, X)
                /\ Probed(p) => Probed(q)
  BY <1>s, StackStep
<1> HIDE DEF Users
<1>2. /\ Stack2 \in Seq(Plain) /\ Probed(Stack2) /\ Has(Stack2, {H("policy")})
      /\ \A d \in {"policy", "core", "database"} : Has(Stack2, Ups(d))
      /\ Comes(Stack2, {H("policy")}, Ups("policy"))
      /\ Comes(Stack2, {<<"probe", "policy">>}, {H("policy")})
      /\ \A e, X : e # "policy" => Comes(Stack2, {<<"probe", e>>}, X) /\ Comes(Stack2, {H(e)}, X)
      /\ \A X : Comes(Stack2, Users, X)
  <2> DEFINE q == Stack1 \o Each("health", <<"policy">>) \o Deploy("core")
  <2>1. \A d \in {"core", "database"} : Has(Deploy("core"), Ups(d))
    BY <1>s, DeployFact DEF DependsOn, Starts
  <2>2. /\ q \in Seq(Plain) /\ Has(q, {H("policy")})
        /\ \A X : Has(Stack1, X) \/ Has(Deploy("core"), X) => Has(q, X)
        /\ \A A, X : Comes(Stack1, A, X) /\ Has(Stack1, X) => Comes(q, A, X)
        /\ \A A, X : /\ Comes(Stack1, A, X) /\ H("policy") \notin A
                     /\ Comes(Deploy("core"), A, X) \/ H("policy") \in X
                     => Comes(q, A, X)
        /\ Probed(Stack1) => Probed(q)
    BY <1>1, <1>s, <1>h
  <2>3. /\ H("policy") \notin Users
        /\ \A e : H("policy") \notin {<<"probe", e>>}
        /\ \A e : e # "policy" => H("policy") \notin {H(e)}
    BY DEF Users
  <2>4. Stack2 = q
    BY DEF Stack2
  <2> HIDE DEF q, H
  <2> QED
    BY <1>1, <1>r, <1>u, <1>p, <2>1, <2>2, <2>3, <2>4
<1>3. /\ Stack3 \in Seq(Plain) /\ Probed(Stack3) /\ Has(Stack3, {H("policy")}) /\ Has(Stack3, {H("core")})
      /\ \A d \in {"policy", "core", "database", "oauth"} : Has(Stack3, Ups(d))
      /\ Comes(Stack3, {H("policy")}, Ups("policy"))
      /\ \A d \in {"policy", "core", "database"} : Comes(Stack3, {H("core")}, Ups(d))
      /\ \A d \in {"policy", "core"} : Comes(Stack3, {<<"probe", d>>}, {H(d)})
      /\ Comes(Stack3, Users, {H("core")})
      /\ \A X : Comes(Stack3, {<<"probe", "oauth">>}, X) /\ Comes(Stack3, {H("oauth")}, X)
      /\ Before(Stack3, {<<"up", "core">>}, Asks)
  <2> DEFINE q == Stack2 \o Each("health", <<"core">>) \o Deploy("oauth")
  <2>1. Has(Deploy("oauth"), Ups("oauth"))
    BY <1>s, DeployFact DEF Starts
  <2>2. /\ q \in Seq(Plain) /\ Has(q, {H("core")})
        /\ \A X : Has(Stack2, X) \/ Has(Deploy("oauth"), X) => Has(q, X)
        /\ \A A, X : Comes(Stack2, A, X) /\ Has(Stack2, X) => Comes(q, A, X)
        /\ \A A, X : /\ Comes(Stack2, A, X) /\ H("core") \notin A
                     /\ Comes(Deploy("oauth"), A, X) \/ H("core") \in X
                     => Comes(q, A, X)
        /\ \A A, X : Before(Stack2, A, X) /\ H("core") \notin A /\ Comes(Deploy("oauth"), A, {})
                     => Before(q, A, X)
        /\ Probed(Stack2) => Probed(q)
    BY <1>2, <1>s, <1>h
  <2>3. /\ H("core") \notin Users /\ \A e : H("core") \notin {<<"probe", e>>}
        /\ H("core") \notin {H("oauth")} /\ H("core") \notin {<<"up", "core">>}
    BY DEF Users
  <2>4. Before(Stack2, {<<"up", "core">>}, Asks)
    <3>1. Comes(Stack2, {<<"probe", "core">>}, {}) /\ Comes(Stack2, {<<"health", "core">>}, {})
      BY <1>2
    <3>2. Asks = {<<"probe", "core">>} \cup {<<"health", "core">>}
      BY DEF Asks
    <3>3. Comes(Stack2, Asks, {})
      BY <1>d, <3>1, <3>2
    <3> QED
      BY <1>2, <3>3, LenProperties DEF Before, Comes
  <2>5. Stack3 = q
    BY DEF Stack3
  <2> HIDE DEF q, H
  <2> QED
    BY <1>2, <1>r, <1>u, <1>p, <2>1, <2>2, <2>3, <2>4, <2>5
<1>4. /\ Stack4 \in Seq(Plain) /\ Probed(Stack4) /\ Has(Stack4, {H("core")})
      /\ \A d \in Core5 : Has(Stack4, Ups(d))
      /\ \A d \in Gates : Comes(Stack4, {H(d)}, Ups(d))
      /\ \A d \in {"policy", "database"} : Comes(Stack4, {H("core")}, Ups(d))
      /\ \A d \in Gates : Comes(Stack4, {<<"probe", d>>}, {H(d)})
      /\ Comes(Stack4, Users, {H("core")})
      /\ Before(Stack4, {<<"up", "core">>}, Asks)
  <2> DEFINE q == Stack3 \o Each("health", <<"oauth">>) \o Deploy("console")
  <2>1. Has(Deploy("console"), Ups("console"))
    BY <1>s, DeployFact DEF Starts
  <2>2. /\ q \in Seq(Plain)
        /\ \A X : Has(Stack3, X) \/ Has(Deploy("console"), X) => Has(q, X)
        /\ \A A, X : Comes(Stack3, A, X) /\ Has(Stack3, X) => Comes(q, A, X)
        /\ \A A, X : /\ Comes(Stack3, A, X) /\ H("oauth") \notin A
                     /\ Comes(Deploy("console"), A, X) \/ H("oauth") \in X
                     => Comes(q, A, X)
        /\ \A A, X : Before(Stack3, A, X) /\ H("oauth") \notin A /\ Comes(Deploy("console"), A, {})
                     => Before(q, A, X)
        /\ Probed(Stack3) => Probed(q)
    BY <1>3, <1>s, <1>h
  <2>3. /\ \A e : H("oauth") \notin {<<"probe", e>>}
        /\ H("oauth") \notin {<<"up", "core">>} /\ H("oauth") \in {H("oauth")}
    OBVIOUS
  <2>4. Stack4 = q
    BY DEF Stack4
  <2>5. Core5 = {"policy", "core", "database", "oauth"} \cup {"console"}
    BY DEF Core5
  <2> HIDE DEF q, H
  <2>6. /\ \A d \in {"policy", "core", "database", "oauth"} : Has(q, Ups(d))
        /\ Has(q, Ups("console")) /\ Has(q, {H("core")}) /\ q \in Seq(Plain) /\ Probed(q)
        /\ Before(q, {<<"up", "core">>}, Asks)
    BY <1>3, <1>u, <2>1, <2>2, <2>3
  <2>7. /\ Comes(q, {H("policy")}, Ups("policy")) /\ Comes(q, {H("oauth")}, Ups("oauth"))
        /\ \A d \in {"policy", "core", "database"} : Comes(q, {H("core")}, Ups(d))
        /\ \A d \in {"policy", "core"} : Comes(q, {<<"probe", d>>}, {H(d)})
        /\ Comes(q, Users, {H("core")})
    BY <1>3, <2>2
  <2>8. Comes(q, {<<"probe", "oauth">>}, {H("oauth")})
    BY <1>3, <2>2, <2>3
  <2> QED
    BY <1>s, <2>4, <2>5, <2>6, <2>7, <2>8
<1>5. DeployStack = Stack4 \o <<<<"ifkey", "deploy">>>>
  BY DEF DeployStack, Stack1, Stack2, Stack3, Stack4
<1>6. ASSUME NEW d \in Gates
      PROVE  Comes(Stack4, Behind(d), {H(d)})
  BY <1>4, <1>d DEF Behind, Users
<1> QED
  BY <1>4, <1>5, <1>6
\* The stop of the stack stops whatever needs a service before that service,
\* decides about Explorer before all of them, and stops all five.
LEMMA StopStackFact ==
  /\ StopStack \in Seq(StepsOf("stop"))
  /\ \A s \in Services : \A d \in Needs(s) : Comes(StopStack, {<<"stop", d>>}, Stops(s))
  /\ \A s \in Services \ {"playground"} : Has(StopStack, Stops(s))
<1> DEFINE a == Each("load", <<"oauth", "policy">>)
           b == <<<<"ifkey", "stop">>>>
           c == Each("stop", <<"console", "oauth", "core", "database", "policy">>)
           T == StepsOf("stop")
<1>1. a = <<<<"load", "oauth">>, <<"load", "policy">>>>
  BY DEF Each
<1>2. c = <<<<"stop", "console">>, <<"stop", "oauth">>, <<"stop", "core">>,
            <<"stop", "database">>, <<"stop", "policy">>>>
  BY DEF Each
<1>3. a \in Seq(T) /\ b \in Seq(T) /\ c \in Seq(T)
  <2>1. {"load"} \X Names \subseteq T /\ {"stop"} \X Names \subseteq T /\ <<"ifkey", "stop">> \in T
    BY DEF StepsOf
  <2>2. <<"oauth", "policy">> \in Seq(Names)
        /\ <<"console", "oauth", "core", "database", "policy">> \in Seq(Names)
    BY NamesFact DEF Core5
  <2>3. a \in Seq({"load"} \X Names) /\ c \in Seq({"stop"} \X Names)
    BY <2>2, EachFact
  <2> HIDE DEF a, c, T
  <2> QED
    BY <2>1, <2>3, SeqMonotonic
<1>4. StopStack = (a \o b) \o c
  BY DEF StopStack
<1>c. c[1] = <<"stop", "console">> /\ c[2] = <<"stop", "oauth">> /\ c[3] = <<"stop", "core">>
      /\ c[4] = <<"stop", "database">> /\ c[5] = <<"stop", "policy">> /\ Len(c) = 5
  BY <1>2
<1>5. Has(b, Stops("explorer")) /\ \A s \in Core5 : Has(c, Stops(s))
  <2>1. Has(b, Stops("explorer"))
    BY DEF Has, Stops
  <2>2. \A s \in Core5 : \E i \in 1 .. 5 : c[i] = <<"stop", s>>
    <3> HIDE DEF c
    <3> QED
      BY <1>c DEF Core5
  <2> QED
    BY <1>c, <2>1, <2>2 DEF Has, Stops
<1>6. ASSUME NEW d, NEW X
      PROVE  Comes(a, {<<"stop", d>>}, X) /\ Comes(b, {<<"stop", d>>}, X)
  BY <1>1 DEF Comes
<1>7. ASSUME NEW s \in Services, NEW d \in Needs(s), s # "explorer"
      PROVE  Comes(c, {<<"stop", d>>}, Stops(s))
  <2>1. \/ s = "core" /\ d \in {"policy", "database"}
        \/ s = "console" /\ d \in {"policy", "database", "core"}
        \/ s = "oauth" /\ d \in {"policy", "core"}
    BY <1>7 DEF Needs
  <2> HIDE DEF c
  <2> SUFFICES ASSUME NEW i \in 1 .. 5, c[i] = <<"stop", d>>
               PROVE  \E j \in 1 .. i - 1 : c[j] = <<"stop", s>>
    BY <1>c DEF Comes, Stops
  <2>3. CASE d = "policy"
    <3>1. i = 5
      BY <1>c, <2>3
    <3> QED
      BY <2>1, <1>c, <2>3, <3>1
  <2>4. CASE d = "database"
    <3>1. i = 4
      BY <1>c, <2>4
    <3> QED
      BY <2>1, <1>c, <2>4, <3>1
  <2>5. CASE d = "core"
    <3>1. i = 3
      BY <1>c, <2>5
    <3> QED
      BY <2>1, <1>c, <2>5, <3>1
  <2> QED
    BY <2>1, <2>3, <2>4, <2>5
<1> HIDE DEF a, b, c, T
<1>8. a \o b \in Seq(T) /\ (a \o b) \o c \in Seq(T)
  BY <1>3, ConcatProperties
<1>9. \A X : Has(b, X) => Has(a \o b, X)
  BY <1>3, HasConcat
<1>10. \A d, X : Comes(a \o b, {<<"stop", d>>}, X)
  BY <1>3, <1>6, ComesConcat
<1>11. ASSUME NEW s \in Services, NEW d \in Needs(s)
       PROVE  Comes((a \o b) \o c, {<<"stop", d>>}, Stops(s))
  <2>1. Comes(c, {<<"stop", d>>}, Stops(s)) \/ Has(a \o b, Stops(s))
    BY <1>5, <1>7, <1>9
  <2> QED
    BY <1>3, <1>8, <1>10, <2>1, ComesConcat
<1>12. ASSUME NEW s \in Services \ {"playground"}
       PROVE  Has((a \o b) \o c, Stops(s))
  <2>1. s \in Core5 \/ s = "explorer"
    BY NamesFact DEF AllServices, Core5
  <2> QED
    BY <1>3, <1>5, <1>8, <1>9, <2>1, HasConcat
<1> QED
  BY <1>4, <1>8, <1>11, <1>12 DEF T

\* A destroy stops a service, or takes its product down, before it removes a
\* tree that holds its files.
Guarded(q) ==
  /\ \A s \in Services : Comes(q, {<<"rmtree", s>>}, Stoppers(s))
  /\ Comes(q, {<<"rmtree", "nebula">>}, {<<"down", "nebula">>})

LEMMA DestroyFact ==
  ASSUME NEW x \in Named
  PROVE  Destroy(x) \in Seq(StepsOf("destroy")) /\ Guarded(Destroy(x))
<1>1. x \in Names /\ Product[x] \in Names
  BY NamesFact
<1>2. CASE x \in {"database", "core", "console", "explorer"}
  <2>1. Destroy(x) = <<<<"stop", x>>, <<"rmtree", x>>>>
    BY <1>2 DEF Destroy
  <2>2. Destroy(x) \in Seq(StepsOf("destroy"))
    BY <1>1, <2>1 DEF StepsOf
  <2>3. PICK q : q = Destroy(x)
    OBVIOUS
  <2>4. Len(q) = 2 /\ q[1] = <<"stop", x>> /\ q[2] = <<"rmtree", x>>
    BY <2>1, <2>3
  <2>5. ASSUME NEW s \in Services
        PROVE  Comes(q, {<<"rmtree", s>>}, Stoppers(s))
    BY <2>4 DEF Comes, Stoppers
  <2>6. Comes(q, {<<"rmtree", "nebula">>}, {<<"down", "nebula">>})
    BY <1>2, <2>4 DEF Comes
  <2> QED
    BY <2>2, <2>3, <2>5, <2>6 DEF Guarded
<1>3. CASE x \notin {"database", "core", "console", "explorer"}
  <2>1. Destroy(x) = <<<<"down", Product[x]>>, <<"rmtree", x>>, <<"unlink", Product[x]>>>>
    BY <1>3 DEF Destroy
  <2>2. Destroy(x) \in Seq(StepsOf("destroy"))
    BY <1>1, <2>1 DEF StepsOf
  <2>3. x = "nebula" => Product[x] = "nebula"
    BY DEF Product
  <2>4. PICK q : q = Destroy(x)
    OBVIOUS
  <2>5. Len(q) = 3 /\ q[1] = <<"down", Product[x]>> /\ q[2] = <<"rmtree", x>>
        /\ q[3] = <<"unlink", Product[x]>>
    BY <2>1, <2>4
  <2>6. ASSUME NEW s \in Services
        PROVE  Comes(q, {<<"rmtree", s>>}, Stoppers(s))
    <3>1. s = x => <<"down", Product[x]>> \in Stoppers(s)
      BY <1>3 DEF Stoppers
    <3> QED
      BY <2>5, <3>1 DEF Comes
  <2>7. Comes(q, {<<"rmtree", "nebula">>}, {<<"down", "nebula">>})
    BY <2>3, <2>5 DEF Comes
  <2> QED
    BY <2>2, <2>4, <2>6, <2>7 DEF Guarded
<1> QED
  BY <1>2, <1>3

\* What a script begins with, and what follows.
LEMMA ScriptSplit ==
  ASSUME NEW x \in Named
  PROVE  LET L == Each("load", <<Product[x]>>)
         IN /\ L \in Seq({"load"} \X Names)
            /\ Script("init", x) = <<<<"generate", Product[x]>>, <<"initialize", x>>>>
            /\ Script("deploy", x) = L \o (IF x = "nebula" THEN DeployStack ELSE Deploy(x))
            /\ Script("stop", x) = L \o (IF x = "nebula" THEN StopStack ELSE Each("stop", <<x>>))
            /\ Script("health", x) = L \o Health(x)
            /\ Script("bootstrap", x) = L \o Each("probe", <<"core">>)
            /\ Script("destroy", x) = L \o Destroy(x)
<1>1. <<Product[x]>> \in Seq(Names)
  BY NamesFact
<1>2. Each("load", <<Product[x]>>) \in Seq({"load"} \X Names)
  BY <1>1, EachFact
<1> QED
  BY <1>2 DEF Script

\* A command takes only the steps of its kind.
LEMMA ScriptShape ==
  ASSUME NEW x \in Named, NEW action \in Actions \ {"import"}
  PROVE  Script(action, x) \in Seq(StepsOf(action))
<1> DEFINE L == Each("load", <<Product[x]>>)
<1>1. L \in Seq({"load"} \X Names)
  BY ScriptSplit
<1>n. x \in Names /\ Product[x] \in Names /\ "core" \in Names /\ "console" \in Names
  BY NamesFact DEF Core5
<1> HIDE DEF L
<1>2. CASE action = "init"
  <2>1. <<"generate", Product[x]>> \in StepsOf("init")
        /\ <<"initialize", x>> \in StepsOf("init")
    BY <1>n DEF StepsOf
  <2>2. PICK g, h : g = <<"generate", Product[x]>> /\ h = <<"initialize", x>>
    OBVIOUS
  <2>3. <<g, h>> \in Seq(StepsOf("init"))
    BY <2>1, <2>2
  <2>4. Script("init", x) = <<g, h>>
    BY <2>2, ScriptSplit
  <2> QED
    BY <1>2, <2>3, <2>4
<1>3. CASE action = "deploy"
  <2>1. {"load"} \X Names \subseteq StepsOf("deploy") /\ Plain \subseteq StepsOf("deploy")
        /\ <<"ifkey", "deploy">> \in StepsOf("deploy")
    BY NamesFact DEF StepsOf, Plain
  <2>2. L \in Seq(StepsOf("deploy"))
    BY <1>1, <2>1, SeqMonotonic
  <2>3. DeployStack \in Seq(StepsOf("deploy"))
    <3>1. Stack4 \in Seq(StepsOf("deploy"))
      BY StackFact DEF Probed
    <3>2. <<<<"ifkey", "deploy">>>> \in Seq(StepsOf("deploy"))
      BY <2>1
    <3> QED
      BY <3>1, <3>2, StackFact, ConcatProperties
  <2>4. x # "nebula" => Deploy(x) \in Seq(StepsOf("deploy"))
    BY DeployProbed DEF Probed, Named
  <2>5. Script("deploy", x) = L \o (IF x = "nebula" THEN DeployStack ELSE Deploy(x))
    BY ScriptSplit DEF L
  <2> QED
    BY <1>3, <2>2, <2>3, <2>4, <2>5, ConcatProperties
<1>4. CASE action = "stop"
  <2>1. {"load"} \X Names \subseteq StepsOf("stop") /\ {"stop"} \X Names \subseteq StepsOf("stop")
    BY DEF StepsOf
  <2>2. L \in Seq(StepsOf("stop"))
    BY <1>1, <2>1, SeqMonotonic
  <2>3. Each("stop", <<x>>) \in Seq(StepsOf("stop"))
    <3>1. <<x>> \in Seq(Names)
      BY <1>n
    <3> QED
      BY <2>1, <3>1, EachFact, SeqMonotonic
  <2>4. Script("stop", x) = L \o (IF x = "nebula" THEN StopStack ELSE Each("stop", <<x>>))
    BY ScriptSplit DEF L
  <2> QED
    BY <1>4, <2>2, <2>3, <2>4, StopStackFact, ConcatProperties
<1>5. CASE action = "health"
  <2>1. {"load"} \X Names \subseteq StepsOf("health")
        /\ {"health"} \X Names \subseteq StepsOf("health")
        /\ <<"ifkey", "health">> \in StepsOf("health")
    BY DEF StepsOf
  <2>2. L \in Seq(StepsOf("health"))
    BY <1>1, <2>1, SeqMonotonic
  <2>3. ASSUME NEW q \in Seq(Names)
        PROVE  Each("health", q) \in Seq(StepsOf("health"))
    BY <2>1, EachFact, SeqMonotonic
  <2>4. <<x>> \in Seq(Names) /\ <<"core", "console">> \in Seq(Names)
    BY <1>n
  <2>5. <<<<"ifkey", "health">>>> \in Seq(StepsOf("health"))
    BY <2>1
  <2>6. Health(x) \in Seq(StepsOf("health"))
    BY <2>3, <2>4, <2>5, ConcatProperties DEF Health
  <2>7. Script("health", x) = L \o Health(x)
    BY ScriptSplit DEF L
  <2> QED
    BY <1>5, <2>2, <2>6, <2>7, ConcatProperties
<1>6. CASE action = "bootstrap"
  <2>1. {"load"} \X Names \subseteq StepsOf("bootstrap")
        /\ {"probe"} \X Names \subseteq StepsOf("bootstrap")
    BY DEF StepsOf
  <2>2. L \in Seq(StepsOf("bootstrap"))
    BY <1>1, <2>1, SeqMonotonic
  <2>3. Each("probe", <<"core">>) \in Seq(StepsOf("bootstrap"))
    <3>1. <<"core">> \in Seq(Names)
      BY <1>n
    <3> QED
      BY <2>1, <3>1, EachFact, SeqMonotonic
  <2>4. Script("bootstrap", x) = L \o Each("probe", <<"core">>)
    BY ScriptSplit DEF L
  <2> QED
    BY <1>6, <2>2, <2>3, <2>4, ConcatProperties
<1>7. CASE action = "destroy"
  <2>1. {"load"} \X Names \subseteq StepsOf("destroy")
    BY DEF StepsOf
  <2>2. L \in Seq(StepsOf("destroy"))
    BY <1>1, <2>1, SeqMonotonic
  <2>3. Script("destroy", x) = L \o Destroy(x)
    BY ScriptSplit DEF L
  <2> QED
    BY <1>7, <2>2, <2>3, DestroyFact, ConcatProperties
<1> QED
  BY <1>2, <1>3, <1>4, <1>5, <1>6, <1>7 DEF Actions
-----------------------------------------------------------------------------
(* Types, and which command takes which steps *)

\* What the lifecycle can do, whoever runs its commands.
HostStep ==
  \/ \E action \in Actions \ {"import"}, x \in Named : Begin(action, x)
  \/ \E s \in KeyOwners : ImportKey(s)
  \/ Execute \/ Disturb
  \/ UNCHANGED hostVars

\* The steps of the specification are among them.
LEMMA NextIsHostStep == [Next]_hostVars => HostStep
<1>1. Scopes \subseteq Named /\ Products \subseteq Named
  BY ScopesAssumption, NamesFact DEF Named
<1>2. {"deploy", "stop", "destroy", "health", "init"} \subseteq Actions \ {"import"}
  BY DEF Actions
<1> QED
  BY <1>1, <1>2 DEF Next, Operate, HostStep

\* The step a command is at belongs to the command.
LEMMA DoingFact ==
  ASSUME ShapeInv, NEW op, NEW x, Doing(op, x)
  PROVE  /\ script # <<>> /\ Head(script) = <<op, x>>
         /\ <<op, x>> \in StepsOf(command[1])
         /\ Tail(script) \in Seq(StepsOf(command[1])) /\ Tail(script) \in Seq(ScriptStep)
         /\ command[1] \in Actions /\ op \in Ops /\ x \in Names
<1>1. script # <<>> /\ Head(script) = <<op, x>>
  BY DEF Doing, Running
<1>2. script \in Seq(StepsOf(command[1])) /\ script \in Seq(ScriptStep)
  BY DEF ShapeInv, HostTypes
<1>3. <<op, x>> \in StepsOf(command[1]) /\ <<op, x>> \in ScriptStep
  BY <1>1, <1>2, TailFact
<1> QED
  BY <1>1, <1>2, <1>3, TailFact DEF ScriptStep, ShapeInv, HostTypes, Command

\* Which commands a step belongs to.
LEMMA StepsFact ==
  ASSUME NEW action \in Actions, NEW op, NEW x, <<op, x>> \in StepsOf(action)
  PROVE  /\ op \in {"up", "stage", "key"} => action = "deploy"
         /\ op \in {"rmtree", "down", "unlink"} => action = "destroy"
         /\ op = "stop" => action \in {"stop", "destroy"}
         /\ op \in {"generate", "initialize"} => action = "init"
         /\ op = "load" => action # "init"
         /\ op = "probe" => action \in {"deploy", "bootstrap"}
         /\ op = "health" => action \in {"deploy", "health"}
         /\ op = "ifkey" => \/ action = "deploy" /\ x = "deploy"
                            \/ action = "stop" /\ x = "stop"
                            \/ action = "health" /\ x = "health"
BY DEF Actions, StepsOf

\* The steps of every command are steps.
LEMMA StepsAreSteps == \A action \in Actions : StepsOf(action) \subseteq ScriptStep
BY NamesFact DEF Actions, StepsOf, ScriptStep, Ops, Names

\* What starts or probes nothing, and removes nothing, in each kind of command.
LEMMA KindFact ==
  ASSUME NEW action \in Actions, NEW q \in Seq(StepsOf(action)), NEW X
  PROVE  /\ action # "deploy" => \A s : Comes(q, {<<"up", s>>}, X)
         /\ action # "deploy" => Comes(q, {<<"ifkey", "deploy">>}, X)
         /\ action # "destroy" => \A x : Comes(q, {<<"rmtree", x>>}, X)
<1>1. action # "deploy" => /\ \A s : StepsOf(action) \cap {<<"up", s>>} = {}
                           /\ StepsOf(action) \cap {<<"ifkey", "deploy">>} = {}
  BY DEF Actions, StepsOf
<1>2. action # "destroy" => \A x : StepsOf(action) \cap {<<"rmtree", x>>} = {}
  BY DEF Actions, StepsOf
<1> QED
  BY <1>1, <1>2, ComesNone

\* The step that decides about Explorer puts at most its deploy, its stop or its
\* check before the rest of the command.
LEMMA IfKeyFact ==
  ASSUME ShapeInv, NEW then, IfKey(then)
  PROVE  /\ command[1] \in {"deploy", "stop", "health"} /\ then = command[1]
         /\ script' = IF "explorer" \notin keys THEN Tail(script)
                      ELSE IF then = "deploy" THEN Deploy("explorer") \o Tail(script)
                      ELSE <<<<then, "explorer">>>> \o Tail(script)
         /\ script' \in Seq(StepsOf(command[1]))
<1>1. /\ Doing("ifkey", then) /\ Tail(script) \in Seq(StepsOf(command[1]))
      /\ command[1] \in {"deploy", "stop", "health"}
      /\ then = command[1]
  <2>1. Doing("ifkey", then)
    BY DEF IfKey
  <2>2. /\ <<"ifkey", then>> \in StepsOf(command[1]) /\ command[1] \in Actions
        /\ Tail(script) \in Seq(StepsOf(command[1]))
    BY <2>1, DoingFact
  <2>3. \/ command[1] = "deploy" /\ then = "deploy"
        \/ command[1] = "stop" /\ then = "stop"
        \/ command[1] = "health" /\ then = "health"
    <3>1. PICK a : a = command[1]
      OBVIOUS
    <3> QED
      BY <2>2, <3>1, StepsFact
  <2> QED
    BY <2>1, <2>2, <2>3
<1>2. script' = (IF "explorer" \notin keys THEN <<>>
                 ELSE IF then = "deploy" THEN Deploy("explorer")
                 ELSE <<<<then, "explorer">>>>) \o Tail(script)
  BY DEF IfKey
<1>3. <<>> \o Tail(script) = Tail(script)
  BY <1>1, ConcatEmptySeq
<1>4. then = "deploy" => Deploy("explorer") \o Tail(script) \in Seq(StepsOf(command[1]))
  <2>1. Deploy("explorer") \in Seq(StepsOf("deploy"))
    BY NamesFact, DeployProbed DEF Probed
  <2> QED
    BY <1>1, <2>1, ConcatProperties
<1>5. then # "deploy" => <<<<then, "explorer">>>> \o Tail(script) \in Seq(StepsOf(command[1]))
  <2>1. then # "deploy" => <<then, "explorer">> \in StepsOf(command[1])
    BY <1>1, NamesFact DEF StepsOf
  <2>2. PICK e : e = <<then, "explorer">>
    OBVIOUS
  <2>3. then # "deploy" => <<e>> \in Seq(StepsOf(command[1]))
    BY <2>1, <2>2
  <2> QED
    BY <1>1, <2>2, <2>3, ConcatProperties
<1> QED
  BY <1>1, <1>2, <1>3, <1>4, <1>5

-----------------------------------------------------------------------------
(* Steps of a command *)

\* Where an up leaves a service that it starts or finds.
LEMMA SettledFact ==
  ASSUME status \in [Services -> Status], NEW s, NEW t \in Services, NEW v \in Settled(s, t)
  PROVE  /\ v \in Status /\ v # "down"
         /\ t \in HasHealthcheck => v = "ready"
         /\ t = "core" \/ t \in files => v \in Alive
         /\ v \in Alive => Mounts(t) \subseteq files \/ v = status[t]
         /\ t \in HasHealthcheck \/ t = "core" => Mounts(t) \subseteq files
         /\ t = "core" /\ s # t /\ command = <<"deploy", "nebula">> /\ status[t] = "ready"
              => v = "ready"
<1>1. CASE Mounts(t) \subseteq files
  BY <1>1 DEF Settled, Status, Alive
<1>2. CASE ~(Mounts(t) \subseteq files)
  <2>1. /\ t \notin HasHealthcheck /\ t # "core"
        /\ v \in {"failing"} \cup ({status[t]} \cap Alive)
    BY <1>2 DEF Settled
  <2>2. t \notin files
    BY <1>2, <2>1 DEF Mounts
  <2> QED
    BY <1>2, <2>1, <2>2 DEF Status, Alive
<1> QED
  BY <1>1, <1>2

\* An up leaves alone what it neither starts nor needs.
LEMMA BroughtFact ==
  ASSUME status \in [Services -> Status], NEW s, NEW S, NEW st \in BroughtUp(s, S)
  PROVE  /\ st \in [Services -> Status]
         /\ \A t \in Services : IF t \in S THEN st[t] \in Settled(s, t) ELSE st[t] = status[t]
<1>1. PICK new \in [S -> Status] :
        /\ \A t \in S : new[t] \in Settled(s, t)
        /\ st = [t \in Services |-> IF t \in S THEN new[t] ELSE status[t]]
  BY DEF BroughtUp
<1> QED
  BY <1>1

\* An up that gives up has left what is before the failing service up.
LEMMA GivesUpFact ==
  ASSUME status \in [Services -> Status], NEW s, NEW t \in Services, GivesUp(s, t)
  PROVE  /\ status' \in [Services -> Status]
         /\ \A u \in Services :
              IF u \in DependsOn(t) THEN status'[u] \in Settled(s, u)
              ELSE status'[u] = status[u] \/ (u = t /\ status'[u] = "failing")
<1>1. PICK new \in BroughtUp(s, DependsOn(t)) :
        status' = [new EXCEPT ![t] = "failing"] \/ status' = new
  BY DEF GivesUp
<1>2. /\ new \in [Services -> Status]
      /\ \A u \in Services :
           IF u \in DependsOn(t) THEN new[u] \in Settled(s, u) ELSE new[u] = status[u]
  BY <1>1, BroughtFact
<1>3. t \notin DependsOn(t)
  BY DEF DependsOn
<1> QED
  BY <1>1, <1>2, <1>3 DEF Status

\* Compose starts only services.
LEMMA StartsFact ==
  ASSUME NEW s \in Services
  PROVE  Starts(s) \subseteq Services /\ DependsOn(s) \subseteq Services
BY NamesFact DEF Starts, DependsOn, Core5

\* A step of a command drops itself, or everything, from the script.
Onward == script # <<>> /\ script' = Tail(script)

Ended == script' = <<>>

\* The step at the head fails: a missing file, a probe, a key or a health check.
Fails ==
  /\ script # <<>> /\ Ended /\ leftover' = leftover /\ stored' = stored
  /\ keys \subseteq keys' /\ files \subseteq files'
  /\ \/ /\ status' = status
        /\ \/ (\E x : Head(script) = <<"load", x>>) /\ failure' = "environment"
           \/ (\E x : Head(script) = <<"initialize", x>>) /\ failure' = "files"
           \/ (\E x : Head(script) = <<"probe", x>> /\ status[x] # "ready") /\ failure' = "probe"
           \/ (\E x : Head(script) = <<"key", x>> /\ x \notin keys) /\ failure' = "key"
           \/ /\ \E x : Head(script) = <<"health", x>>
                        /\ (status[x] # "ready" \/ x \in {"core", "console"})
              /\ failure' = "health"
     \/ (\E s \in Services : UpWithoutFiles(s)) /\ failure' = "files"

\* The step at the head is taken.
Passes(op, x) ==
  /\ Onward /\ failure' = failure /\ Head(script) = <<op, x>>
  /\ op \in {"probe", "health"} => status[x] = "ready"
  /\ op = "key" => x \in keys
  /\ op = "rmtree" => keys' = keys \ Owned(x) /\ files' = files \ Owned(x)
  /\ op # "rmtree" => keys \subseteq keys' /\ files \subseteq files'
  /\ op = "stage" => files' = files \cup stored
  /\ op \notin {"rmtree", "stage", "initialize"} => files' = files
  /\ op # "initialize" => stored' = stored
  /\ op = "up" => x \in Services /\ status' \in BroughtUp(x, Starts(x))
  /\ op = "stop" => x \in Services /\ status' = [status EXCEPT ![x] = "down"]
                    /\ leftover' = (leftover /\ x # "explorer")
  /\ op = "down" => /\ status' = [s \in Services |->
                         IF Product[s] = x /\ s # "explorer" THEN "down" ELSE status[s]]
                    /\ leftover' = (leftover \/ (x = "nebula" /\ status["explorer"] # "down"))
  /\ op \notin {"up", "stop", "down"} => status' = status
  /\ op \notin {"stop", "down"} => leftover' = leftover
  /\ op # "ifkey"

\* A step that checks fails or is taken.
LEMMA CheckFact ==
  ASSUME NEW cond, NEW reason, Check(cond, reason)
  PROVE  \/ cond /\ script' = Tail(script) /\ failure' = failure
         \/ ~cond /\ script' = <<>> /\ failure' = reason
BY DEF Check, Advance, FailWith

\* Every step of a command but the one that decides about Explorer.
LEMMA ExecuteCases ==
  ASSUME Execute
  PROVE  \/ \E then : IfKey(then)
         \/ Fails
         \/ \E op, x : Passes(op, x)
<1>1. ASSUME NEW p, Load(p) PROVE Fails \/ Passes("load", p)
  BY <1>1, CheckFact DEF Load, Doing, Running, Fails, Passes, Onward, Ended
<1>2. ASSUME NEW p, Generate(p) PROVE Passes("generate", p)
  BY <1>2 DEF Generate, Doing, Running, Advance, Passes, Onward
<1>3. ASSUME NEW x, Initialize(x) PROVE Fails \/ Passes("initialize", x)
  <2>1. /\ script # <<>> /\ Head(script) = <<"initialize", x>>
        /\ keys \subseteq keys' /\ files \subseteq files' /\ UNCHANGED <<status, leftover>>
    BY <1>3 DEF Initialize, Doing, Running
  <2>2. \/ script' = <<>> /\ failure' = "files" /\ stored' = stored
        \/ script' = Tail(script) /\ failure' = failure
    BY <1>3 DEF Initialize, FailWith, Advance
  <2> QED
    BY <2>1, <2>2 DEF Fails, Passes, Onward, Ended
<1>4. ASSUME NEW s, Stage(s) PROVE Passes("stage", s)
  BY <1>4 DEF Stage, Doing, Running, Advance, Passes, Onward
<1>5. ASSUME NEW s, Probe(s) PROVE Fails \/ Passes("probe", s)
  BY <1>5, CheckFact DEF Probe, Doing, Running, Fails, Passes, Onward, Ended
<1>6. ASSUME NEW s, RequireKey(s) PROVE Fails \/ Passes("key", s)
  BY <1>6, CheckFact DEF RequireKey, Doing, Running, Fails, Passes, Onward, Ended
<1>7. ASSUME NEW s \in Services, Up(s) PROVE Passes("up", s)
  BY <1>7 DEF Up, Doing, Running, Advance, Passes, Onward
<1>8. ASSUME NEW s \in Services, StopService(s) PROVE Passes("stop", s)
  BY <1>8 DEF StopService, Doing, Running, Advance, Passes, Onward
<1>9. ASSUME NEW p, Down(p) PROVE Passes("down", p)
  BY <1>9 DEF Down, Doing, Running, Advance, Passes, Onward
<1>10. ASSUME NEW x, RemoveTree(x) PROVE Passes("rmtree", x)
  BY <1>10 DEF RemoveTree, Doing, Running, Advance, Passes, Onward
<1>11. ASSUME NEW p, Unlink(p) PROVE Passes("unlink", p)
  BY <1>11 DEF Unlink, Doing, Running, Advance, Passes, Onward
<1>12. ASSUME NEW s, HealthCheck(s) PROVE Fails \/ Passes("health", s)
  <2>1. /\ script # <<>> /\ Head(script) = <<"health", s>>
        /\ UNCHANGED <<status, keys, files, stored, leftover>>
    BY <1>12 DEF HealthCheck, Doing, Running
  <2>2. \/ status[s] = "ready" /\ script' = Tail(script) /\ failure' = failure
        \/ /\ status[s] # "ready" \/ s \in {"core", "console"}
           /\ script' = <<>> /\ failure' = "health"
    BY <1>12 DEF HealthCheck, FailWith, Advance
  <2> QED
    BY <2>1, <2>2 DEF Fails, Passes, Onward, Ended
<1>13. ASSUME NEW s \in Services, UpWithoutFiles(s) PROVE Fails
  BY <1>13 DEF UpWithoutFiles, FailWith, Doing, Running, Fails, Ended
<1> QED
  BY <1>1, <1>2, <1>3, <1>4, <1>5, <1>6, <1>7, <1>8, <1>9, <1>10, <1>11, <1>12, <1>13 DEF Execute

\* What is unchanged by the steps of a command.
LEMMA ExecuteKeeps ==
  ASSUME Execute
  PROVE  UNCHANGED <<vaulted, command, disturbed, faults>> /\ Running
BY DEF Execute, Load, Generate, Initialize, Stage, Probe, HealthCheck, RequireKey, Up,
   UpWithoutFiles, StopService, Down, RemoveTree, Unlink, IfKey, Doing

\* The command that the step at the head belongs to.
LEMMA PassesFact ==
  ASSUME ShapeInv, NEW op, NEW x, Passes(op, x)
  PROVE  /\ script # <<>> /\ script \in Seq(StepsOf(command[1]))
         /\ Head(script) = <<op, x>> /\ script' = Tail(script)
         /\ x \in Names
         /\ op \in {"up", "stage", "key"} => command[1] = "deploy"
         /\ op \in {"rmtree", "down", "unlink"} => command[1] = "destroy"
         /\ op = "stop" => command[1] \in {"stop", "destroy"}
         /\ op \in {"generate", "initialize"} => command[1] = "init"
         /\ op = "probe" => command[1] \in {"deploy", "bootstrap"}
         /\ op = "health" => command[1] \in {"deploy", "health"}
<1>1. Doing(op, x) /\ script' = Tail(script) /\ script # <<>>
  BY DEF Passes, Onward, Doing, Running
<1>2. <<op, x>> \in StepsOf(command[1]) /\ command[1] \in Actions /\ x \in Names
  BY <1>1, DoingFact
<1>3. PICK a : a = command[1]
  OBVIOUS
<1> QED
  BY <1>1, <1>2, <1>3, StepsFact DEF Doing, ShapeInv

\* A script of steps that a command may take is a script.
LEMMA ShapeAlone ==
  ASSUME NEW action \in Actions, NEW q \in Seq(StepsOf(action))
  PROVE  q \in Seq(ScriptStep)
BY StepsAreSteps, SeqMonotonic

\* A command that begins has the steps of its kind.
LEMMA BeginShape ==
  ASSUME ShapeInv, NEW action \in Actions \ {"import"}, NEW x \in Named, Begin(action, x)
  PROVE  ShapeInv'
<1>1. /\ script' = Script(action, x) /\ command' = <<action, x>> /\ failure' = "none"
      /\ disturbed' = FALSE
      /\ UNCHANGED <<env, status, files, stored, keys, vaulted, leftover, faults>>
  BY DEF Begin
<1>2. Script(action, x) \in Seq(StepsOf(action)) /\ Script(action, x) \in Seq(ScriptStep)
  BY ScriptShape, ShapeAlone
<1>3. command' \in Command /\ command'[1] = action
  BY <1>1, ServicesAssumption DEF Command, Named
<1> QED
  BY <1>1, <1>2, <1>3 DEF ShapeInv, HostTypes, Failure

\* The statuses stay statuses.
LEMMA StatusFact ==
  ASSUME status \in [Services -> Status], HostStep
  PROVE  status' \in [Services -> Status]
<1>1. ASSUME NEW action, NEW x, Begin(action, x) PROVE status' \in [Services -> Status]
  BY <1>1 DEF Begin
<1>2. ASSUME NEW s, ImportKey(s) PROVE status' \in [Services -> Status]
  BY <1>2 DEF ImportKey
<1>g. ASSUME NEW s \in Services, \E t \in Starts(s) : GivesUp(s, t)
      PROVE  status' \in [Services -> Status]
  BY <1>g, StartsFact, GivesUpFact
<1>3. CASE Execute
  <2>1. ASSUME NEW then, IfKey(then) PROVE status' = status
    BY <2>1 DEF IfKey
  <2>2. ASSUME Fails PROVE status' \in [Services -> Status]
    <3>1. ASSUME NEW s \in Services, UpWithoutFiles(s)
          PROVE  \E t \in Starts(s) : GivesUp(s, t)
      BY <3>1 DEF UpWithoutFiles
    <3> QED
      BY <1>g, <2>2, <3>1 DEF Fails
  <2>3. ASSUME NEW op, NEW x, Passes(op, x) PROVE status' \in [Services -> Status]
    <3>1. CASE op = "up"
      BY <2>3, <3>1, BroughtFact DEF Passes
    <3>2. CASE op \in {"stop", "down"}
      BY <2>3, <3>2 DEF Passes, Status
    <3>3. CASE op \notin {"up", "stop", "down"}
      BY <2>3, <3>3 DEF Passes
    <3> QED
      BY <3>1, <3>2, <3>3
  <2> QED
    BY <1>3, <2>1, <2>2, <2>3, ExecuteCases
<1>4. CASE Disturb
  <2>1. ASSUME NEW s \in Services, Crash(s) \/ Recover(s) \/ Listen(s)
        PROVE  status' \in [Services -> Status]
    BY <2>1 DEF Crash, Recover, Listen, Status
  <2>2. ASSUME NEW s \in Services, UpFails(s) PROVE status' \in [Services -> Status]
    BY <1>g, <2>2 DEF UpFails
  <2>3. ASSUME Interrupt PROVE status' \in [Services -> Status]
    BY <2>3 DEF Interrupt
  <2> QED
    BY <1>4, <2>1, <2>2, <2>3 DEF Disturb
<1> QED
  BY <1>1, <1>2, <1>3, <1>4 DEF HostStep, hostVars

\* What a crash, a recovery and a command that breaks off change.
LEMMA DisturbFact ==
  ASSUME Disturb
  PROVE  /\ UNCHANGED <<env, files, stored, keys, vaulted, command, leftover>>
         /\ \/ (\E s \in Services : Crash(s)) /\ Fault /\ UNCHANGED <<script, failure>>
            \/ /\ \E s \in Services : Recover(s) \/ Listen(s)
               /\ UNCHANGED <<script, failure, disturbed, faults>>
            \/ /\ (\E s \in Services : UpFails(s)) \/ UNCHANGED status
               /\ Fault /\ Ended /\ failure' = "fault"
<1>1. ASSUME NEW s \in Services, Crash(s) \/ Recover(s) \/ Listen(s)
      PROVE  UNCHANGED <<env, files, stored, keys, vaulted, command, leftover, script, failure>>
  BY <1>1 DEF Crash, Recover, Listen
<1>2. ASSUME NEW s \in Services, Crash(s) PROVE Fault
  BY <1>2 DEF Crash
<1>3. ASSUME NEW s \in Services, Recover(s) \/ Listen(s) PROVE UNCHANGED <<disturbed, faults>>
  BY <1>3 DEF Recover, Listen
<1>4. ASSUME NEW s \in Services, UpFails(s)
      PROVE  /\ Fault /\ Ended /\ failure' = "fault"
             /\ UNCHANGED <<env, files, stored, keys, vaulted, command, leftover>>
  BY <1>4 DEF UpFails, FailWith, Ended
<1>5. ASSUME Interrupt
      PROVE  /\ Fault /\ Ended /\ failure' = "fault"
             /\ UNCHANGED <<env, status, files, stored, keys, vaulted, command, leftover>>
  BY <1>5 DEF Interrupt, FailWith, Ended
<1> QED
  BY <1>1, <1>2, <1>3, <1>4, <1>5 DEF Disturb

\* What a service's container does on its own.
LEMMA AloneFact ==
  ASSUME status \in [Services -> Status], NEW s \in Services, Crash(s) \/ Recover(s) \/ Listen(s)
  PROVE  \A t \in Services :
           \/ status'[t] = status[t]
           \/ status[t] \in Alive /\ status'[t] = "failing" /\ Fault
           \/ status[t] = "failing" /\ status'[t] = "started" /\ Mounts(t) \subseteq files
           \/ status[t] = "started" /\ status'[t] = "ready"
BY DEF Crash, Recover, Listen

\* Every step keeps the types, and the script one of its command.
LEMMA StepShape ==
  ASSUME ShapeInv, HostStep
  PROVE  ShapeInv'
<1>s. status' \in [Services -> Status]
  BY StatusFact DEF ShapeInv, HostTypes
<1>e. \A T : <<>> \in Seq(T)
  BY EmptySeq
<1>c. command[1] \in Actions
  BY DEF ShapeInv, HostTypes, Command
<1>1. ASSUME NEW action \in Actions \ {"import"}, NEW x \in Named, Begin(action, x)
      PROVE  ShapeInv'
  BY <1>1, BeginShape
<1>2. ASSUME NEW s \in KeyOwners, ImportKey(s)
      PROVE  ShapeInv'
  <2>1. script' = <<>>
    BY <1>2 DEF ImportKey, Running
  <2>2. command' \in Command
    BY <1>2, NamesFact DEF ImportKey, Command, Actions, KeyOwners
  <2>3. keys' \subseteq KeyOwners /\ vaulted' \subseteq KeyOwners /\ failure' \in Failure
        /\ disturbed' \in BOOLEAN /\ UNCHANGED <<env, files, stored, leftover, faults>>
    BY <1>2 DEF ImportKey, ShapeInv, HostTypes, Failure
  <2> QED
    BY <1>s, <1>e, <2>1, <2>2, <2>3 DEF ShapeInv, HostTypes
<1>3. CASE Execute
  <2>1. UNCHANGED <<vaulted, command, disturbed, faults>> /\ failure' \in Failure
    <3>1. failure \in Failure
      BY DEF ShapeInv, HostTypes
    <3>2. ASSUME NEW then, IfKey(then) PROVE failure' \in Failure
      BY <3>1, <3>2 DEF IfKey
    <3>3. ASSUME NEW op, NEW x, Passes(op, x) PROVE failure' \in Failure
      BY <3>1, <3>3 DEF Passes
    <3>4. ASSUME Fails PROVE failure' \in Failure
      BY <3>4 DEF Fails, Failure
    <3>5. failure' \in Failure
      BY <1>3, <3>2, <3>3, <3>4, ExecuteCases
    <3> QED
      BY <1>3, <3>5, ExecuteKeeps
  <2>2. script' \in Seq(StepsOf(command[1]))
    <3>1. CASE \E then : IfKey(then)
      BY <3>1, IfKeyFact
    <3>2. ASSUME NEW op, NEW x, Passes(op, x)
          PROVE  script' \in Seq(StepsOf(command[1]))
      BY <3>2, TailFact DEF Passes, Onward, ShapeInv
    <3>3. CASE Fails
      BY <3>3, <1>e DEF Fails, Ended
    <3> QED
      BY <1>3, <3>1, <3>2, <3>3, ExecuteCases
  <2>3. script' \in Seq(ScriptStep)
    BY <1>c, <2>2, ShapeAlone
  <2>4. env' \subseteq Products
    BY <1>3 DEF Execute, Load, Generate, Initialize, Stage, Probe, HealthCheck, RequireKey, Up,
       UpWithoutFiles, StopService, Down, RemoveTree, Unlink, IfKey, ShapeInv, HostTypes
  <2>5. keys' \subseteq KeyOwners
    BY <1>3 DEF Execute, Load, Generate, Initialize, Stage, Probe, HealthCheck, RequireKey, Up,
       UpWithoutFiles, StopService, Down, RemoveTree, Unlink, IfKey, ShapeInv, HostTypes
  <2>6. leftover' \in BOOLEAN
    BY <1>3 DEF Execute, Load, Generate, Initialize, Stage, Probe, HealthCheck, RequireKey, Up,
       UpWithoutFiles, StopService, Down, RemoveTree, Unlink, IfKey, ShapeInv, HostTypes
  <2>7. files' \subseteq Files /\ stored' \subseteq Files
    <3>1. files \subseteq Files /\ stored \subseteq Files
      BY DEF ShapeInv, HostTypes
    <3>2. ASSUME NEW x \in Services \cup {"nebula"}, Initialize(x)
          PROVE  files' \subseteq Files /\ stored' \subseteq Files
      <4>1. Created(x) \subseteq Files
        BY NamesFact DEF Created, Owned, Files, Core5
      <4>2. files' = files \cup stored \/ files' = files \cup stored \cup Created(x)
        BY <3>2 DEF Initialize
      <4>3. stored' = stored \/ stored' = files'
        BY <3>2 DEF Initialize
      <4> QED
        BY <3>1, <4>1, <4>2, <4>3
    <3>3. CASE \A x \in Services \cup {"nebula"} : ~Initialize(x)
      BY <1>3, <3>1, <3>3 DEF Execute, Load, Generate, Stage, Probe, HealthCheck, RequireKey, Up,
         UpWithoutFiles, StopService, Down, RemoveTree, Unlink, IfKey
    <3> QED
      BY <3>2, <3>3
  <2> QED
    BY <1>s, <2>1, <2>2, <2>3, <2>4, <2>5, <2>6, <2>7 DEF ShapeInv, HostTypes
<1>4. CASE Disturb
  <2>1. /\ UNCHANGED <<env, files, stored, keys, vaulted, command, leftover>>
        /\ (script' = script \/ script' = <<>>)
        /\ (failure' = failure \/ failure' = "fault")
        /\ ((disturbed' = disturbed /\ faults' = faults) \/ Fault)
    BY <1>4, DisturbFact DEF Ended
  <2>2. disturbed' \in BOOLEAN /\ faults' \in 0 .. MaxFaults
    <3>1. disturbed \in BOOLEAN /\ faults \in 0 .. MaxFaults
      BY DEF ShapeInv, HostTypes
    <3>2. CASE disturbed' = disturbed /\ faults' = faults
      BY <3>1, <3>2
    <3>3. CASE Fault
      <4>1. disturbed' \in BOOLEAN
        BY <3>3 DEF Fault
      <4>2. faults' \in 0 .. MaxFaults
        BY <3>1, <3>3, MaxFaultsAssumption DEF Fault
      <4> QED
        BY <4>1, <4>2
    <3> QED
      BY <2>1, <3>2, <3>3
  <2>3. failure' \in Failure
    BY <2>1 DEF Failure, ShapeInv, HostTypes
  <2> QED
    BY <1>s, <1>e, <2>1, <2>2, <2>3 DEF ShapeInv, HostTypes
<1>5. CASE UNCHANGED hostVars
  BY <1>5 DEF hostVars, ShapeInv, HostTypes
<1> QED
  BY <1>1, <1>2, <1>3, <1>4, <1>5 DEF HostStep
-----------------------------------------------------------------------------
(* What a start comes after *)

\* Nothing comes before anything in an empty script.
LEMMA ComesEmpty ==
  ASSUME NEW A, NEW X
  PROVE  Comes(<<>>, A, X) /\ ~Has(<<>>, X) /\ Before(<<>>, A, X)
BY DEF Comes, Has, Before

\* The starts that may recreate Core are starts.
LEMMA RecreatesFact ==
  /\ Recreates \subseteq {"up"} \X Services
  /\ Asks = {<<"probe", "core">>} \cup {<<"health", "core">>}
BY NamesFact DEF Recreates, Core5, Asks

\* Starts one by one are starts together.
LEMMA ComesUps ==
  ASSUME NEW q, NEW A \in SUBSET ({"up"} \X Services), \A s \in Services : Comes(q, {<<"up", s>>}, {})
  PROVE  Comes(q, A, {})
BY DEF Comes

\* The deploy of one service asks Core before it starts the service, and what
\* it starts is not what may recreate Core.
LEMMA OneServiceFact ==
  ASSUME NEW s \in Services, NEW R \in SUBSET ({"up"} \X Services),
         "core" \in Required(s) => <<"up", s>> \notin R
  PROVE  /\ Before(Deploy(s), R, Asks)
         /\ Comes(Deploy(s), {<<"ifkey", "deploy">>}, {})
<1>1. Deploy(s) \in Seq(Plain \cup KeyStep(s))
  BY DeployFact
<1>2. Comes(Deploy(s), {<<"ifkey", "deploy">>}, {})
  <2>1. (Plain \cup KeyStep(s)) \cap {<<"ifkey", "deploy">>} = {}
    BY DEF Plain, KeyStep
  <2> QED
    BY <1>1, <2>1, ComesNone
<1>3. CASE "core" \notin Required(s)
  <2>1. Comes(Deploy(s), {<<"probe", "core">>}, {}) /\ Comes(Deploy(s), {<<"health", "core">>}, {})
    BY <1>3, DeployFact
  <2>2. \A i \in 1 .. Len(Deploy(s)) : Deploy(s)[i] \notin Asks
    BY <2>1, RecreatesFact DEF Comes
  <2>3. \A i \in 1 .. Len(Deploy(s)) : \A j \in 1 .. i - 1 : j \in 1 .. Len(Deploy(s))
    BY <1>1, LenProperties
  <2> QED
    BY <1>2, <2>2, <2>3 DEF Before
<1>4. CASE "core" \in Required(s)
  <2>1. R \subseteq {"up"} \X Names /\ <<"up", s>> \notin R
    BY <1>4, NamesFact
  <2>2. Comes(Deploy(s), R, {})
    BY <2>1, DeployFact
  <2> QED
    BY <1>2, <2>2 DEF Before, Comes
<1> QED
  BY <1>3, <1>4

\* A deploy that begins has its probes and its key check before each start, asks
\* Core after what may recreate it, and leaves Explorer to the stack.
LEMMA BeginProbed ==
  ASSUME NEW x \in Named
  PROVE  LET q == Script("deploy", x)
             R == IF x = "nebula" THEN {<<"up", "core">>}
                  ELSE {<<"up", "core">>, <<"up", "console">>, <<"up", "explorer">>}
         IN /\ Probed(q) /\ Before(q, R, Asks)
            /\ x = "nebula" \/ Comes(q, {<<"ifkey", "deploy">>}, {})
<1> DEFINE L == Each("load", <<Product[x]>>)
           w == <<"ifkey", "deploy">>
           D == IF x = "nebula" THEN DeployStack ELSE Deploy(x)
           R == IF x = "nebula" THEN {<<"up", "core">>}
                ELSE {<<"up", "core">>, <<"up", "console">>, <<"up", "explorer">>}
<1>1. L \in Seq({"load"} \X Names) /\ Script("deploy", x) = L \o D
  BY ScriptSplit
<1>2. /\ {"load"} \X Names \subseteq StepsOf("deploy")
      /\ ({"load"} \X Names) \cap ({"up"} \X Names) = {}
      /\ ({"load"} \X Names) \cap R = {} /\ ({"load"} \X Names) \cap Asks = {}
      /\ ({"load"} \X Names) \cap {w} = {}
  BY DEF StepsOf, Asks
<1>3. Probed(L)
  BY <1>1, <1>2, ProbedNone
<1>4. Probed(<<w>>) /\ <<w>> \in Seq({w})
  <2>1. <<w>> \in Seq({w})
    OBVIOUS
  <2>2. {w} \subseteq StepsOf("deploy") /\ {w} \cap ({"up"} \X Names) = {}
    BY DEF StepsOf
  <2> QED
    BY <2>1, <2>2, ProbedNone
<1>5. Probed(DeployStack)
  BY <1>4, StackFact, ProbedConcat
<1>6. x # "nebula" => Probed(Deploy(x))
  BY DeployProbed DEF Named
<1>7. Before(D, R, Asks) /\ (x # "nebula" => Comes(D, {w}, {}))
  <2>1. CASE x = "nebula"
    <3>1. Before(Stack4, R, Asks) /\ Stack4 \in Seq(StepsOf("deploy"))
      BY <2>1, StackFact DEF Probed
    <3>2. {w} \cap Asks = {} /\ {w} \cap R = {}
      BY DEF Asks
    <3> HIDE DEF w, R
    <3>3. Before(<<w>>, R, Asks) /\ Comes(<<w>>, R, {})
      BY <1>4, <3>2, BeforeNone, ComesNone
    <3>4. <<w>> \in Seq(StepsOf("deploy"))
      BY <1>4 DEF Probed
    <3>5. Before(Stack4 \o <<w>>, R, Asks)
      BY <3>1, <3>3, <3>4, BeforeConcat
    <3> QED
      BY <2>1, <3>5, StackFact DEF w
  <2>2. CASE x # "nebula" /\ x \in Services
    <3>1. R \in SUBSET ({"up"} \X Services) /\ ("core" \in Required(x) => <<"up", x>> \notin R)
      BY <2>2, NamesFact DEF Core5, Required
    <3> HIDE DEF R
    <3> QED
      BY <2>2, <3>1, OneServiceFact
  <2>3. CASE x # "nebula" /\ x \notin Services
    <3>1. x = "playground" /\ x \in AllServices
      BY <2>3, ServicesAssumption DEF Named, AllServices
    <3>2. Required(x) = {} /\ KeyStep(x) \subseteq {<<"key", x>>}
      BY <3>1 DEF Required, KeyStep
    <3>3. D = Preparation(x) \o <<<<"up", x>>>> /\ Preparation(x) \in Seq({<<"stage", x>>} \cup KeyStep(x))
      BY <2>3, <3>1, <3>2, PreparationFact
    <3> DEFINE T == {<<"stage", x>>, <<"key", x>>, <<"up", x>>}
    <3>4. Preparation(x) \in Seq(T)
      BY <3>2, <3>3, SeqMonotonic
    <3>5. PICK u : u = <<"up", x>>
      OBVIOUS
    <3>6. <<u>> \in Seq(T)
      BY <3>5
    <3>7. D \in Seq(T)
      <4> HIDE DEF D, T
      <4> QED
        BY <3>3, <3>4, <3>5, <3>6, ConcatProperties
    <3>8. T \cap R = {} /\ T \cap {w} = {}
      BY <3>1
    <3> HIDE DEF D, T, R, w
    <3> QED
      BY <3>7, <3>8, BeforeNone, ComesNone
  <2> QED
    BY <2>1, <2>2, <2>3
<1>8. /\ L \in Seq(StepsOf("deploy")) /\ D \in Seq(StepsOf("deploy"))
      /\ Before(L, R, Asks) /\ Comes(L, Asks, {}) /\ Comes(L, {w}, {})
  <2>1. D \in Seq(StepsOf("deploy"))
    BY <1>5, <1>6 DEF Probed
  <2> HIDE DEF L, R, w, D
  <2> QED
    BY <1>1, <1>2, <2>1, SeqMonotonic, BeforeNone, ComesNone
<1> HIDE DEF L, R, w, D
<1>9. Before(L \o D, R, Asks) /\ (x # "nebula" => Comes(L \o D, {w}, {}))
  BY <1>7, <1>8, BeforeConcat, ComesConcat
<1>10. Probed(L \o D)
  BY <1>3, <1>5, <1>6, ProbedConcat DEF D
<1> QED
  BY <1>1, <1>9, <1>10 DEF R, w

\* A tree of files, or where an up leaves it, keeps what is good good.
LEMMA GoodFact ==
  ASSUME status \in [Services -> Status], NEW s, NEW d \in Services, stored \subseteq files,
         stored' = stored, files' = files,
         (status'[d] = status[d] /\ Good(d)) \/ status'[d] \in Settled(s, d)
  PROVE  Good(d)'
<1>1. CASE status'[d] = status[d] /\ Good(d)
  BY <1>1 DEF Good
<1>2. CASE status'[d] \in Settled(s, d)
  BY <1>2, SettledFact DEF Good
<1> QED
  BY <1>1, <1>2

\* A step of a deploy keeps what is good good and what is firm firm, and takes no
\* key and no file.
LEMMA DeployOnward ==
  ASSUME ShapeInv, NEW op, NEW x, Passes(op, x), command[1] = "deploy", command' = command
  PROVE  /\ keys \subseteq keys' /\ files \subseteq files'
         /\ leftover' = leftover /\ stored' = stored
         /\ \A d \in Services : Good(d) => Good(d)'
         /\ \A d \in Gates : Firm(d) => Firm(d)'
<1>1. /\ op \notin {"rmtree", "stop", "down", "initialize"} /\ script # <<>>
      /\ script \in Seq(StepsOf(command[1])) /\ Head(script) = <<op, x>>
      /\ script' = Tail(script)
  BY PassesFact
<1>2. keys \subseteq keys' /\ files \subseteq files' /\ leftover' = leftover /\ stored' = stored
  BY <1>1 DEF Passes
<1>t. status \in [Services -> Status]
  BY DEF ShapeInv, HostTypes
<1>3. ASSUME NEW d \in Services, Good(d)
      PROVE  Good(d)'
  <2>1. stored \subseteq files
    BY <1>3 DEF Good
  <2>2. files' = files
    BY <1>1, <2>1 DEF Passes
  <2>3. status'[d] = status[d] \/ status'[d] \in Settled(x, d)
    <3>1. CASE op = "up"
      <4>1. status' \in BroughtUp(x, Starts(x))
        BY <3>1 DEF Passes
      <4> QED
        BY <1>t, <4>1, BroughtFact
    <3>2. CASE op # "up"
      BY <1>1, <3>2 DEF Passes
    <3> QED
      BY <3>1, <3>2
  <2> QED
    BY <1>t, <1>2, <1>3, <2>1, <2>2, <2>3, GoodFact
<1>4. ASSUME NEW d \in Gates, Firm(d)
      PROVE  Firm(d)'
  <2>1. d \in Services /\ (d = "core" \/ d \in HasHealthcheck)
    BY NamesFact DEF Gates, HasHealthcheck
  <2>2. Recreates' = Recreates
    BY DEF Recreates
  <2>3. d = "core" => /\ Comes(script', Recreates, {}) /\ Head(script) \notin Recreates
    <3>1. d = "core" => Comes(script, Recreates, {})
      BY <1>4 DEF Firm
    <3> QED
      BY <1>1, <3>1, ComesTail, ComesFirst
  <2>4. status'[d] = "ready"
    <3>1. CASE op # "up"
      BY <1>1, <1>4, <3>1 DEF Passes, Firm
    <3>2. CASE op = "up"
      <4>1. /\ x \in Services
            /\ status'[d] = status[d] \/ (d \in Starts(x) /\ status'[d] \in Settled(x, d))
        BY <1>t, <2>1, <3>2, BroughtFact DEF Passes
      <4>2. CASE status'[d] = status[d]
        BY <1>4, <4>2 DEF Firm
      <4>3. CASE d \in HasHealthcheck /\ status'[d] \in Settled(x, d)
        BY <1>t, <2>1, <4>3, SettledFact
      <4>4. CASE d = "core" /\ d \in Starts(x) /\ status'[d] \in Settled(x, d)
        <5>1. x \in {"core", "console", "explorer"}
          BY <4>4 DEF Starts, DependsOn
        <5>2. x # "core" /\ command = <<"deploy", "nebula">>
          BY <1>1, <2>3, <3>2, <4>4, <5>1 DEF Recreates
        <5>3. status[d] = "ready"
          BY <1>4 DEF Firm
        <5> QED
          BY <1>t, <2>1, <4>4, <5>2, <5>3, SettledFact
      <4> QED
        BY <2>1, <4>1, <4>2, <4>3, <4>4
    <3> QED
      BY <3>1, <3>2
  <2> QED
    BY <2>2, <2>3, <2>4 DEF Firm
<1> QED
  BY <1>2, <1>3, <1>4

\* When Core answers, nothing is left that may recreate it.
LEMMA AskedFact ==
  ASSUME ShapeInv, StartInv, NEW op, NEW d, Passes(op, d), op \in {"probe", "health"},
         command' = command
  PROVE  Firm(d)'
<1>1. /\ status'[d] = "ready" /\ script # <<>> /\ script \in Seq(ScriptStep)
      /\ Head(script) = <<op, d>> /\ script' = Tail(script)
  BY DEF Passes, Onward, ShapeInv, HostTypes
<1>2. d = "core" => Comes(script', Recreates, {})
  <2>1. d = "core" => Head(script) \in Asks
    BY <1>1 DEF Asks
  <2> QED
    BY <1>1, <2>1, BeforeTail DEF StartInv
<1>3. Recreates' = Recreates
  BY DEF Recreates
<1> QED
  BY <1>1, <1>2, <1>3 DEF Firm

\* A container on its own turns what was ready only by a fault.
LEMMA AloneFirm ==
  ASSUME status \in [Services -> Status], NEW s \in Services, Recover(s) \/ Listen(s)
  PROVE  \A d \in Services : (status[d] = "ready" => status'[d] = "ready")
                             /\ (status[d] \in Alive => status'[d] \in Alive)
                             /\ (status[d] # "down" => status'[d] # "down")
                             /\ (Good(d) => Good(d)') /\ (Firm(d) => Firm(d)')
<1>1. ASSUME NEW d \in Services
      PROVE  \/ status'[d] = status[d]
             \/ status[d] = "failing" /\ status'[d] = "started"
             \/ status[d] = "started" /\ status'[d] = "ready"
  BY DEF Recover, Listen
<1>2. UNCHANGED <<files, stored, script, command>>
  BY DEF Recover, Listen
<1>3. ASSUME NEW d \in Services
      PROVE  (status[d] = "ready" => status'[d] = "ready")
             /\ (status[d] \in Alive => status'[d] \in Alive)
             /\ (status[d] # "down" => status'[d] # "down")
  BY <1>1 DEF Alive
<1>4. \A d \in Services : Good(d) => Good(d)'
  <2>1. ASSUME NEW d \in Services, Good(d)
        PROVE  Good(d)'
    BY <1>2, <1>3, <2>1 DEF Good
  <2> QED
    BY <2>1
<1>5. \A d \in Services : Firm(d) => Firm(d)'
  <2>1. Recreates' = Recreates
    BY <1>2 DEF Recreates
  <2> QED
    BY <1>2, <1>3, <2>1 DEF Firm
<1> QED
  BY <1>3, <1>4, <1>5

\* Every step keeps the start of a service behind what it requires.
LEMMA StepStart ==
  ASSUME ShapeInv, StartInv, HostStep
  PROVE  StartInv'
<1>s. ShapeInv'
  BY StepShape
<1>q. PICK q, a, R : q = script' /\ a = command'[1] /\ R = Recreates'
  OBVIOUS
<1>a. a \in Actions /\ q \in Seq(StepsOf(a)) /\ R \subseteq {"up"} \X Services
  <2>1. R \subseteq {"up"} \X Services
    BY <1>q, NamesFact DEF Recreates, Core5
  <2> QED
    BY <1>s, <1>q, <2>1 DEF ShapeInv, HostTypes, Command
<1>g. SUFFICES
        /\ \A s \in Services : \A d \in Required(s) :
             disturbed' \/ Firm(d)' \/ Comes(q, {<<"up", s>>}, {<<"probe", d>>})
        /\ "explorer" \in keys' \/ Comes(q, {<<"up", "explorer">>}, {<<"key", "explorer">>})
        /\ \A s \in Services :
             (stored \subseteq files)' \/ Comes(q, {<<"up", s>>}, {<<"stage", s>>})
        /\ Before(q, R, Asks)
        /\ command' = <<"deploy", "nebula">> \/ Comes(q, {<<"ifkey", "deploy">>}, {})
  BY <1>q DEF StartInv
<1>r. \A s \in Services : \A d \in Required(s) : d \in Services /\ d \in Gates
  BY RequiresFact, NamesFact
<1>1. CASE a # "deploy"
  <2>1. \A s, X : Comes(q, {<<"up", s>>}, X)
    BY <1>a, <1>1, KindFact
  <2>2. Comes(q, {<<"ifkey", "deploy">>}, {})
    BY <1>a, <1>1, KindFact
  <2>3. Before(q, R, Asks)
    <3>1. Comes(q, R, {})
      BY <1>a, <2>1, ComesUps
    <3> QED
      BY <3>1 DEF Before, Comes
  <2> QED
    BY <2>1, <2>2, <2>3
<1>2. CASE q = <<>>
  BY <1>2, ComesEmpty
<1>3. CASE a = "deploy" /\ q # <<>>
  <2>1. ASSUME NEW x \in Named, Begin("deploy", x)
        PROVE  <1>g!1
    <3>1. q = Script("deploy", x) /\ command' = <<"deploy", x>>
      BY <1>q, <2>1 DEF Begin
    <3>2. R = IF x = "nebula" THEN {<<"up", "core">>}
              ELSE {<<"up", "core">>, <<"up", "console">>, <<"up", "explorer">>}
      BY <1>q, <3>1 DEF Recreates
    <3> QED
      BY <3>1, <3>2, BeginProbed DEF Probed
  <2>2. CASE Execute
    <3>c. command[1] = "deploy" /\ disturbed' = disturbed /\ command' = command /\ R = Recreates
      BY <1>3, <1>q, <2>2, ExecuteKeeps DEF Recreates
    <3>1. ASSUME NEW op, NEW x, Passes(op, x)
          PROVE  <1>g!1
      <4>1. /\ script # <<>> /\ script \in Seq(StepsOf("deploy")) /\ Head(script) = <<op, x>>
            /\ q = Tail(script)
        BY <1>q, <3>c, <3>1, PassesFact
      <4>2. /\ keys \subseteq keys' /\ files \subseteq files' /\ stored' = stored
            /\ \A d \in Gates : Firm(d) => Firm(d)'
        BY <3>c, <3>1, DeployOnward
      <4>3. \A A, X : Comes(script, A, X) => Head(script) \in X \/ Comes(q, A, X)
        BY <4>1, ComesTail
      <4>4. ASSUME NEW s \in Services, NEW d \in Required(s)
            PROVE  disturbed' \/ Firm(d)' \/ Comes(q, {<<"up", s>>}, {<<"probe", d>>})
        <5>1. CASE Head(script) = <<"probe", d>>
          BY <3>c, <3>1, <4>1, <5>1, AskedFact
        <5>2. CASE Head(script) # <<"probe", d>>
          <6>1. disturbed \/ Firm(d) \/ Comes(script, {<<"up", s>>}, {<<"probe", d>>})
            BY DEF StartInv
          <6>2. Firm(d) => Firm(d)'
            BY <1>r, <4>2
          <6>3. Comes(script, {<<"up", s>>}, {<<"probe", d>>})
                  => Comes(q, {<<"up", s>>}, {<<"probe", d>>})
            BY <4>3, <5>2
          <6> QED
            BY <3>c, <6>1, <6>2, <6>3
        <5> QED
          BY <5>1, <5>2
      <4>5. "explorer" \in keys' \/ Comes(q, {<<"up", "explorer">>}, {<<"key", "explorer">>})
        <5>1. CASE Head(script) = <<"key", "explorer">>
          BY <3>1, <4>1, <4>2, <5>1 DEF Passes
        <5>2. CASE Head(script) # <<"key", "explorer">>
          BY <4>2, <4>3, <5>2 DEF StartInv
        <5> QED
          BY <5>1, <5>2
      <4>6. ASSUME NEW s \in Services
            PROVE  (stored \subseteq files)' \/ Comes(q, {<<"up", s>>}, {<<"stage", s>>})
        <5>1. CASE Head(script) = <<"stage", s>>
          BY <3>1, <4>1, <4>2, <5>1 DEF Passes
        <5>2. CASE Head(script) # <<"stage", s>>
          BY <4>2, <4>3, <5>2 DEF StartInv
        <5> QED
          BY <5>1, <5>2
      <4>7. Before(q, R, Asks)
        BY <3>c, <4>1, BeforeTail DEF StartInv
      <4>8. command' = <<"deploy", "nebula">> \/ Comes(q, {<<"ifkey", "deploy">>}, {})
        BY <3>c, <4>3 DEF StartInv
      <4> QED
        BY <4>4, <4>5, <4>6, <4>7, <4>8
    <3>2. ASSUME NEW then, IfKey(then)
          PROVE  <1>g!1
      <4>1. /\ script # <<>> /\ script \in Seq(StepsOf("deploy"))
            /\ Head(script) = <<"ifkey", then>> /\ then = "deploy"
            /\ Tail(script) \in Seq(StepsOf("deploy"))
        BY <3>2, <3>c, DoingFact, IfKeyFact DEF IfKey, ShapeInv
      <4>n. command = <<"deploy", "nebula">> /\ R = {<<"up", "core">>}
        <5>1. ~Comes(script, {<<"ifkey", "deploy">>}, {})
          BY <4>1, ComesFirst
        <5> QED
          BY <3>c, <5>1 DEF StartInv, Recreates
      <4>2. q = Tail(script) \/ q = Deploy("explorer") \o Tail(script)
        BY <1>q, <3>2, <3>c, IfKeyFact
      <4>3. Probed(Deploy("explorer")) /\ "explorer" \in Services
        BY NamesFact, DeployProbed
      <4>e. /\ Comes(Deploy("explorer"), {<<"up", "core">>}, {})
            /\ Comes(Deploy("explorer"), {<<"probe", "core">>}, {})
            /\ Comes(Deploy("explorer"), {<<"health", "core">>}, {})
        <5>1. "core" \notin Required("explorer") /\ {<<"up", "core">>} \subseteq {"up"} \X Names
          BY NamesFact DEF Required, Core5
        <5> QED
          BY <4>3, <5>1, DeployFact
      <4>4. ASSUME NEW A, NEW X, Comes(script, A, X), <<"ifkey", then>> \notin X,
                   Comes(Deploy("explorer"), A, X)
            PROVE  Comes(q, A, X)
        <5>1. Comes(Tail(script), A, X)
          BY <4>1, <4>4, ComesTail
        <5>2. Comes(Deploy("explorer") \o Tail(script), A, X)
          BY <4>1, <4>3, <4>4, <5>1, ComesConcat DEF Probed
        <5> QED
          BY <4>2, <5>1, <5>2
      <4>5. UNCHANGED <<status, keys, files, stored>>
        BY <3>2 DEF IfKey
      <4>6. ASSUME NEW s \in Services, NEW d \in Required(s)
            PROVE  disturbed' \/ Firm(d)' \/ Comes(q, {<<"up", s>>}, {<<"probe", d>>})
        <5>1. Comes(script, {<<"up", s>>}, {<<"probe", d>>})
                => Comes(q, {<<"up", s>>}, {<<"probe", d>>})
          BY <4>3, <4>4 DEF Probed
        <5>2. disturbed \/ Firm(d) \/ Comes(script, {<<"up", s>>}, {<<"probe", d>>})
          BY DEF StartInv
        <5>3. Firm(d) => Firm(d)'
          <6>1. Comes(script, {<<"up", "core">>}, {}) => Comes(q, {<<"up", "core">>}, {})
            BY <4>4, <4>e
          <6> QED
            BY <1>q, <3>c, <4>n, <4>5, <6>1 DEF Firm
        <5> QED
          BY <3>c, <5>1, <5>2, <5>3
      <4>7. "explorer" \in keys' \/ Comes(q, {<<"up", "explorer">>}, {<<"key", "explorer">>})
        BY <4>3, <4>4, <4>5 DEF Probed, StartInv
      <4>8. ASSUME NEW s \in Services
            PROVE  (stored \subseteq files)' \/ Comes(q, {<<"up", s>>}, {<<"stage", s>>})
        <5>1. Comes(Deploy("explorer"), {<<"up", s>>}, {<<"stage", s>>})
          BY <4>3 DEF Probed
        <5> QED
          BY <4>4, <4>5, <5>1 DEF StartInv
      <4>9. Before(q, R, Asks)
        <5>1. Before(Tail(script), R, Asks)
          BY <3>c, <4>1, BeforeTail DEF StartInv
        <5>2. Comes(Deploy("explorer"), Asks, {})
          BY <4>e, RecreatesFact DEF Comes
        <5>3. Before(Deploy("explorer"), R, Asks) /\ Deploy("explorer") \in Seq(StepsOf("deploy"))
          BY <4>n, <4>3, <4>e DEF Before, Comes, Probed
        <5> QED
          BY <4>1, <4>2, <5>1, <5>2, <5>3, BeforeConcat
      <4> QED
        BY <3>c, <4>n, <4>6, <4>7, <4>8, <4>9
    <3>3. CASE Fails
      BY <1>3, <1>q, <3>3 DEF Fails, Ended
    <3> QED
      BY <2>2, <3>1, <3>2, <3>3, ExecuteCases
  <2>3. CASE Disturb
    <3>1. UNCHANGED <<keys, files, stored, command>> /\ script' = script /\ R = Recreates
      BY <1>3, <1>q, <2>3, DisturbFact DEF Ended, Recreates
    <3>2. CASE Fault
      BY <1>q, <3>1, <3>2 DEF Fault, StartInv
    <3>3. ASSUME NEW s \in Services, Recover(s) \/ Listen(s)
          PROVE  <1>g!1
      <4>1. \A d \in Services : Firm(d) => Firm(d)'
        BY <3>3, AloneFirm DEF ShapeInv, HostTypes
      <4>2. disturbed' = disturbed
        BY <3>3 DEF Recover, Listen
      <4> QED
        BY <1>q, <1>r, <3>1, <4>1, <4>2 DEF StartInv
    <3> QED
      BY <2>3, <3>2, <3>3, DisturbFact
  <2>4. CASE UNCHANGED hostVars
    <3>1. \A d : Firm(d)' = Firm(d)
      BY <2>4 DEF hostVars, Firm, Recreates
    <3> QED
      BY <1>q, <2>4, <3>1 DEF hostVars, StartInv, Recreates
  <2>5. ASSUME NEW action \in Actions \ {"import"}, NEW x \in Named, Begin(action, x)
        PROVE  action = "deploy"
    BY <1>3, <1>q, <2>5 DEF Begin
  <2>6. ASSUME NEW s \in KeyOwners, ImportKey(s)
        PROVE  FALSE
    BY <1>3, <1>q, <2>6 DEF ImportKey
  <2> QED
    BY <2>1, <2>2, <2>3, <2>4, <2>5, <2>6 DEF HostStep
<1> QED
  BY <1>1, <1>2, <1>3
-----------------------------------------------------------------------------
(* The containers, Explorer's key, and the files *)

\* A command that begins removes a tree only after its containers.
LEMMA BeginGuarded ==
  ASSUME NEW action \in Actions \ {"import"}, NEW x \in Named
  PROVE  Guarded(Script(action, x))
<1>1. CASE action # "destroy"
  BY <1>1, ScriptShape, KindFact DEF Guarded
<1>2. CASE action = "destroy"
  <2> DEFINE L == Each("load", <<Product[x]>>)
  <2>1. L \in Seq({"load"} \X Names) /\ Script("destroy", x) = L \o Destroy(x)
    BY ScriptSplit
  <2>2. {"load"} \X Names \subseteq StepsOf("destroy")
        /\ \A y : ({"load"} \X Names) \cap {<<"rmtree", y>>} = {}
    BY DEF StepsOf
  <2> HIDE DEF L
  <2>3. L \in Seq(StepsOf("destroy"))
    BY <2>1, <2>2, SeqMonotonic
  <2>4. \A y, X : Comes(L, {<<"rmtree", y>>}, X)
    BY <2>1, <2>2, ComesNone
  <2> QED
    BY <1>2, <2>1, <2>3, <2>4, DestroyFact, ComesConcat DEF Guarded
<1> QED
  BY <1>1, <1>2

\* A start that comes first in a script has Explorer's key if it is Explorer's.
LEMMA StartHasKey ==
  ASSUME ShapeInv, StartInv, script # <<>>, Head(script) = <<"up", "explorer">>
  PROVE  "explorer" \in keys
<1>1. script \in Seq(ScriptStep)
  BY DEF ShapeInv, HostTypes
<1> QED
  BY <1>1, ComesFirst DEF StartInv

\* An up brings up what has its files, and Explorer only by its own name.
LEMMA UpsFact ==
  ASSUME ShapeInv, StartInv, RunsOnItsFiles, NEW r \in Services, Doing("up", r),
         status' \in BroughtUp(r, Starts(r)) \/ \E t \in Starts(r) : GivesUp(r, t),
         UNCHANGED <<files, leftover>>, NEW s \in Services
  PROVE  /\ status'[s] \in Alive => Mounts(s) \subseteq files' \/ (s = "explorer" /\ leftover')
         /\ s = "explorer" => status'[s] = status[s] \/ "explorer" \in keys
<1>t. status \in [Services -> Status]
  BY DEF ShapeInv, HostTypes
<1>1. \/ status'[s] = status[s] \/ status'[s] = "failing"
      \/ s \in Starts(r) /\ status'[s] \in Settled(r, s)
  <2>1. CASE status' \in BroughtUp(r, Starts(r))
    BY <1>t, <2>1, BroughtFact
  <2>2. ASSUME NEW t \in Starts(r), GivesUp(r, t)
        PROVE  \/ status'[s] = status[s] \/ status'[s] = "failing"
               \/ s \in Starts(r) /\ status'[s] \in Settled(r, s)
    <3>1. t \in Services /\ DependsOn(t) \subseteq Starts(r)
      BY StartsFact DEF Starts, DependsOn
    <3> QED
      BY <1>t, <2>2, <3>1, GivesUpFact
  <2> QED
    BY <2>1, <2>2
<1>2. status'[s] \in Alive => Mounts(s) \subseteq files' \/ (s = "explorer" /\ leftover')
  <2>1. status[s] \in Alive => Mounts(s) \subseteq files \/ (s = "explorer" /\ leftover)
    BY DEF RunsOnItsFiles
  <2>2. CASE status'[s] \in Settled(r, s)
    <3>1. status'[s] \in Alive => Mounts(s) \subseteq files \/ status'[s] = status[s]
      BY <1>t, <2>2, SettledFact
    <3> QED
      BY <2>1, <3>1
  <2>3. CASE status'[s] = status[s] \/ status'[s] = "failing"
    BY <2>1, <2>3 DEF Alive
  <2> QED
    BY <1>1, <2>2, <2>3
<1>3. s = "explorer" => status'[s] = status[s] \/ "explorer" \in keys
  <2>1. CASE r = "explorer"
    BY <2>1, StartHasKey DEF Doing, Running
  <2>2. CASE r # "explorer" /\ s = "explorer"
    <3>1. s \notin Starts(r) /\ \A t \in Starts(r) : t # s /\ s \notin DependsOn(t)
      BY <2>2 DEF Starts, DependsOn
    <3>2. CASE status' \in BroughtUp(r, Starts(r))
      BY <1>t, <3>1, <3>2, BroughtFact
    <3>3. ASSUME NEW t \in Starts(r), GivesUp(r, t)
          PROVE  status'[s] = status[s]
      <4>1. t \in Services
        BY StartsFact
      <4> QED
        BY <1>t, <3>1, <3>3, <4>1, GivesUpFact
    <3> QED
      BY <3>2, <3>3
  <2> QED
    BY <2>1, <2>2
<1> QED
  BY <1>2, <1>3

\* What is not mounted is not missed.
LEMMA MountsFact ==
  ASSUME NEW s \in Services, NEW x \in Names, ~(Mounts(s) \cap Owned(x) = {})
  PROVE  x = s \/ (x = "nebula" /\ Product[s] = "nebula")
<1>1. CASE x = "nebula"
  BY <1>1, NamesFact DEF Mounts, Owned, Product, AllServices
<1>2. CASE x = "core"
  BY <1>2, NamesFact DEF Mounts, Owned, AllServices
<1>3. CASE x \notin {"nebula", "core"}
  <2>1. Owned(x) = {x} /\ x # "copy"
    BY <1>3 DEF Owned, Names, AllServices
  <2> QED
    BY <1>3, <2>1 DEF Mounts
<1> QED
  BY <1>1, <1>2, <1>3

\* A start, wherever it ends, keeps the containers over their files.
LEMMA UpKey ==
  ASSUME ShapeInv, StartInv, KeyInv, NEW r \in Services, Doing("up", r), command' = command,
         status' \in BroughtUp(r, Starts(r)) \/ \E t \in Starts(r) : GivesUp(r, t),
         UNCHANGED <<files, keys, leftover>>, script' \in Seq(StepsOf(command[1]))
  PROVE  KeyInv'
<1>1. command[1] = "deploy"
  <2>1. <<"up", r>> \in StepsOf(command[1]) /\ command[1] \in Actions
    BY DoingFact
  <2>2. PICK a : a = command[1]
    OBVIOUS
  <2> QED
    BY <2>1, <2>2, StepsFact
<1>2. \A y, X : Comes(script', {<<"rmtree", y>>}, X)
  BY <1>1, KindFact DEF Actions
<1>3. RunsOnItsFiles'
  BY UpsFact DEF RunsOnItsFiles, KeyInv, Alive, Mounts
<1>4. ExplorerHasKey'
  <2>1. "explorer" \in Services
    BY NamesFact
  <2>2. status'["explorer"] = status["explorer"] \/ "explorer" \in keys
    BY <2>1, UpsFact DEF KeyInv
  <2> QED
    BY <2>2 DEF KeyInv, ExplorerHasKey
<1> QED
  BY <1>2, <1>3, <1>4 DEF KeyInv

\* Every step keeps the containers over their files, and Explorer with its key.
LEMMA StepKey ==
  ASSUME ShapeInv, StartInv, KeyInv, HostStep
  PROVE  KeyInv'
<1>s. ShapeInv'
  BY StepShape
<1>q. PICK q, a : q = script' /\ a = command'[1]
  OBVIOUS
<1>a. a \in Actions /\ q \in Seq(StepsOf(a))
  BY <1>s, <1>q DEF ShapeInv, HostTypes, Command
<1>t. status \in [Services -> Status] /\ "explorer" \in Services
  BY NamesFact DEF ShapeInv, HostTypes
<1>m. \A s : Mounts(s)' = Mounts(s) /\ Stoppers(s)' = Stoppers(s)
  BY DEF Mounts, Stoppers
<1>e. Guarded(<<>>)
  BY ComesEmpty DEF Guarded
<1>k. /\ status["explorer"] # "down" => "explorer" \in keys \/ leftover
      /\ \A s \in Services : status[s] \in Alive =>
           Mounts(s) \subseteq files \/ (s = "explorer" /\ leftover)
  BY DEF KeyInv, ExplorerHasKey, RunsOnItsFiles
<1>u. ASSUME \A s \in Services : \/ status'[s] = "down"
                                 \/ /\ status[s] # "down"
                                    /\ status'[s] \in Alive => status[s] \in Alive \/ Mounts(s) \subseteq files,
             keys \subseteq keys', files \subseteq files', leftover => leftover',
             Guarded(q)
      PROVE  KeyInv'
  <2>1. ExplorerHasKey'
    BY <1>t, <1>k, <1>u DEF ExplorerHasKey
  <2>2. RunsOnItsFiles'
    <3>1. ASSUME NEW s \in Services, status'[s] \in Alive
          PROVE  Mounts(s) \subseteq files' \/ (s = "explorer" /\ leftover')
      <4>1. status'[s] # "down"
        BY <3>1 DEF Alive
      <4> QED
        BY <1>k, <1>u, <3>1, <4>1
    <3> QED
      BY <1>m, <3>1 DEF RunsOnItsFiles, Alive
  <2> QED
    BY <1>q, <1>u, <2>1, <2>2 DEF KeyInv, Guarded, Stoppers
<1>1. ASSUME NEW action \in Actions \ {"import"}, NEW x \in Named, Begin(action, x)
      PROVE  KeyInv'
  <2>1. q = Script(action, x) /\ UNCHANGED <<status, keys, files, leftover>>
    BY <1>q, <1>1 DEF Begin
  <2>2. Guarded(q)
    BY <2>1, BeginGuarded
  <2> QED
    BY <1>u, <2>1, <2>2
<1>2. ASSUME NEW s \in KeyOwners, ImportKey(s)
      PROVE  KeyInv'
  <2>1. q = <<>> /\ keys \subseteq keys' /\ UNCHANGED <<status, files, leftover>>
    BY <1>q, <1>2 DEF ImportKey, Running
  <2> QED
    BY <1>u, <1>e, <2>1
<1>3. CASE Execute
  <2>c. command[1] = a /\ command' = command
    BY <1>q, <1>3, ExecuteKeeps
  <2>n. a # "destroy" => Guarded(q)
    BY <1>a, KindFact DEF Guarded
  <2>1. CASE Fails
    <3>1. q = <<>> /\ keys \subseteq keys' /\ files \subseteq files' /\ leftover' = leftover
      BY <1>q, <2>1 DEF Fails, Ended
    <3>2. CASE status' = status
      BY <1>u, <1>e, <3>1, <3>2
    <3>3. ASSUME NEW s \in Services, UpWithoutFiles(s)
          PROVE  KeyInv'
      <4>1. /\ Doing("up", s) /\ \E t \in Starts(s) : GivesUp(s, t)
            /\ UNCHANGED <<files, keys, leftover>>
        BY <3>3 DEF UpWithoutFiles
      <4> QED
        BY <1>a, <1>q, <2>c, <4>1, UpKey
    <3> QED
      BY <2>1, <3>2, <3>3 DEF Fails
  <2>2. ASSUME NEW then, IfKey(then)
        PROVE  KeyInv'
    <3>1. a # "destroy" /\ UNCHANGED <<status, keys, files, leftover>>
      BY <2>2, <2>c, IfKeyFact DEF IfKey
    <3> QED
      BY <1>u, <2>n, <3>1
  <2>3. ASSUME NEW op, NEW x, Passes(op, x)
        PROVE  KeyInv'
    <3>1. /\ script # <<>> /\ script \in Seq(StepsOf(a)) /\ Head(script) = <<op, x>>
          /\ q = Tail(script) /\ x \in Names
      BY <1>q, <2>c, <2>3, PassesFact
    <3>2. \A A, X : Comes(script, A, X) => Head(script) \in X \/ Comes(q, A, X)
      BY <3>1, ComesTail
    <3>3. \A A, X : Comes(script, A, X) => Head(script) \notin A
      BY <3>1, ComesFirst
    <3>k. /\ \A s \in Services : status[s] = "down" \/ Comes(script, {<<"rmtree", s>>}, Stoppers(s))
          /\ \A s \in Services : Product[s] = "nebula" =>
               \/ status[s] = "down" \/ (s = "explorer" /\ leftover)
               \/ Comes(script, {<<"rmtree", "nebula">>}, {<<"down", "nebula">>})
      BY DEF KeyInv
    <3>4. CASE op = "up"
      <4>1. /\ a = "deploy" /\ leftover' = leftover /\ keys \subseteq keys' /\ files' = files
            /\ x \in Services /\ status' \in BroughtUp(x, Starts(x)) /\ Doing("up", x)
        BY <2>3, <2>c, <3>1, <3>4, PassesFact DEF Passes, Doing, Running
      <4>2. \A y, X : Comes(q, {<<"rmtree", y>>}, X)
        BY <1>a, <4>1, KindFact
      <4>3. ASSUME NEW s \in Services
            PROVE  /\ status'[s] \in Alive => Mounts(s) \subseteq files' \/ (s = "explorer" /\ leftover')
                   /\ s = "explorer" => status'[s] = status[s] \/ "explorer" \in keys
        BY <4>1, UpsFact DEF KeyInv
      <4>4. ExplorerHasKey' /\ RunsOnItsFiles'
        BY <1>k, <1>m, <1>t, <4>1, <4>3 DEF ExplorerHasKey, RunsOnItsFiles, Alive
      <4> QED
        BY <1>q, <4>2, <4>4 DEF KeyInv
    <3>s. ASSUME op \in {"stop", "down"} => \A s \in Services :
                   status'[s] = "down" \/ status'[s] = status[s],
                 op \notin {"stop", "down"} => status' = status,
                 op # "up",
                 NEW s \in Services
          PROVE  /\ status'[s] = "down" \/ status'[s] = status[s]
                 /\ status'[s] = "down" \/ Comes(q, {<<"rmtree", s>>}, Stoppers(s))
                 /\ Product[s] = "nebula" =>
                      \/ status'[s] = "down" \/ (s = "explorer" /\ leftover')
                      \/ Comes(q, {<<"rmtree", "nebula">>}, {<<"down", "nebula">>})
      <4>1. status'[s] = "down" \/ status'[s] = status[s]
        BY <3>s
      <4>2. status'[s] = "down" \/ Comes(q, {<<"rmtree", s>>}, Stoppers(s))
        <5>1. CASE <<op, x>> \in Stoppers(s)
          <6>1. \/ op = "stop" /\ x = s
                \/ op = "down" /\ x = Product[s] /\ s # "explorer"
            BY <5>1 DEF Stoppers
          <6> QED
            BY <1>t, <2>3, <6>1 DEF Passes
        <5>2. CASE <<op, x>> \notin Stoppers(s)
          BY <3>1, <3>2, <3>k, <4>1, <5>2
        <5> QED
          BY <5>1, <5>2
      <4>3. Product[s] = "nebula" =>
              \/ status'[s] = "down" \/ (s = "explorer" /\ leftover')
              \/ Comes(q, {<<"rmtree", "nebula">>}, {<<"down", "nebula">>})
        <5>1. CASE op = "down" /\ x = "nebula"
          BY <1>t, <2>3, <5>1 DEF Passes
        <5>2. CASE ~(op = "down" /\ x = "nebula")
          <6>1. Head(script) \notin {<<"down", "nebula">>}
            BY <3>1, <5>2
          <6>2. s = "explorer" /\ leftover => status'[s] = "down" \/ leftover'
            BY <1>t, <2>3 DEF Passes
          <6> QED
            BY <3>2, <3>k, <4>1, <6>1, <6>2
        <5> QED
          BY <5>1, <5>2
      <4> QED
        BY <4>1, <4>2, <4>3
    <3>t. op \in {"stop", "down"} => \A s \in Services :
            status'[s] = "down" \/ status'[s] = status[s]
      BY <1>t, <2>3 DEF Passes
    <3>v. op \notin {"up", "stop", "down"} => status' = status
      BY <2>3 DEF Passes
    <3>5. CASE op # "up"
      <4>1. \A s \in Services :
              /\ status'[s] = "down" \/ status'[s] = status[s]
              /\ status'[s] = "down" \/ Comes(q, {<<"rmtree", s>>}, Stoppers(s))
              /\ Product[s] = "nebula" =>
                   \/ status'[s] = "down" \/ (s = "explorer" /\ leftover')
                   \/ Comes(q, {<<"rmtree", "nebula">>}, {<<"down", "nebula">>})
        BY <3>s, <3>t, <3>v, <3>5
      <4>l. ASSUME NEW s \in Services, s = "explorer", leftover
            PROVE  status'[s] = "down" \/ leftover'
        BY <1>t, <2>3, <4>l DEF Passes
      <4>2. ASSUME NEW s \in Services, status'[s] # "down"
            PROVE  /\ Mounts(s) \subseteq files =>
                        Mounts(s) \subseteq files' \/ (s = "explorer" /\ leftover')
                   /\ s = "explorer" /\ "explorer" \in keys => "explorer" \in keys' \/ leftover'
        <5>1. CASE op # "rmtree"
          BY <2>3, <5>1 DEF Passes
        <5>2. CASE op = "rmtree"
          <6>1. /\ keys' = keys \ Owned(x) /\ files' = files \ Owned(x)
                /\ status' = status /\ leftover' = leftover
            BY <2>3, <5>2 DEF Passes
          <6>2. x # s
            BY <3>1, <3>3, <3>k, <4>2, <5>2, <6>1
          <6>3. x = "nebula" /\ Product[s] = "nebula" => s = "explorer" /\ leftover'
            BY <3>1, <3>3, <3>k, <4>2, <5>2, <6>1
          <6>4. \/ Mounts(s) \cap Owned(x) = {}
                \/ s = "explorer" /\ leftover'
            BY <3>1, <6>2, <6>3, MountsFact
          <6>5. s = "explorer" => s \in Mounts(s)
            BY DEF Mounts
          <6> QED
            BY <6>1, <6>4, <6>5
        <5> QED
          BY <5>1, <5>2
      <4>3. ExplorerHasKey'
        BY <1>k, <1>t, <4>1, <4>2, <4>l DEF ExplorerHasKey
      <4>4. RunsOnItsFiles'
        <5>1. ASSUME NEW s \in Services, status'[s] \in Alive
              PROVE  Mounts(s) \subseteq files' \/ (s = "explorer" /\ leftover')
          <6>1. status'[s] # "down" /\ status[s] \in Alive
            BY <4>1, <5>1 DEF Alive
          <6> QED
            BY <1>k, <4>2, <4>l, <5>1, <6>1
        <5> QED
          BY <1>m, <5>1 DEF RunsOnItsFiles, Alive
      <4> QED
        BY <1>q, <1>m, <4>1, <4>3, <4>4 DEF KeyInv
    <3> QED
      BY <3>4, <3>5
  <2> QED
    BY <1>3, <2>1, <2>2, <2>3, ExecuteCases
<1>4. CASE Disturb
  <2>1. UNCHANGED <<keys, files, command, leftover>>
    BY <1>4, DisturbFact
  <2>2. ASSUME NEW s \in Services, Crash(s) \/ Recover(s) \/ Listen(s)
        PROVE  KeyInv'
    <3>1. ASSUME NEW t \in Services
          PROVE  /\ status'[t] = "down" <=> status[t] = "down"
                 /\ status'[t] \in Alive => status[t] \in Alive \/ Mounts(t) \subseteq files
      <4>1. \/ status'[t] = status[t]
            \/ status[t] \in Alive /\ status'[t] = "failing"
            \/ status[t] = "failing" /\ status'[t] = "started" /\ Mounts(t) \subseteq files
            \/ status[t] = "started" /\ status'[t] = "ready"
        BY <1>t, <2>2, AloneFact
      <4> QED
        BY <4>1 DEF Alive
    <3>2. q = script
      BY <1>q, <2>2 DEF Crash, Recover, Listen
    <3>3. RunsOnItsFiles'
      <4>1. ASSUME NEW t \in Services, status'[t] \in Alive
            PROVE  Mounts(t) \subseteq files' \/ (t = "explorer" /\ leftover')
        BY <1>k, <2>1, <3>1, <4>1
      <4> QED
        BY <1>m, <4>1 DEF RunsOnItsFiles, Alive
    <3>4. ExplorerHasKey'
      BY <1>k, <1>t, <2>1, <3>1 DEF ExplorerHasKey
    <3> QED
      BY <1>q, <1>m, <2>1, <3>1, <3>2, <3>3, <3>4 DEF KeyInv
  <2>3. ASSUME NEW s \in Services, UpFails(s)
        PROVE  KeyInv'
    <3>1. Doing("up", s) /\ \E t \in Starts(s) : GivesUp(s, t)
      BY <2>3 DEF UpFails
    <3>2. command[1] = a
      BY <1>q, <2>1
    <3> QED
      BY <1>a, <1>q, <2>1, <3>1, <3>2, UpKey
  <2>4. ASSUME Interrupt
        PROVE  KeyInv'
    <3>1. q = <<>> /\ status' = status
      BY <1>q, <2>4 DEF Interrupt, FailWith
    <3> QED
      BY <1>u, <1>e, <2>1, <3>1
  <2> QED
    BY <1>4, <2>2, <2>3, <2>4 DEF Disturb
<1>5. CASE UNCHANGED hostVars
  BY <1>5 DEF hostVars, KeyInv, ExplorerHasKey, RunsOnItsFiles, Stoppers, Mounts, Alive
<1> QED
  BY <1>1, <1>2, <1>3, <1>4, <1>5 DEF HostStep
-----------------------------------------------------------------------------
(* The stop of the stack *)

\* Nothing needs Explorer.
LEMMA NeedsFact ==
  ASSUME NEW s, NEW d \in Needs(s)
  PROVE  d \in Core5 /\ d # "explorer" /\ d # s /\ s # "playground"
BY DEF Needs, Core5

\* A stop of the stack begins with everything still to stop, in order.
LEMMA BeginStop ==
  /\ \A s \in Services : \A d \in Needs(s) :
       Comes(Script("stop", "nebula"), {<<"stop", d>>}, Stops(s))
  /\ \A s \in Services \ {"playground"} : Has(Script("stop", "nebula"), Stops(s))
<1> DEFINE L == Each("load", <<Product["nebula"]>>)
<1>1. L \in Seq({"load"} \X Names) /\ Script("stop", "nebula") = L \o StopStack
  BY ScriptSplit DEF Named
<1>2. {"load"} \X Names \subseteq StepsOf("stop")
      /\ \A d : ({"load"} \X Names) \cap {<<"stop", d>>} = {}
  BY DEF StepsOf
<1> HIDE DEF L
<1>3. L \in Seq(StepsOf("stop"))
  BY <1>1, <1>2, SeqMonotonic
<1>4. \A d, X : Comes(L, {<<"stop", d>>}, X)
  BY <1>1, <1>2, ComesNone
<1>5. ASSUME NEW s \in Services, NEW d \in Needs(s)
      PROVE  Comes(L \o StopStack, {<<"stop", d>>}, Stops(s))
  BY <1>3, <1>4, StopStackFact, ComesConcat
<1>6. ASSUME NEW s \in Services \ {"playground"}
      PROVE  Has(L \o StopStack, Stops(s))
  BY <1>3, StopStackFact, HasConcat
<1> QED
  BY <1>1, <1>5, <1>6

\* Every step of a stop of the stack leaves the rest of it in order.
LEMMA StepStop ==
  ASSUME ShapeInv, KeyInv, StopInv, HostStep
  PROVE  StopInv'
<1>s. ShapeInv'
  BY StepShape
<1>q. PICK q : q = script'
  OBVIOUS
<1> DEFINE G == /\ \A s \in Services : \A d \in Needs(s) :
                     Stopped(s)' \/ Comes(q, {<<"stop", d>>}, Stops(s))
                /\ failure' = "none" =>
                     \A s \in Services \ {"playground"} : Stopped(s)' \/ Has(q, Stops(s))
<1>0. SUFFICES ASSUME command' = <<"stop", "nebula">>
      PROVE  G
  BY <1>q DEF StopInv
<1>t. status \in [Services -> Status] /\ "explorer" \in Services
  BY NamesFact DEF ShapeInv, HostTypes
<1>i. command = <<"stop", "nebula">> =>
        /\ \A s \in Services : \A d \in Needs(s) :
             Stopped(s) \/ Comes(script, {<<"stop", d>>}, Stops(s))
        /\ failure = "none" =>
             \A s \in Services \ {"playground"} : Stopped(s) \/ Has(script, Stops(s))
  BY DEF StopInv
<1>e. \A A, X : Comes(<<>>, A, X)
  BY ComesEmpty
<1>1. ASSUME NEW action \in Actions \ {"import"}, NEW x \in Named, Begin(action, x)
      PROVE  G
  <2>1. action = "stop" /\ x = "nebula" /\ q = Script("stop", "nebula")
    BY <1>0, <1>q, <1>1 DEF Begin
  <2> QED
    BY <2>1, BeginStop
<1>2. ASSUME NEW s \in KeyOwners, ImportKey(s)
      PROVE  G
  BY <1>0, <1>2 DEF ImportKey
<1>3. CASE Execute
  <2>c. command = <<"stop", "nebula">> /\ command[1] = "stop"
    BY <1>0, <1>3, ExecuteKeeps
  <2>1. CASE Fails
    <3>1. q = <<>> /\ failure' # "none"
      BY <1>q, <2>1 DEF Fails, Ended
    <3> QED
      BY <1>e, <3>1
  <2>2. ASSUME NEW then, IfKey(then)
        PROVE  G
    <3> DEFINE e == <<<<"stop", "explorer">>>>
               r == Tail(script)
    <3>1. /\ script # <<>> /\ script \in Seq(StepsOf("stop")) /\ Head(script) = <<"ifkey", then>>
          /\ r \in Seq(StepsOf("stop")) /\ then = "stop"
      BY <2>2, <2>c, DoingFact, IfKeyFact DEF IfKey, ShapeInv
    <3>2. q = IF "explorer" \notin keys THEN r ELSE e \o r
      BY <1>q, <2>2, <2>c, <3>1, IfKeyFact
    <3>3. UNCHANGED <<status, keys, leftover, failure>>
      BY <2>2 DEF IfKey
    <3>4. e \in Seq(StepsOf("stop")) /\ Has(e, Stops("explorer"))
          /\ \A d, X : d # "explorer" => Comes(e, {<<"stop", d>>}, X)
      <4>1. <<"stop", "explorer">> \in StepsOf("stop")
        BY NamesFact DEF StepsOf
      <4>2. PICK w : w = <<"stop", "explorer">>
        OBVIOUS
      <4>3. e = <<w>> /\ <<w>> \in Seq(StepsOf("stop")) /\ <<w>> \in Seq({w})
        BY <4>1, <4>2
      <4>4. \A d, X : d # "explorer" => Comes(e, {<<"stop", d>>}, X)
        <5>1. \A d : d # "explorer" => {w} \cap {<<"stop", d>>} = {}
          BY <4>2
        <5> QED
          BY <4>3, <5>1, ComesNone
      <4>5. Has(e, Stops("explorer"))
        BY DEF Has, Stops
      <4> QED
        BY <4>3, <4>4, <4>5
    <3> HIDE DEF e, r
    <3>5. ASSUME NEW s \in Services, s # "explorer"
          PROVE  /\ \A A : Comes(script, A, Stops(s)) => Comes(r, A, Stops(s))
                 /\ Has(script, Stops(s)) => Has(r, Stops(s))
      <4>1. Head(script) \notin Stops(s)
        BY <3>1, <3>5 DEF Stops
      <4> QED
        BY <3>1, <4>1, ComesTail, HasTail DEF r
    <3>6. "explorer" \notin keys => Stopped("explorer")
      BY DEF KeyInv, ExplorerHasKey, Stopped
    <3>7. ASSUME NEW s \in Services, NEW d \in Needs(s)
          PROVE  Stopped(s) \/ Comes(q, {<<"stop", d>>}, Stops(s))
      <4>1. Comes(e, {<<"stop", d>>}, Stops(s))
        BY <3>4, NeedsFact
      <4>2. CASE s = "explorer" /\ "explorer" \notin keys
        BY <3>6, <4>2
      <4>3. CASE s = "explorer" /\ "explorer" \in keys
        BY <3>1, <3>2, <3>4, <4>1, <4>3, ComesConcat
      <4>4. CASE s # "explorer"
        <5>1. Stopped(s) \/ Comes(r, {<<"stop", d>>}, Stops(s))
          BY <1>i, <2>c, <3>5, <4>4
        <5> QED
          BY <3>1, <3>2, <3>4, <4>1, <5>1, ComesConcat
      <4> QED
        BY <4>2, <4>3, <4>4
    <3>8. ASSUME NEW s \in Services \ {"playground"}, failure = "none"
          PROVE  Stopped(s) \/ Has(q, Stops(s))
      <4>1. CASE s = "explorer" /\ "explorer" \notin keys
        BY <3>6, <4>1
      <4>2. CASE s = "explorer" /\ "explorer" \in keys
        BY <3>1, <3>2, <3>4, <4>2, HasConcat
      <4>3. CASE s # "explorer"
        <5>1. Stopped(s) \/ Has(r, Stops(s))
          BY <1>i, <2>c, <3>5, <3>8, <4>3
        <5> QED
          BY <3>1, <3>2, <3>4, <5>1, HasConcat
      <4> QED
        BY <4>1, <4>2, <4>3
    <3>9. \A s : Stopped(s) => Stopped(s)'
      BY <3>3 DEF Stopped
    <3> QED
      BY <3>3, <3>7, <3>8, <3>9
  <2>3. ASSUME NEW op, NEW x, Passes(op, x)
        PROVE  G
    <3>1. /\ script # <<>> /\ script \in Seq(StepsOf("stop")) /\ Head(script) = <<op, x>>
          /\ q = Tail(script) /\ failure' = failure
      BY <1>q, <2>c, <2>3, PassesFact DEF Passes
    <3>2. op \in {"load", "stop"}
      <4>1. <<op, x>> \in StepsOf("stop") /\ op # "ifkey"
        BY <2>3, <3>1, TailFact DEF Passes
      <4> QED
        BY <4>1 DEF StepsOf
    <3>3. ASSUME NEW s \in Services, op = "load" \/ x # s
          PROVE  /\ \A A : Comes(script, A, Stops(s)) => Comes(q, A, Stops(s))
                 /\ Has(script, Stops(s)) => Has(q, Stops(s))
      <4>1. Head(script) \notin Stops(s)
        BY <3>1, <3>2, <3>3 DEF Stops
      <4> QED
        BY <3>1, <4>1, ComesTail, HasTail
    <3>4. ASSUME NEW s \in Services
          PROVE  Stopped(s)' \/ (~Stopped(s) /\ (op = "load" \/ x # s))
      <4>1. CASE op = "load"
        <5>1. status' = status /\ leftover' = leftover
          BY <2>3, <4>1 DEF Passes
        <5> QED
          BY <4>1, <5>1 DEF Stopped
      <4>2. CASE op = "stop" /\ x = s
        <5>1. status'[s] = "down"
          BY <1>t, <2>3, <4>2 DEF Passes
        <5> QED
          BY <5>1 DEF Stopped
      <4>3. CASE op = "stop" /\ x # s
        <5>1. status'[s] = status[s] /\ (leftover /\ x # "explorer" => leftover')
          BY <1>t, <2>3, <4>3 DEF Passes
        <5> QED
          BY <4>3, <5>1 DEF Stopped
      <4> QED
        BY <3>2, <4>1, <4>2, <4>3
    <3> QED
      BY <1>i, <2>c, <3>1, <3>3, <3>4
  <2> QED
    BY <1>3, <2>1, <2>2, <2>3, ExecuteCases
<1>4. CASE Disturb
  <2>1. /\ command = <<"stop", "nebula">> /\ leftover' = leftover
        /\ (q = script /\ failure' = failure) \/ (q = <<>> /\ failure' # "none")
    BY <1>0, <1>q, <1>4, DisturbFact DEF Ended
  <2>2. ASSUME NEW s \in Services, Stopped(s)
        PROVE  Stopped(s)'
    <3>1. ASSUME NEW t \in Services, Crash(t) \/ Recover(t) \/ Listen(t)
          PROVE  status[s] = "down" => status'[s] = "down"
      BY <1>t, <3>1, AloneFact DEF Alive
    <3>2. ASSUME NEW t \in Services, UpFails(t)
          PROVE  FALSE
      <4>1. Doing("up", t)
        BY <3>2 DEF UpFails
      <4>2. <<"up", t>> \in StepsOf("stop")
        BY <2>1, <4>1, DoingFact
      <4> QED
        BY <4>2 DEF StepsOf
    <3>3. status[s] = "down" => status'[s] = "down"
      BY <1>4, <3>1, <3>2, DisturbFact
    <3> QED
      BY <2>1, <2>2, <3>3 DEF Stopped
  <2> QED
    BY <1>i, <1>e, <2>1, <2>2
<1>5. CASE UNCHANGED hostVars
  BY <1>q, <1>0, <1>5 DEF hostVars, StopInv, Stopped
<1> QED
  BY <1>1, <1>2, <1>3, <1>4, <1>5 DEF HostStep
-----------------------------------------------------------------------------
(* The deploy of the stack *)

\* What a deploy of the stack asks of no service but those it started, and of no
\* key but Explorer's.
Orderly(q) ==
  /\ Comes(q, {"probe", "health"} \X (Names \ Gates), {})
  /\ Comes(q, {"key"} \X (Names \ {"explorer"}), {})
  /\ DecidesLast(q)

\* A deploy of the stack asks for only what it has started, counts on only what it
\* asked for, starts every service, and decides about Explorer last.
LEMMA BeginDeploy ==
  LET q == Script("deploy", "nebula")
  IN /\ Orderly(q) /\ Comes(q, {<<"key", "explorer">>}, {})
     /\ \A d \in Gates : /\ Comes(q, Behind(d), {<<"health", d>>})
                         /\ Comes(q, {<<"health", d>>}, Ups(d))
     /\ \A d \in {"policy", "database"} : Comes(q, {<<"health", "core">>}, Ups(d))
     /\ \A d \in Core5 : Has(q, Ups(d))
     /\ Has(q, {<<"health", "core">>})
     /\ Has(q, {<<"ifkey", "deploy">>})
<1> DEFINE L == Each("load", <<Product["nebula"]>>)
           w == <<"ifkey", "deploy">>
           T == Plain \cup {w}
           p == L \o Stack4
           q == Script("deploy", "nebula")
<1>1. L \in Seq({"load"} \X Names) /\ q = L \o DeployStack
  BY ScriptSplit DEF Named
<1>2. /\ {"load"} \X Names \subseteq Plain
      /\ \A d : ({"load"} \X Names) \cap {<<"health", d>>} = {}
      /\ \A d : ({"load"} \X Names) \cap Behind(d) = {}
  BY DEF Plain, Behind
<1>3. L \in Seq(Plain) /\ L \in Seq(T)
  BY <1>1, <1>2, SeqMonotonic
<1>4. Stack4 \in Seq(Plain) /\ Stack4 \in Seq(T) /\ <<w>> \in Seq(T) /\ <<w>> \in Seq({w})
  BY StackFact, SeqMonotonic
<1>5. /\ T \cap ({"probe", "health"} \X (Names \ Gates)) = {}
      /\ T \cap ({"key"} \X (Names \ {"explorer"})) = {}
      /\ T \cap {<<"key", "explorer">>} = {} /\ w \notin Plain
      /\ \A d : {w} \cap {<<"health", d>>} = {}
      /\ \A d : {w} \cap Behind(d) = {}
  BY DEF Plain, Behind
<1>6. Has(<<w>>, {w})
  BY DEF Has
<1> HIDE DEF L, w, T
<1>7. p \in Seq(Plain) /\ p \in Seq(T) /\ p \o <<w>> \in Seq(T)
  BY <1>3, <1>4, ConcatProperties
<1>8. q = p \o <<w>>
  <2>1. DeployStack = Stack4 \o <<w>>
    BY StackFact DEF w
  <2> HIDE DEF q
  <2> QED
    BY <1>1, <1>3, <1>4, <2>1, ConcatAssociative
<1>h. \A X : Has(Stack4, X) => Has(p, X)
  BY <1>3, <1>4, HasConcat
<1>c. \A A, X : Comes(L, A, X) /\ Comes(Stack4, A, X) => Comes(p, A, X)
  BY <1>3, <1>4, ComesConcat
<1>l. \A d, X : Comes(L, {<<"health", d>>}, X) /\ Comes(L, Behind(d), X)
  BY <1>1, <1>2, ComesNone
<1> HIDE DEF p, q
<1>9. \A X : Has(Stack4, X) => Has(q, X)
  BY <1>4, <1>7, <1>8, <1>h, HasConcat
<1>w. \A d, X : Comes(<<w>>, {<<"health", d>>}, X) /\ Comes(<<w>>, Behind(d), X)
  BY <1>4, <1>5, ComesNone
<1>10. \A A, X : Comes(p, A, X) /\ Comes(<<w>>, A, X) => Comes(q, A, X)
  BY <1>4, <1>7, <1>8, ComesConcat
<1>11. Has(q, {w})
  BY <1>4, <1>6, <1>7, <1>8, HasConcat
<1>12. /\ Comes(q, {"probe", "health"} \X (Names \ Gates), {})
       /\ Comes(q, {"key"} \X (Names \ {"explorer"}), {})
       /\ Comes(q, {<<"key", "explorer">>}, {})
  BY <1>5, <1>7, <1>8, ComesNone
<1>13. DecidesLast(q)
  <2>1. SUFFICES ASSUME NEW i \in 1 .. Len(q), q[i] = w PROVE i = Len(q)
    BY DEF DecidesLast, w
  <2>2. /\ Len(p) \in Nat /\ Len(q) = Len(p) + 1
        /\ \A k \in 1 .. Len(p) : q[k] = p[k] /\ p[k] \in Plain
    BY <1>4, <1>7, <1>8, ConcatProperties, LenProperties, ElementOfSeq
  <2> QED
    BY <1>5, <2>1, <2>2
<1>14. \A d \in Gates : /\ Comes(q, Behind(d), {<<"health", d>>})
                        /\ Comes(q, {<<"health", d>>}, Ups(d))
  BY <1>c, <1>l, <1>w, <1>10, StackFact
<1>15. \A d \in {"policy", "database"} : Comes(q, {<<"health", "core">>}, Ups(d))
  BY <1>c, <1>l, <1>w, <1>10, StackFact
<1>16. Has(q, {<<"health", "core">>}) /\ \A d \in Core5 : Has(q, Ups(d))
  BY <1>9, StackFact
<1> QED
  BY <1>11, <1>12, <1>13, <1>14, <1>15, <1>16 DEF Orderly, q, w

\* Explorer's own deploy probes two services of the stack and asks for its key.
LEMMA ExplorerDeploy ==
  LET q == Deploy("explorer")
  IN /\ q \in Seq(StepsOf("deploy")) /\ Has(q, {<<"up", "explorer">>}) /\ Orderly(q)
     /\ Comes(q, {<<"up", "core">>}, {})
<1> DEFINE q == Deploy("explorer")
           T == Plain \cup KeyStep("explorer")
<1>1. /\ q \in Seq(T) /\ Has(q, {<<"up", "explorer">>}) /\ q \in Seq(StepsOf("deploy"))
      /\ Comes(q, {<<"up", "core">>}, {})
  <2>1. "core" \in Names /\ "explorer" \in AllServices
    BY NamesFact DEF Core5, AllServices
  <2>2. <<"up", "explorer">> \notin {<<"up", "core">>} /\ {<<"up", "core">>} \subseteq {"up"} \X Names
    BY <2>1
  <2> QED
    BY <2>1, <2>2, NamesFact, DeployFact, DeployProbed DEF Probed
<1>2. T \cap ({"probe", "health"} \X (Names \ Gates)) = {}
      /\ T \cap ({"key"} \X (Names \ {"explorer"})) = {}
      /\ <<"ifkey", "deploy">> \notin T
  BY DEF Plain, KeyStep
<1> HIDE DEF q, T
<1>3. DecidesLast(q)
  <2>1. \A i \in 1 .. Len(q) : q[i] \in T
    BY <1>1, ElementOfSeq
  <2> QED
    BY <1>2, <2>1 DEF DecidesLast
<1> QED
  BY <1>1, <1>2, <1>3, ComesNone DEF q, Orderly

\* A step of a deploy of the stack fails only for want of a file, or on the health
\* check of a Core that runs over Policy and the database.
LEMMA DeployFails ==
  ASSUME ShapeInv, DeployInv, command = <<"deploy", "nebula">>, ~disturbed, Fails
  PROVE  \/ failure' \in {"environment", "files"}
         \/ /\ failure' = "health"
            /\ status'["policy"] = "ready" /\ status'["database"] = "ready"
            /\ status'["core"] \in Alive
<1>1. script \in Seq(ScriptStep) /\ script # <<>> /\ Head(script) \in ScriptStep
  BY TailFact DEF Fails, ShapeInv, HostTypes
<1>2. \A A, X : Comes(script, A, X) => Head(script) \notin A
  BY <1>1, ComesFirst
<1>g. ASSUME NEW op \in {"probe", "health"}, NEW x, Head(script) = <<op, x>>
      PROVE  x \in Gates
  <2>1. x \in Names
    BY <1>1, <1>g DEF ScriptStep
  <2>2. Head(script) \notin {"probe", "health"} \X (Names \ Gates)
    BY <1>2 DEF DeployInv
  <2> QED
    BY <1>g, <2>1, <2>2
<1>3. ASSUME NEW x, Head(script) = <<"probe", x>>, status[x] # "ready"
      PROVE  FALSE
  <2>1. x \in Gates /\ Head(script) \in Behind(x)
    BY <1>3, <1>g DEF Behind
  <2>2. Firm(x)
    BY <1>2, <2>1 DEF DeployInv
  <2> QED
    BY <1>3, <2>2 DEF Firm
<1>4. ASSUME NEW x, Head(script) = <<"key", x>>, x \notin keys
      PROVE  FALSE
  <2>1. x \in Names
    BY <1>1, <1>4 DEF ScriptStep
  <2>2. x = "explorer"
    BY <1>2, <1>4, <2>1 DEF DeployInv
  <2> QED
    BY <1>2, <1>4, <2>2 DEF DeployInv
<1>5. ASSUME NEW x, Head(script) = <<"health", x>>, status[x] # "ready" \/ x \in {"core", "console"}
      PROVE  /\ status["policy"] = "ready" /\ status["database"] = "ready"
             /\ status["core"] \in Alive
  <2>1. x \in Gates
    BY <1>5, <1>g
  <2>2. Good(x)
    BY <1>2, <1>5, <2>1 DEF DeployInv
  <2>3. x = "core"
    BY <1>5, <2>1, <2>2 DEF Gates, Good, HasHealthcheck
  <2>4. Good("policy") /\ Good("database")
    BY <1>2, <1>5, <2>3 DEF DeployInv
  <2> QED
    BY <2>2, <2>3, <2>4 DEF Good, HasHealthcheck
<1>6. CASE status' = status
  <2>1. \/ failure' \in {"environment", "files"}
        \/ \E x : Head(script) = <<"probe", x>> /\ status[x] # "ready"
        \/ \E x : Head(script) = <<"key", x>> /\ x \notin keys
        \/ \E s \in Services : UpWithoutFiles(s) /\ failure' = "files"
        \/ /\ failure' = "health"
           /\ \E x : Head(script) = <<"health", x>> /\ (status[x] # "ready" \/ x \in {"core", "console"})
    BY DEF Fails
  <2> QED
    BY <1>3, <1>4, <1>5, <1>6, <2>1
<1>7. CASE failure' = "files"
  BY <1>7
<1> QED
  BY <1>6, <1>7 DEF Fails

\* What is ahead of a step that is not the decision about Explorer.
LEMMA DecidesTail ==
  ASSUME NEW T, NEW q \in Seq(T), q # <<>>, DecidesLast(q)
  PROVE  DecidesLast(Tail(q)) /\ (Head(q) = <<"ifkey", "deploy">> => Tail(q) = <<>>)
<1>1. DecidesLast(Tail(q))
  <2>1. SUFFICES ASSUME NEW i \in 1 .. Len(Tail(q)), Tail(q)[i] = <<"ifkey", "deploy">>
                 PROVE  i = Len(Tail(q))
    BY DEF DecidesLast
  <2>2. i + 1 \in 1 .. Len(q) /\ q[i + 1] = <<"ifkey", "deploy">>
    BY <2>1, TailFact
  <2>3. i + 1 = Len(q)
    BY <2>2 DEF DecidesLast
  <2> QED
    BY <2>3, TailFact
<1>2. ASSUME Head(q) = <<"ifkey", "deploy">>
      PROVE  Tail(q) = <<>>
  <2>1. 1 \in 1 .. Len(q) /\ q[1] = <<"ifkey", "deploy">>
    BY <1>2, TailFact
  <2>2. Len(q) = 1
    BY <2>1 DEF DecidesLast
  <2>3. Tail(q) \in Seq(T) /\ Len(Tail(q)) = 0
    BY <2>2, TailFact
  <2> QED
    BY <2>3, EmptySeq
<1> QED
  BY <1>1, <1>2

\* Every step of a deploy of the stack leaves it able to meet what it asks for.
LEMMA StepDeploy ==
  ASSUME ShapeInv, StartInv, DeployInv, HostStep
  PROVE  DeployInv'
<1>s. ShapeInv'
  BY StepShape
<1>q. PICK q : q = script'
  OBVIOUS
<1> DEFINE
     G == /\ failure' # "none" => q = <<>>
          /\ \/ failure' \in {"none", "environment", "files"}
             \/ /\ failure' = "health"
                /\ status'["policy"] = "ready" /\ status'["database"] = "ready"
                /\ status'["core"] \in Alive
          /\ \A d \in Gates : Firm(d)' \/ Comes(q, Behind(d), {<<"health", d>>})
          /\ \A d \in Gates : Good(d)' \/ Comes(q, {<<"health", d>>}, Ups(d))
          /\ \A d \in {"policy", "database"} : Good(d)' \/ Comes(q, {<<"health", "core">>}, Ups(d))
          /\ Comes(q, {"probe", "health"} \X (Names \ Gates), {})
          /\ Comes(q, {"key"} \X (Names \ {"explorer"}), {})
          /\ "explorer" \in keys' \/ Comes(q, {<<"key", "explorer">>}, {})
          /\ DecidesLast(q)
          /\ failure' = "none" =>
               /\ \A d \in Core5 : Good(d)' \/ Has(q, Ups(d))
               /\ Firm("core")' \/ Has(q, {<<"health", "core">>})
               /\ \/ Has(q, {<<"ifkey", "deploy">>})
                  \/ "explorer" \in keys' /\ (Good("explorer")' \/ Has(q, {<<"up", "explorer">>}))
                  \/ "explorer" \notin keys' /\ q = <<>>
<1>m. Alive' = Alive /\ \A d : Behind(d)' = Behind(d) /\ Ups(d)' = Ups(d)
  BY DEF Alive, Behind, Ups, Starts, DependsOn
<1>0. SUFFICES ASSUME command' = <<"deploy", "nebula">>, ~disturbed'
      PROVE  G
  BY <1>q, <1>m DEF DeployInv, Running
<1>t. /\ status \in [Services -> Status] /\ "explorer" \in Services /\ Core5 \subseteq Services
      /\ Gates \subseteq Services /\ {"policy", "database", "core", "oauth"} \subseteq Core5
  BY NamesFact DEF ShapeInv, HostTypes, Core5
<1>e. \A A, X : Comes(<<>>, A, X)
  BY ComesEmpty
<1>l. DecidesLast(<<>>)
  BY DEF DecidesLast
<1>1. ASSUME NEW action \in Actions \ {"import"}, NEW x \in Named, Begin(action, x)
      PROVE  G
  <2>1. action = "deploy" /\ x = "nebula" /\ q = Script("deploy", "nebula") /\ failure' = "none"
    BY <1>0, <1>q, <1>1 DEF Begin
  <2> QED
    BY <2>1, BeginDeploy DEF Orderly
<1>2. ASSUME NEW s \in KeyOwners, ImportKey(s)
      PROVE  G
  BY <1>0, <1>2 DEF ImportKey
<1>3. CASE Execute
  <2>c. /\ command = <<"deploy", "nebula">> /\ command[1] = "deploy" /\ ~disturbed
        /\ script # <<>> /\ command' = command
    BY <1>0, <1>3, ExecuteKeeps DEF Running
  <2>f. failure = "none"
    BY <2>c DEF DeployInv, Running
  <2>1. CASE Fails
    <3>1. q = <<>> /\ failure' # "none"
      BY <1>q, <2>1 DEF Fails, Ended
    <3> QED
      BY <1>e, <1>l, <2>c, <2>1, <3>1, DeployFails
  <2>2. ASSUME NEW then, IfKey(then)
        PROVE  G
    <3>1. /\ script \in Seq(StepsOf("deploy")) /\ Head(script) = <<"ifkey", then>>
          /\ then = "deploy"
      BY <2>2, <2>c, DoingFact, IfKeyFact DEF IfKey, ShapeInv
    <3>2. Tail(script) = <<>> /\ Len(script) = 1 /\ script[1] = <<"ifkey", "deploy">>
      <4>1. Tail(script) = <<>>
        BY <2>c, <3>1, DecidesTail DEF DeployInv
      <4>2. Len(script) - 1 = 0 /\ script[1] = Head(script) /\ Len(script) \in Nat
        BY <2>c, <3>1, <4>1, TailFact, EmptySeq
      <4> QED
        BY <3>1, <4>1, <4>2
    <3>3. UNCHANGED <<status, keys, failure, files, stored>>
      BY <2>2 DEF IfKey
    <3>4. (\A d \in Core5 : Good(d)') /\ Firm("core")
      <4>1. ~Has(script, {<<"health", "core">>}) /\ \A d \in Core5 : ~Has(script, Ups(d))
        BY <3>2 DEF Has, Ups
      <4>2. (\A d \in Core5 : Good(d)) /\ Firm("core")
        BY <2>c, <2>f, <4>1 DEF DeployInv
      <4> QED
        BY <3>3, <4>2 DEF Good
    <3>5. ASSUME Comes(q, {<<"up", "core">>}, {})
          PROVE  \A d \in Gates : Firm(d)'
      <4>1. Recreates' = {<<"up", "core">>}
        BY <1>0 DEF Recreates
      <4>2. status'["core"] = "ready"
        BY <3>3, <3>4 DEF Firm
      <4>3. \A d \in {"policy", "oauth"} : status'[d] = "ready"
        BY <1>t, <3>4 DEF Good, HasHealthcheck
      <4> QED
        BY <1>q, <3>5, <4>1, <4>2, <4>3 DEF Firm, Gates
    <3>6. CASE "explorer" \notin keys
      <4>1. q = <<>>
        BY <1>q, <2>2, <2>c, <3>2, <3>6, IfKeyFact
      <4>2. \A d \in Gates : Firm(d)'
        BY <1>e, <3>5, <4>1
      <4>3. "core" \in Gates
        BY DEF Gates
      <4> QED
        BY <1>e, <1>l, <1>t, <2>f, <3>3, <3>4, <3>6, <4>1, <4>2, <4>3
    <3>7. CASE "explorer" \in keys
      <4>1. q = Deploy("explorer") \o <<>>
        BY <1>q, <2>2, <2>c, <3>1, <3>2, <3>7, IfKeyFact
      <4>2. q = Deploy("explorer")
        BY <4>1, ExplorerDeploy, ConcatEmptySeq
      <4>3. \A d \in Gates : Firm(d)'
        BY <3>5, <4>2, ExplorerDeploy
      <4>4. "core" \in Gates /\ Gates \subseteq Core5
        BY NamesFact DEF Gates
      <4>5. Orderly(q) /\ Has(q, {<<"up", "explorer">>})
        BY <4>2, ExplorerDeploy
      <4> QED
        BY <1>t, <2>f, <3>3, <3>4, <3>7, <4>3, <4>4, <4>5 DEF Orderly
    <3> QED
      BY <3>6, <3>7
  <2>3. ASSUME NEW op, NEW x, Passes(op, x)
        PROVE  G
    <3>1. /\ script \in Seq(StepsOf("deploy")) /\ Head(script) = <<op, x>> /\ q = Tail(script)
          /\ failure' = "none" /\ op # "ifkey"
      BY <1>q, <2>c, <2>f, <2>3, PassesFact DEF Passes
    <3>2. /\ keys \subseteq keys'
          /\ \A d \in Services : Good(d) => Good(d)'
          /\ \A d \in Gates : Firm(d) => Firm(d)'
      BY <2>c, <2>3, DeployOnward
    <3>3. \A A, X : Comes(script, A, X) => Head(script) \in X \/ Comes(q, A, X)
      BY <2>c, <3>1, ComesTail
    <3>4. \A X : Has(script, X) => Head(script) \in X \/ Has(q, X)
      BY <2>c, <3>1, HasTail
    <3>5. \A d \in Services : Head(script) \in Ups(d) => Good(d)'
      <4>1. SUFFICES ASSUME NEW d \in Services, <<op, x>> \in Ups(d) PROVE Good(d)'
        BY <3>1
      <4>2. op = "up" /\ x \in Services /\ d \in Starts(x)
        BY <4>1 DEF Ups
      <4>3. status'[d] \in Settled(x, d) /\ files' = files /\ stored' = stored
        BY <1>t, <2>3, <4>2, BroughtFact DEF Passes
      <4>4. stored \subseteq files
        <5>1. Head(script) \in {<<"up", x>>}
          BY <3>1, <4>2
        <5> QED
          BY <2>c, <3>1, <4>2, <5>1, ComesFirst DEF StartInv
      <4> QED
        BY <1>t, <4>3, <4>4, GoodFact
    <3>h. \A d : Head(script) = <<"health", d>> => Firm(d)'
      BY <2>c, <2>3, <3>1, AskedFact
    <3>6. \A d \in Gates : Firm(d)' \/ Comes(q, Behind(d), {<<"health", d>>})
      BY <2>c, <3>2, <3>3, <3>h DEF DeployInv
    <3>7. /\ \A d \in Gates : Good(d)' \/ Comes(q, {<<"health", d>>}, Ups(d))
          /\ \A d \in {"policy", "database"} : Good(d)' \/ Comes(q, {<<"health", "core">>}, Ups(d))
          /\ \A d \in Core5 : Good(d)' \/ Has(q, Ups(d))
      <4>1. /\ \A d \in Gates : Good(d) \/ Comes(script, {<<"health", d>>}, Ups(d))
            /\ \A d \in {"policy", "database"} : Good(d) \/ Comes(script, {<<"health", "core">>}, Ups(d))
            /\ \A d \in Core5 : Good(d) \/ Has(script, Ups(d))
        BY <2>c, <2>f DEF DeployInv
      <4>2. {"policy", "database"} \subseteq Services
        BY <1>t
      <4> QED
        BY <1>t, <3>2, <3>3, <3>4, <3>5, <4>1, <4>2
    <3>8. /\ Comes(q, {"probe", "health"} \X (Names \ Gates), {})
          /\ Comes(q, {"key"} \X (Names \ {"explorer"}), {})
          /\ "explorer" \in keys' \/ Comes(q, {<<"key", "explorer">>}, {})
      BY <2>c, <3>2, <3>3 DEF DeployInv
    <3>9. DecidesLast(q)
      BY <2>c, <3>1, DecidesTail DEF DeployInv
    <3>10. Firm("core")' \/ Has(q, {<<"health", "core">>})
      <4>1. Firm("core") \/ Has(script, {<<"health", "core">>})
        BY <2>c, <2>f DEF DeployInv
      <4>2. "core" \in Gates
        BY DEF Gates
      <4> QED
        BY <3>2, <3>4, <3>h, <4>1, <4>2
    <3>11. \/ Has(q, {<<"ifkey", "deploy">>})
           \/ "explorer" \in keys' /\ (Good("explorer")' \/ Has(q, {<<"up", "explorer">>}))
      <4>1. \/ Has(script, {<<"ifkey", "deploy">>})
            \/ "explorer" \in keys /\ (Good("explorer") \/ Has(script, {<<"up", "explorer">>}))
        BY <2>c, <2>f DEF DeployInv, Running
      <4>2. Head(script) # <<"ifkey", "deploy">>
        BY <3>1
      <4>3. Head(script) = <<"up", "explorer">> => Head(script) \in Ups("explorer")
        BY <1>t DEF Ups, Starts
      <4> QED
        BY <1>t, <3>2, <3>4, <3>5, <4>1, <4>2, <4>3
    <3> QED
      BY <3>1, <3>6, <3>7, <3>8, <3>9, <3>10, <3>11
  <2> QED
    BY <1>3, <2>1, <2>2, <2>3, ExecuteCases
<1>u. ASSUME command = <<"deploy", "nebula">>, ~disturbed, UNCHANGED <<keys, failure>>, q = script,
             \A d \in Services : /\ status[d] = "ready" => status'[d] = "ready"
                                 /\ status[d] \in Alive => status'[d] \in Alive
                                 /\ (Good(d) => Good(d)') /\ (Firm(d) => Firm(d)')
      PROVE  G
  <2>1. {"policy", "database", "core"} \subseteq Services
    BY <1>t
  <2> HIDE DEF G
  <2>2. /\ failure' # "none" => q = <<>>
        /\ \/ failure' \in {"none", "environment", "files"}
           \/ /\ failure' = "health"
              /\ status'["policy"] = "ready" /\ status'["database"] = "ready"
              /\ status'["core"] \in Alive
    BY <1>u, <2>1 DEF DeployInv, Running
  <2>3. /\ \A d \in Gates : Firm(d)' \/ Comes(q, Behind(d), {<<"health", d>>})
        /\ \A d \in Gates : Good(d)' \/ Comes(q, {<<"health", d>>}, Ups(d))
        /\ \A d \in {"policy", "database"} : Good(d)' \/ Comes(q, {<<"health", "core">>}, Ups(d))
    BY <1>t, <1>u, <2>1 DEF DeployInv
  <2>4. /\ Comes(q, {"probe", "health"} \X (Names \ Gates), {})
        /\ Comes(q, {"key"} \X (Names \ {"explorer"}), {})
        /\ "explorer" \in keys' \/ Comes(q, {<<"key", "explorer">>}, {})
        /\ DecidesLast(q)
    BY <1>u DEF DeployInv
  <2>5. failure' = "none" =>
          /\ \A d \in Core5 : Good(d)' \/ Has(q, Ups(d))
          /\ Firm("core")' \/ Has(q, {<<"health", "core">>})
          /\ \/ Has(q, {<<"ifkey", "deploy">>})
             \/ "explorer" \in keys' /\ (Good("explorer")' \/ Has(q, {<<"up", "explorer">>}))
             \/ "explorer" \notin keys' /\ q = <<>>
    BY <1>t, <1>u, <2>1 DEF DeployInv, Running
  <2> QED
    BY <2>2, <2>3, <2>4, <2>5 DEF G
<1>4. CASE Disturb
  <2>1. ~Fault
    BY <1>0 DEF Fault
  <2>2. PICK s \in Services : Recover(s) \/ Listen(s)
    BY <1>4, <2>1, DisturbFact
  <2>3. UNCHANGED <<keys, script, command, failure, disturbed>>
    BY <2>2 DEF Recover, Listen
  <2>4. \A d \in Services : /\ status[d] = "ready" => status'[d] = "ready"
                            /\ status[d] \in Alive => status'[d] \in Alive
                            /\ (Good(d) => Good(d)') /\ (Firm(d) => Firm(d)')
    BY <1>t, <2>2, AloneFirm
  <2> QED
    BY <1>0, <1>q, <1>u, <2>3, <2>4
<1>5. CASE UNCHANGED hostVars
  <2>1. UNCHANGED <<status, keys, script, command, failure, disturbed, files, stored>>
    BY <1>5 DEF hostVars
  <2>2. \A d : Good(d)' = Good(d) /\ Firm(d)' = Firm(d)
    BY <2>1 DEF Good, Firm, Recreates
  <2> QED
    BY <1>0, <1>q, <1>u, <2>1, <2>2
<1> QED
  BY <1>1, <1>2, <1>3, <1>4, <1>5 DEF HostStep
-----------------------------------------------------------------------------
(* What a start finds, and what a stop leaves *)

\* When Compose brings a service up, what the command probed for it is ready, and
\* in a deploy of the stack Core is, once it has been asked for.
LEMMA StartFinds ==
  ASSUME ShapeInv, StartInv, DeployInv, NEW s \in Services, Doing("up", s), ~disturbed
  PROVE  /\ \A d \in Required(s) : status[d] = "ready"
         /\ command = <<"deploy", "nebula">> /\ s \in {"console", "explorer"}
              => status["core"] = "ready"
<1>1. script \in Seq(ScriptStep) /\ script # <<>> /\ Head(script) = <<"up", s>>
  BY DEF Doing, Running, ShapeInv, HostTypes
<1>2. \A A, X : Comes(script, A, X) => Head(script) \notin A
  BY <1>1, ComesFirst
<1>3. \A d \in Required(s) : status[d] = "ready"
  BY <1>1, <1>2 DEF StartInv, Firm
<1>4. ASSUME command = <<"deploy", "nebula">>, s \in {"console", "explorer"}
      PROVE  status["core"] = "ready"
  <2>1. Firm("core") \/ Comes(script, Behind("core"), {<<"health", "core">>})
    BY <1>4 DEF DeployInv, Gates
  <2>2. Head(script) \in Behind("core")
    BY <1>1, <1>4 DEF Behind
  <2> QED
    BY <1>2, <2>1, <2>2 DEF Firm
<1> QED
  BY <1>3, <1>4

\* What a service needs is among what its deploy probes and what Compose brings up
\* before it; the same holds of what Compose brings up before it.
LEMMA NeedsCovered ==
  ASSUME NEW r \in Services, NEW t \in Starts(r), NEW s \in {t} \cup DependsOn(t), NEW d \in Needs(s)
  PROVE  /\ s \in Services /\ d \in Services /\ t \in Services
         /\ d \in Required(r) \/ d \in DependsOn(t)
         /\ Required(r) \cap Starts(r) = {} /\ t \notin DependsOn(t) /\ DependsOn(t) \subseteq Starts(r)
         /\ d \in DependsOn(t) => d \in HasHealthcheck \/ d = "core"
         /\ d = "core" /\ d \in DependsOn(t) => t = r /\ r # d /\ s = r /\ s \in {"console", "explorer"}
<1>1. CASE r = "core"
  BY <1>1, NamesFact DEF Needs, Required, DependsOn, Starts, Core5, HasHealthcheck
<1>2. CASE r = "console"
  BY <1>2, NamesFact DEF Needs, Required, DependsOn, Starts, Core5, HasHealthcheck
<1>3. CASE r = "explorer"
  BY <1>3, NamesFact DEF Needs, Required, DependsOn, Starts, Core5, HasHealthcheck
<1>4. CASE r = "oauth"
  BY <1>4, NamesFact DEF Needs, Required, DependsOn, Starts, Core5, HasHealthcheck
<1>5. CASE r \notin {"core", "console", "explorer", "oauth"}
  BY <1>5 DEF Needs, Required, DependsOn, Starts
<1> QED
  BY <1>1, <1>2, <1>3, <1>4, <1>5

\* Only an up, wherever it ends, starts what was down.
LEMMA OnlyUpStarts ==
  ASSUME ShapeInv, HostStep, NEW s \in Services, status[s] = "down", status'[s] # "down"
  PROVE  \E r \in Services : Up(r) \/ UpWithoutFiles(r) \/ UpFails(r)
<1>t. status \in [Services -> Status]
  BY DEF ShapeInv, HostTypes
<1>1. ASSUME NEW action, NEW x, Begin(action, x) PROVE FALSE
  BY <1>1 DEF Begin
<1>2. ASSUME NEW r, ImportKey(r) PROVE FALSE
  BY <1>2 DEF ImportKey
<1>3. CASE Execute
  BY <1>t, <1>3 DEF Execute, Load, Generate, Initialize, Stage, Probe, HealthCheck, RequireKey,
     StopService, Down, RemoveTree, Unlink, IfKey
<1>4. CASE Disturb
  <2>1. ASSUME NEW r \in Services, Crash(r) \/ Recover(r) \/ Listen(r) PROVE FALSE
    BY <1>t, <2>1, AloneFact DEF Alive
  <2>2. ASSUME Interrupt PROVE FALSE
    BY <2>2 DEF Interrupt
  <2> QED
    BY <1>4, <2>1, <2>2 DEF Disturb
<1>5. CASE UNCHANGED hostVars
  BY <1>5 DEF hostVars
<1> QED
  BY <1>1, <1>2, <1>3, <1>4, <1>5 DEF HostStep

\* A service starts over what it needs.
LEMMA StartsOver ==
  ASSUME ShapeInv, StartInv, DeployInv, HostStep, NEW s \in Services,
         status[s] = "down", status'[s] # "down", ~disturbed, NEW d \in Needs(s)
  PROVE  \/ status'[d] = "ready"
         \/ /\ d = "core" /\ status'[d] \in Alive
            /\ s \in {"console", "explorer"} /\ command # <<"deploy", "nebula">>
<1>t. status \in [Services -> Status]
  BY DEF ShapeInv, HostTypes
<1>1. PICK r \in Services : Up(r) \/ UpWithoutFiles(r) \/ UpFails(r)
  BY OnlyUpStarts
<1>2. /\ \A e \in Required(r) : status[e] = "ready"
      /\ command = <<"deploy", "nebula">> /\ r \in {"console", "explorer"} => status["core"] = "ready"
  BY <1>1, StartFinds DEF Up, UpWithoutFiles, UpFails
\* t is the last service that the up brings up, or the one that it does not.
<1>3. \E t \in Starts(r) :
        /\ s \in {t} \cup DependsOn(t)
        /\ \A e \in Services : e \notin Starts(r) => status'[e] = status[e]
        /\ \A e \in Services : e \in DependsOn(t) => status'[e] \in Settled(r, e)
  <2>1. CASE Up(r)
    <3>1. status' \in BroughtUp(r, Starts(r))
      BY <2>1 DEF Up
    <3>2. \A e \in Services : IF e \in Starts(r) THEN status'[e] \in Settled(r, e)
                              ELSE status'[e] = status[e]
      BY <1>t, <3>1, BroughtFact
    <3>3. r \in Starts(r) /\ Starts(r) = {r} \cup DependsOn(r)
      BY DEF Starts
    <3> QED
      BY <3>2, <3>3
  <2>2. CASE UpWithoutFiles(r) \/ UpFails(r)
    <3>1. PICK t \in Starts(r) : GivesUp(r, t)
      BY <2>2 DEF UpWithoutFiles, UpFails
    <3>2. t \in Services /\ DependsOn(t) \subseteq Starts(r)
      BY <3>1, StartsFact DEF Starts, DependsOn
    <3>3. \A e \in Services :
            IF e \in DependsOn(t) THEN status'[e] \in Settled(r, e)
            ELSE status'[e] = status[e] \/ (e = t /\ status'[e] = "failing")
      BY <1>t, <3>1, <3>2, GivesUpFact
    <3> QED
      BY <3>1, <3>2, <3>3
  <2> QED
    BY <1>1, <2>1, <2>2
<1>4. PICK t \in Starts(r) :
        /\ s \in {t} \cup DependsOn(t)
        /\ \A e \in Services : e \notin Starts(r) => status'[e] = status[e]
        /\ \A e \in Services : e \in DependsOn(t) => status'[e] \in Settled(r, e)
  BY <1>3
<1>5. /\ d \in Services /\ (d \in Required(r) \/ d \in DependsOn(t))
      /\ Required(r) \cap Starts(r) = {}
      /\ d \in DependsOn(t) => d \in HasHealthcheck \/ d = "core"
      /\ d = "core" /\ d \in DependsOn(t) => r # d /\ s = r /\ s \in {"console", "explorer"}
  BY <1>4, NeedsCovered
<1>6. CASE d \in Required(r)
  BY <1>2, <1>4, <1>5, <1>6
<1>7. CASE d \in DependsOn(t)
  <2>1. status'[d] \in Settled(r, d)
    BY <1>4, <1>5, <1>7
  <2>2. CASE d \in HasHealthcheck
    BY <1>t, <1>5, <2>1, <2>2, SettledFact
  <2>3. CASE d = "core"
    <3>1. status'[d] \in Alive
      BY <1>t, <1>5, <2>1, <2>3, SettledFact
    <3>2. command = <<"deploy", "nebula">> => status'[d] = "ready"
      BY <1>t, <1>2, <1>5, <1>7, <2>1, <2>3, SettledFact
    <3> QED
      BY <1>5, <1>7, <2>3, <3>1, <3>2
  <2> QED
    BY <1>5, <1>7, <2>2, <2>3
<1> QED
  BY <1>5, <1>6, <1>7

\* A stop of the stack takes nothing from under a service that needs it.
LEMMA StopsUnder ==
  ASSUME ShapeInv, StopInv, HostStep, NEW d \in Services, NEW s \in Services,
         command = <<"stop", "nebula">>, Running,
         status[d] # "down", status'[d] = "down", d \in Needs(s), status'[s] # "down"
  PROVE  s = "explorer" /\ leftover
<1>t. status \in [Services -> Status]
  BY DEF ShapeInv, HostTypes
<1>c. command[1] = "stop"
  OBVIOUS
<1>u. ASSUME NEW r, Doing("up", r) PROVE FALSE
  <2>1. <<"up", r>> \in StepsOf("stop")
    BY <1>c, <1>u, DoingFact
  <2> QED
    BY <2>1 DEF StepsOf
<1>1. ASSUME NEW action, NEW x, Begin(action, x) PROVE FALSE
  BY <1>1 DEF Begin
<1>2. ASSUME NEW r, ImportKey(r) PROVE FALSE
  BY <1>2 DEF ImportKey
<1>3. CASE Execute
  <2>1. ASSUME NEW then, IfKey(then) PROVE FALSE
    BY <2>1 DEF IfKey
  <2>2. ASSUME Fails PROVE FALSE
    <3>1. status' = status
      BY <1>u, <2>2 DEF Fails, UpWithoutFiles
    <3> QED
      BY <3>1
  <2>3. ASSUME NEW op, NEW x, Passes(op, x) PROVE s = "explorer" /\ leftover
    <3>1. /\ script # <<>> /\ script \in Seq(StepsOf("stop")) /\ Head(script) = <<op, x>>
          /\ op \notin {"up", "down"}
      BY <1>c, <2>3, PassesFact
    <3>2. op = "stop" /\ x = d
      BY <1>t, <2>3, <3>1 DEF Passes
    <3>3. status[s] # "down"
      BY <1>t, <2>3, <3>2 DEF Passes
    <3>4. Stopped(s)
      BY <3>1, <3>2, ComesFirst DEF StopInv
    <3> QED
      BY <3>3, <3>4 DEF Stopped
  <2> QED
    BY <1>3, <2>1, <2>2, <2>3, ExecuteCases
<1>4. CASE Disturb
  <2>1. ASSUME NEW r \in Services, Crash(r) \/ Recover(r) \/ Listen(r) PROVE FALSE
    BY <1>t, <2>1, AloneFact DEF Alive
  <2>2. ASSUME NEW r \in Services, UpFails(r) PROVE FALSE
    BY <1>u, <2>2 DEF UpFails
  <2>3. ASSUME Interrupt PROVE FALSE
    BY <2>3 DEF Interrupt
  <2> QED
    BY <1>4, <2>1, <2>2, <2>3 DEF Disturb
<1>5. CASE UNCHANGED hostVars
  BY <1>5 DEF hostVars
<1> QED
  BY <1>1, <1>2, <1>3, <1>4, <1>5 DEF HostStep
-----------------------------------------------------------------------------
(* Theorems *)

HostInv == ShapeInv /\ StartInv /\ KeyInv /\ StopInv /\ DeployInv

\* Every host step keeps the inductive invariant.
LEMMA HostInvStep ==
  ASSUME HostInv, HostStep
  PROVE  HostInv'
BY StepShape, StepStart, StepKey, StepStop, StepDeploy DEF HostInv

\* The invariant holds of a host where no command ever ran.
LEMMA HostInvInit ==
  ASSUME HostInit
  PROVE  HostInv
<1>1. script = <<>> /\ command = <<"health", "nebula">> /\ \A T : <<>> \in Seq(T)
  BY EmptySeq DEF HostInit
<1>2. ShapeInv
  <2>1. command \in Command /\ faults \in 0 .. MaxFaults
    BY MaxFaultsAssumption DEF HostInit, Command, Actions
  <2> QED
    BY <1>1, <2>1 DEF HostInit, ShapeInv, HostTypes, Status, Failure
<1>3. StartInv
  BY <1>1, ComesEmpty DEF StartInv
<1>4. KeyInv
  BY <1>1, NamesFact, ComesEmpty DEF KeyInv, ExplorerHasKey, RunsOnItsFiles, HostInit, Alive
<1>5. StopInv /\ DeployInv
  BY <1>1 DEF StopInv, DeployInv
<1> QED
  BY <1>2, <1>3, <1>4, <1>5 DEF HostInv

\* Whatever the operator runs on the host, and whatever breaks off or crashes,
\* the lifecycle keeps its invariant.
THEOREM LifecycleInvariant == Spec => []HostInv
<1>1. HostInit => HostInv
  BY HostInvInit
<1>2. HostInv /\ [Next]_hostVars => HostInv'
  BY HostInvStep, NextIsHostStep
<1> QED
  BY <1>1, <1>2, PTL DEF Spec

\* The invariant has the types in it.
LEMMA HostInvIsTyped == HostInv => TypeOK
<1>1. SUFFICES ASSUME HostInv PROVE TypeOK
  OBVIOUS
<1>2. ASSUME NEW i \in DOMAIN script PROVE script[i][1] \in Ops
  <2>1. script \in Seq(ScriptStep)
    BY <1>1 DEF HostInv, ShapeInv, HostTypes
  <2>2. script[i] \in ScriptStep
    BY <1>2, <2>1, LenProperties, ElementOfSeq
  <2> QED
    BY <2>2 DEF ScriptStep
<1>3. {disturbed, leftover} \subseteq BOOLEAN
  BY <1>1 DEF HostInv, ShapeInv, HostTypes
<1> QED
  BY <1>1, <1>2, <1>3 DEF HostInv, ShapeInv, HostTypes, TypeOK

\* The state of the host keeps its type: a script has only known steps.
THEOREM TypeCorrect == Spec => []TypeOK
BY HostInvIsTyped, LifecycleInvariant, PTL

\* Explorer's container is never there without its onboarding key, unless a
\* destroy of the product left it behind: stop and deploy of the stack, which
\* decide by the key, miss no other container.
THEOREM ExplorerKeepsItsKey == Spec => []ExplorerHasKey
<1>1. HostInv => ExplorerHasKey
  BY DEF HostInv, KeyInv
<1> QED
  BY <1>1, LifecycleInvariant, PTL

\* No destroy takes the durable files from under a container that runs on them,
\* wherever it breaks off, but for the Explorer that it leaves behind.
THEOREM RunningHaveFiles == Spec => []RunsOnItsFiles
<1>1. HostInv => RunsOnItsFiles
  BY DEF HostInv, KeyInv
<1> QED
  BY <1>1, LifecycleInvariant, PTL

\* A stop of the stack that ends without an error has stopped all of it.
THEOREM StopIsComplete == Spec => []StoppedStackIsDown
<1>1. HostInv => StoppedStackIsDown
  BY ComesEmpty DEF HostInv, StopInv, Stopped, StoppedStackIsDown, Running
<1> QED
  BY <1>1, LifecycleInvariant, PTL

\* A deploy of the stack that nothing disturbs fails only for want of a file or
\* on the health check of a Core that runs, never on a probe or a key that it
\* should have seen to itself; when it succeeds the stack serves.
THEOREM DeployServes == Spec => []DeployedStackServes
<1>1. HostInv => DeployedStackServes
  <2>1. SUFFICES ASSUME HostInv, command = <<"deploy", "nebula">>, ~Running, ~disturbed,
                        failure \notin {"environment", "files", "health"}
                 PROVE  /\ failure = "none"
                        /\ \A s \in {"policy", "database", "core", "oauth"} : status[s] = "ready"
                        /\ \A s \in {"console"} \cup (keys \cap {"explorer"}) :
                             status[s] # "down" /\ (s \in files => status[s] \in Alive)
    BY DEF DeployedStackServes, HostInv, DeployInv
  <2>2. failure = "none"
    BY <2>1 DEF HostInv, DeployInv
  <2>3. (\A d \in Core5 : Good(d)) /\ Firm("core") /\ ("explorer" \in keys => Good("explorer"))
    BY <2>1, <2>2, ComesEmpty DEF HostInv, DeployInv, Running
  <2>4. \A s \in {"policy", "database", "core", "oauth"} : status[s] = "ready"
    BY <2>3 DEF Good, Firm, HasHealthcheck, Core5
  <2>5. \A s \in {"console"} \cup (keys \cap {"explorer"}) : Good(s)
    BY <2>3 DEF Core5
  <2> QED
    BY <2>2, <2>4, <2>5 DEF Good
<1> QED
  BY <1>1, LifecycleInvariant, PTL

\* No start finds something it needs down or failing, although each probe and
\* the start behind it are separate steps; what it finds is ready, but for Core,
\* which need only run under a Console or an Explorer deployed alone.
THEOREM StartsAreOverReady == Spec => StartsOverReady
<1>1. HostInv /\ [Next]_hostVars =>
        \A s \in Services : status[s] = "down" /\ status'[s] # "down" /\ ~disturbed =>
          \A d \in Needs(s) :
            \/ status'[d] = "ready"
            \/ /\ d = "core" /\ status'[d] \in Alive
               /\ s \in {"console", "explorer"} /\ command # <<"deploy", "nebula">>
  BY NextIsHostStep, StartsOver DEF HostInv
<1> QED
  BY <1>1, LifecycleInvariant, PTL DEF Spec, StartsOverReady

\* A stop of the stack never stops a service under one that needs it, but for
\* an Explorer that a destroy left behind.
THEOREM StopsAreInOrder == Spec => StopOrder
<1>1. HostInv /\ [Next]_hostVars =>
        \A d, s \in Services :
          /\ command = <<"stop", "nebula">> /\ Running
          /\ status[d] # "down" /\ status'[d] = "down"
          /\ d \in Needs(s) /\ status'[s] # "down"
          => s = "explorer" /\ leftover
  BY NextIsHostStep, StopsUnder DEF HostInv
<1> QED
  BY <1>1, LifecycleInvariant, PTL DEF Spec, StopOrder

=============================================================================
