----------------------- MODULE VaultSecretClientProofs -----------------------
(* The theorems about VaultSecretClient, for any number of clients, secret   *)
(* names and contents.                                                       *)
EXTENDS VaultSecretClient, TLAPS

\* The branches a client may be on, by the kind of its call; a get that has
\* read nothing yet holds NoValue.
Branches ==
  \A c \in Clients :
    /\ pc[c] \in {"compare", "create", "update", "wait"} => kind[c] = "put"
    /\ pc[c] = "bundle" => kind[c] = "get"
    /\ pc[c] = "list" /\ kind[c] = "get" => val[c] = NoValue

\* What a step of the client needs to know.
ClientInv == TypeOK /\ Branches /\ PayloadScoped

LEMMA InitClient == Init => ClientInv
  BY KillsAssumption
     DEF Init, ClientInv, TypeOK, Branches, PayloadScoped, Writes, Contents, PC

\* Every step preserves the types, the branches and the payload's scope.
LEMMA ClientStep == ClientInv /\ [Next]_vars => ClientInv'
<1> SUFFICES ASSUME ClientInv, [Next]_vars PROVE ClientInv'
  OBVIOUS
<1> USE ValuesAssumption, KillsAssumption
    DEF ClientInv, TypeOK, Branches, PayloadScoped, Writes, PayloadOf, PayloadFile,
        Contents, PC, Goto, Leave, service, args, tmpfs
<1>1. ASSUME NEW c \in Clients, NEW n \in Names, NEW v \in Values \cup Oversized,
             StartPut(c, n, v)
      PROVE ClientInv'
  <2>1. v \in Values \/ v \in Oversized
    OBVIOUS
  <2>2. v \in Values
    BY <1>1, <2>1 DEF StartPut
  <2> QED
    BY <1>1, <2>2 DEF StartPut
<1>2. ASSUME NEW c \in Clients, NEW n \in Names, StartGet(c, n) PROVE ClientInv'
  BY <1>2 DEF StartGet
<1>3. ASSUME NEW c \in Clients, ListAbsent(c) PROVE ClientInv'
  <2>1. CASE kind[c] = "put"
    <3>1. pc' = [pc EXCEPT ![c] = "create"] /\ payload' = payload \cup {PayloadOf(c)}
      BY <1>3, <2>1 DEF ListAbsent
    <3>2. UNCHANGED <<service, args, val, life>>
      BY <1>3 DEF ListAbsent
    <3> QED
      BY <2>1, <3>1, <3>2
  <2>2. CASE kind[c] # "put"
    <3>1. pc' = [pc EXCEPT ![c] = "return"] /\ UNCHANGED payload
      BY <1>3, <2>2 DEF ListAbsent
    <3>2. UNCHANGED <<service, args, val, life>>
      BY <1>3 DEF ListAbsent
    <3>3. pc[c] = "list"
      BY <1>3 DEF ListAbsent
    <3> QED
      BY <2>2, <3>1, <3>2, <3>3
  <2> QED
    BY <2>1, <2>2
<1>4. ASSUME NEW c \in Clients, ListPresent(c) PROVE ClientInv'
  BY <1>4 DEF ListPresent
<1>5. ASSUME NEW c \in Clients, ReadBundle(c) PROVE ClientInv'
  BY <1>5 DEF ReadBundle
<1>6. ASSUME NEW c \in Clients, SkipEqual(c) PROVE ClientInv'
  BY <1>6 DEF SkipEqual
<1>7. ASSUME NEW c \in Clients, CompareDiffers(c) PROVE ClientInv'
  BY <1>7 DEF CompareDiffers
<1>8. ASSUME NEW c \in Clients, CreateSecret(c) PROVE ClientInv'
  BY <1>8 DEF CreateSecret, Publish
<1>9. ASSUME NEW c \in Clients, UpdateSecret(c) PROVE ClientInv'
  BY <1>9 DEF UpdateSecret, Publish
<1>10. ASSUME NEW c \in Clients, SawActive(c) PROVE ClientInv'
  BY <1>10 DEF SawActive
<1>11. ASSUME NEW c \in Clients, Return(c) PROVE ClientInv'
  BY <1>11 DEF Return
<1>12. ASSUME NEW c \in Clients, Raise(c) PROVE ClientInv'
  BY <1>12 DEF Raise
<1>13. ASSUME NEW c \in Clients, Kill(c) PROVE ClientInv'
  BY <1>13 DEF Kill
<1>14. ASSUME NEW n \in Names, Settle(n) PROVE ClientInv'
  BY <1>14 DEF Settle
<1>15. CASE Reboot
  BY <1>15 DEF Reboot
<1>16. CASE UNCHANGED vars
  BY <1>16 DEF vars
<1> QED
  BY <1>1, <1>2, <1>3, <1>4, <1>5, <1>6, <1>7, <1>8, <1>9, <1>10, <1>11, <1>12, <1>13,
     <1>14, <1>15, <1>16 DEF Next, Step

LEMMA ClientInvariance == Spec => []ClientInv
  BY InitClient, ClientStep, PTL DEF Spec

\* Type correctness: in particular no oversized content gets past put.
THEOREM TypeCorrect == Spec => []TypeOK
  BY ClientInvariance, PTL DEF ClientInv

\* Secret content is in the tmpfs exactly for the calls that are in a create
\* or an update, and for the processes that a SIGKILL ended in one.
THEOREM PayloadsAreScoped == Spec => []PayloadScoped
  BY ClientInvariance, PTL DEF ClientInv

-----------------------------------------------------------------------------
(* The client implements SecretRegister                                       *)

\* The register's calls as the client's variables show them.
Calls == [c \in Clients |-> CallOf(c)]

\* Between calls there is nothing, and a running call is told by its stage.
LEMMA CallShape ==
  ASSUME NEW c \in Clients
  PROVE  /\ Calls[c] = CallOf(c)
         /\ pc[c] = "idle" => CallOf(c) = Register!Idle
         /\ pc[c] # "idle" =>
              /\ CallOf(c) # Register!Idle
              /\ CallOf(c).stage =
                   (IF pc[c] \in {"wait", "return"} THEN "applied" ELSE "called")
              /\ CallOf(c).kind = kind[c]
              /\ CallOf(c).name = name[c]
              /\ CallOf(c).val = val[c]
  BY DEF Calls, CallOf, Register!Idle

\* A step that leaves the variables of the other clients alone leaves their
\* calls alone.
LEMMA OtherCalls ==
  ASSUME NEW c \in Clients,
         \A d \in Clients \ {c} :
           pc'[d] = pc[d] /\ kind'[d] = kind[d] /\ name'[d] = name[d] /\ val'[d] = val[d]
  PROVE  Calls' = [Calls EXCEPT ![c] = CallOf(c)']
  BY DEF Calls, CallOf

LEMMA RegisterInit == Init => Register!Init
  BY DEF Init, Register!Init, CallOf, Register!Idle

\* What one step of the client is to the register: the call c is in changes
\* stage, or nothing happens.
LEMMA RegisterStep == ClientInv /\ [Next]_vars => [Register!Next]_(Register!vars)
<1> SUFFICES ASSUME ClientInv, [Next]_vars
             PROVE  Register!Next \/ (secret' = secret /\ Calls' = Calls)
  BY DEF Register!vars, Calls
<1> USE DEF ClientInv, TypeOK, Contents, PC, service, args, tmpfs, Goto
<1>1. ASSUME NEW c \in Clients, NEW n \in Names, NEW v \in Values \cup Oversized,
             StartPut(c, n, v)
      PROVE Register!Next
  <2>1. v \in Values
    BY <1>1, ValuesAssumption DEF StartPut
  <2>2. Calls' = [Calls EXCEPT ![c] = CallOf(c)']
    BY <1>1, OtherCalls DEF StartPut
  <2>3. CallOf(c)' = [stage |-> "called", kind |-> "put", name |-> n, val |-> v]
    BY <1>1 DEF StartPut, CallOf
  <2>4. Register!Invoke(c, "put", n, v)
    BY <1>1, <2>2, <2>3, CallShape DEF StartPut, Register!Invoke, Calls
  <2> QED
    BY <2>1, <2>4 DEF Register!Next
<1>2. ASSUME NEW c \in Clients, NEW n \in Names, StartGet(c, n) PROVE Register!Next
  <2>1. Calls' = [Calls EXCEPT ![c] = CallOf(c)']
    BY <1>2, OtherCalls DEF StartGet
  <2>2. CallOf(c)' = [stage |-> "called", kind |-> "get", name |-> n, val |-> NoValue]
    BY <1>2 DEF StartGet, CallOf
  <2>3. Register!Invoke(c, "get", n, NoValue)
    BY <1>2, <2>1, <2>2, CallShape DEF StartGet, Register!Invoke, Calls
  <2> QED
    BY <2>3 DEF Register!Next
\* A step that keeps the arguments and the stage is a stutter.
<1>3. ASSUME NEW c \in Clients, pc[c] # "idle", pc'[c] # "idle", secret' = secret,
             \A d \in Clients \ {c} : pc'[d] = pc[d],
             pc[c] \in {"wait", "return"} <=> pc'[c] \in {"wait", "return"},
             UNCHANGED <<args, val>>
      PROVE  secret' = secret /\ Calls' = Calls
  <2>1. CallOf(c)' = CallOf(c)
    BY <1>3 DEF CallOf
  <2>2. Calls' = [Calls EXCEPT ![c] = CallOf(c)']
    BY <1>3, OtherCalls
  <2> QED
    BY <1>3, <2>1, <2>2 DEF Calls
\* The instant of a put: its list, compare or write decides.
<1>4. ASSUME NEW c \in Clients, pc[c] \in {"compare", "create", "update"},
             pc' = [pc EXCEPT ![c] = IF pc[c] = "compare" THEN "return" ELSE "wait"],
             secret' = [secret EXCEPT ![name[c]] = val[c]],
             UNCHANGED <<args, val>>
      PROVE  Register!Next
  <2>1. Calls' = [Calls EXCEPT ![c] = CallOf(c)']
    BY <1>4, OtherCalls
  <2>2. CallOf(c)' = [Calls[c] EXCEPT !.stage = "applied"]
    BY <1>4 DEF CallOf, Calls
  <2>3. kind[c] = "put"
    BY <1>4 DEF Branches
  <2>4. Register!ApplyPut(c)
    BY <1>4, <2>1, <2>2, <2>3, CallShape DEF Register!ApplyPut, Calls
  <2> QED
    BY <2>4 DEF Register!Next
\* The instant of a get: its list or its bundle read decides.
<1>5. ASSUME NEW c \in Clients, pc[c] \in {"list", "bundle"}, kind[c] = "get",
             pc' = [pc EXCEPT ![c] = "return"], secret' = secret,
             val' = [val EXCEPT ![c] = secret[name[c]]], UNCHANGED args
      PROVE  Register!Next
  <2>1. Calls' = [Calls EXCEPT ![c] = CallOf(c)']
    BY <1>5, OtherCalls
  <2>2. CallOf(c)' = [stage |-> "applied", kind |-> "get", name |-> name[c],
                      val |-> secret[name[c]]]
    BY <1>5 DEF CallOf
  <2>3. /\ Calls[c] # Register!Idle /\ Calls[c].stage = "called"
        /\ Calls[c].kind = "get" /\ Calls[c].name = name[c]
    BY <1>5, CallShape
  <2>4. Register!ApplyGet(c)
    BY <1>5, <2>1, <2>2, <2>3 DEF Register!ApplyGet, Calls
  <2> QED
    BY <2>4 DEF Register!Next
\* Leaving a call, by a return or not.
<1>6. ASSUME NEW c \in Clients, pc[c] # "idle", Leave(c), secret' = secret
      PROVE  Register!Next
  <2>1. Calls' = [Calls EXCEPT ![c] = CallOf(c)']
    BY <1>6, OtherCalls DEF Leave
  <2>2. CallOf(c)' = Register!Idle
    BY <1>6 DEF Leave, CallOf, Register!Idle
  <2>3. Register!Raise(c)
    BY <1>6, <2>1, <2>2, CallShape DEF Register!Raise, Calls
  <2> QED
    BY <2>3 DEF Register!Next
<1>7. ASSUME NEW c \in Clients, ListAbsent(c)
      PROVE  Register!Next \/ (secret' = secret /\ Calls' = Calls)
  <2>1. CASE kind[c] = "put"
    <3>1. pc[c] = "list" /\ pc' = [pc EXCEPT ![c] = "create"]
      BY <1>7, <2>1 DEF ListAbsent
    <3>2. secret' = secret /\ UNCHANGED <<args, val>>
      BY <1>7 DEF ListAbsent
    <3> QED
      BY <1>3, <3>1, <3>2
  <2>2. CASE kind[c] = "get"
    <3>1. val[c] = NoValue /\ secret[name[c]] = NoValue
      BY <1>7, <2>2 DEF ListAbsent, Branches
    <3>2. val' = [val EXCEPT ![c] = secret[name[c]]]
      BY <1>7, <3>1 DEF ListAbsent
    <3> QED
      BY <1>5, <1>7, <2>2, <3>2 DEF ListAbsent
  <2> QED
    BY <2>1, <2>2
<1>8. ASSUME NEW c \in Clients, ListPresent(c)
      PROVE  secret' = secret /\ Calls' = Calls
  BY <1>3, <1>8 DEF ListPresent
<1>9. ASSUME NEW c \in Clients, ReadBundle(c) PROVE Register!Next
  <2>1. kind[c] = "get"
    BY <1>9 DEF ReadBundle, Branches
  <2> QED
    BY <1>5, <1>9, <2>1 DEF ReadBundle
<1>10. ASSUME NEW c \in Clients, SkipEqual(c) PROVE Register!Next
  <2>1. secret' = [secret EXCEPT ![name[c]] = val[c]]
    BY <1>10 DEF SkipEqual
  <2> QED
    BY <1>4, <1>10, <2>1 DEF SkipEqual
<1>11. ASSUME NEW c \in Clients, CompareDiffers(c)
       PROVE  secret' = secret /\ Calls' = Calls
  BY <1>3, <1>11 DEF CompareDiffers
<1>12. ASSUME NEW c \in Clients, CreateSecret(c) PROVE Register!Next
  BY <1>4, <1>12 DEF CreateSecret, Publish
<1>13. ASSUME NEW c \in Clients, UpdateSecret(c) PROVE Register!Next
  BY <1>4, <1>13 DEF UpdateSecret, Publish
<1>14. ASSUME NEW c \in Clients, SawActive(c)
       PROVE  secret' = secret /\ Calls' = Calls
  BY <1>3, <1>14 DEF SawActive
<1>15. ASSUME NEW c \in Clients, Return(c) \/ Raise(c) \/ Kill(c) PROVE Register!Next
  BY <1>6, <1>15 DEF Return, Raise, Kill
<1>16. ASSUME NEW n \in Names, Settle(n) PROVE secret' = secret /\ Calls' = Calls
  BY <1>16 DEF Settle, Calls, CallOf
<1>17. CASE Reboot
  BY <1>17 DEF Reboot, Calls, CallOf
<1>18. CASE UNCHANGED vars
  BY <1>18 DEF vars, Calls, CallOf
<1> QED
  BY <1>1, <1>2, <1>7, <1>8, <1>9, <1>10, <1>11, <1>12, <1>13, <1>14, <1>15, <1>16, <1>17,
     <1>18
     DEF Next, Step

\* The list-then-act sequences of put and get are atomic register operations,
\* for any number of clients, names and contents.
THEOREM ClientIsRegister == Spec => ImplementsRegister
  BY RegisterInit, RegisterStep, ClientInvariance, PTL DEF Spec, ImplementsRegister, Register!Spec

=============================================================================
