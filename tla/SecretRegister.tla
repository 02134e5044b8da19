---------------------------- MODULE SecretRegister ----------------------------
(***************************************************************************)
(* What the deployment code relies on from its Vault client: each secret   *)
(* is a register.  A put or a get takes effect at one instant between its  *)
(* call and its return; a call that raises may or may not have taken       *)
(* effect.                                                                 *)
(***************************************************************************)
CONSTANTS
  Names,    \* secret names
  Values,   \* secret contents
  NoValue,  \* "the secret does not exist"
  Clients   \* processes that call the client, one call at a time each

VARIABLES
  secret,   \* secret[n]: CURRENT content of n, or NoValue
  call      \* call[c]: the call client c is in

vars == <<secret, call>>

Contents == Values \cup {NoValue}

Idle == [stage |-> "idle"]

Call == [stage : {"called", "applied"}, kind : {"put", "get"},
         name : Names, val : Contents]

TypeOK ==
  /\ secret \in [Names -> Contents]
  /\ call \in [Clients -> Call \cup {Idle}]

Init ==
  /\ secret = [n \in Names |-> NoValue]
  /\ call = [c \in Clients |-> Idle]

Invoke(c, k, n, v) ==
  /\ call[c] = Idle
  /\ call' = [call EXCEPT ![c] =
                [stage |-> "called", kind |-> k, name |-> n, val |-> v]]
  /\ UNCHANGED secret

\* The instant a put takes effect.
ApplyPut(c) ==
  /\ call[c] # Idle /\ call[c].stage = "called" /\ call[c].kind = "put"
  /\ secret' = [secret EXCEPT ![call[c].name] = call[c].val]
  /\ call' = [call EXCEPT ![c].stage = "applied"]

\* The instant a get reads the register.
ApplyGet(c) ==
  /\ call[c] # Idle /\ call[c].stage = "called" /\ call[c].kind = "get"
  /\ call' = [call EXCEPT ![c] = [stage |-> "applied", kind |-> "get", name |-> @.name,
                                  val |-> secret[@.name]]]
  /\ UNCHANGED secret

Return(c) ==
  /\ call[c] # Idle /\ call[c].stage = "applied"
  /\ call' = [call EXCEPT ![c] = Idle]
  /\ UNCHANGED secret

Raise(c) ==
  /\ call[c] # Idle
  /\ call' = [call EXCEPT ![c] = Idle]
  /\ UNCHANGED secret

Next ==
  \E c \in Clients :
    \/ \E n \in Names, v \in Values : Invoke(c, "put", n, v)
    \/ \E n \in Names : Invoke(c, "get", n, NoValue)
    \/ ApplyPut(c) \/ ApplyGet(c) \/ Return(c) \/ Raise(c)

Spec == Init /\ [][Next]_vars

=============================================================================
