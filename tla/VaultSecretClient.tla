-------------------------- MODULE VaultSecretClient --------------------------
(***************************************************************************)
(* OciVaultSecretClient (deployment/security/vault.py): put and get are    *)
(* sequences of OCI CLI processes - a metadata list, a bundle read, a      *)
(* create or an update that waits for the ACTIVE state - and other clients *)
(* run between any two of them.  The Vault service itself is external: a   *)
(* create conflicts with an existing name, and an update with a secret     *)
(* that is still being written.                                            *)
(***************************************************************************)
EXTENDS Naturals

CONSTANTS
  Names,      \* secret names
  Values,     \* contents that fit the 25 KB secret-bundle limit
  Oversized,  \* contents that do not
  NoValue,    \* "the secret does not exist"
  Clients,    \* slots for deployment processes, one process at a time each
  MaxKills    \* bound: processes of one slot killed by SIGKILL

ASSUME ValuesAssumption == NoValue \notin Values /\ Oversized \cap Values = {}
ASSUME KillsAssumption == MaxKills \in Nat

VARIABLES
  secret,   \* secret[n]: CURRENT content in Vault, or NoValue
  active,   \* active[n]: the lifecycle state of n is ACTIVE
  pc,       \* pc[c]: next CLI process of client c
  kind,     \* kind[c]: "put" or "get"
  name,     \* name[c]: the secret c works on
  val,      \* val[c]: content to put, or content read
  life,     \* life[c]: processes of slot c killed so far
  payload   \* the JSON payload files in the runtime tmpfs

vars == <<secret, active, pc, kind, name, val, life, payload>>
service == <<secret, active>>
args == <<kind, name>>
tmpfs == <<life, payload>>

Contents == Values \cup {NoValue}

\* mkstemp never reuses a name: a file belongs to one process of its slot.
PayloadFile == [owner : Clients, life : 0 .. MaxKills, name : Names, val : Contents]

PayloadOf(c) == [owner |-> c, life |-> life[c], name |-> name[c], val |-> val[c]]

PC == {"idle", "list", "compare", "bundle", "create", "update", "wait", "return"}

TypeOK ==
  /\ secret \in [Names -> Contents]
  /\ active \in [Names -> BOOLEAN]
  /\ pc \in [Clients -> PC]
  /\ kind \in [Clients -> {"put", "get"}]
  /\ name \in [Clients -> Names]
  /\ val \in [Clients -> Contents]
  /\ life \in [Clients -> 0 .. MaxKills]
  /\ payload \in SUBSET PayloadFile

Init ==
  /\ secret = [n \in Names |-> NoValue]
  /\ active = [n \in Names |-> TRUE]
  /\ pc = [c \in Clients |-> "idle"]
  /\ kind \in [Clients -> {"get"}]
  /\ name \in [Clients -> Names]
  /\ val = [c \in Clients |-> NoValue]
  /\ life = [c \in Clients |-> 0]
  /\ payload = {}

Goto(c, label) == pc' = [pc EXCEPT ![c] = label]

\* The call ends, by a return or not, and its local variables with it.
Leave(c) ==
  /\ Goto(c, "idle")
  /\ kind' = [kind EXCEPT ![c] = "get"]
  /\ val' = [val EXCEPT ![c] = NoValue]
  /\ UNCHANGED name

-----------------------------------------------------------------------------
(* Calls *)

\* Mutant of StartPut: the size check comes too late.
StartPutUnchecked(c, n, v) ==
  /\ pc[c] = "idle"
  /\ kind' = [kind EXCEPT ![c] = "put"]
  /\ name' = [name EXCEPT ![c] = n]
  /\ val' = [val EXCEPT ![c] = v]
  /\ Goto(c, "list")
  /\ UNCHANGED <<service, tmpfs>>

\* put checks the size before any CLI process: an oversized content raises
\* and no step of the client follows.
StartPut(c, n, v) ==
  /\ pc[c] = "idle"
  /\ v \notin Oversized
  /\ kind' = [kind EXCEPT ![c] = "put"]
  /\ name' = [name EXCEPT ![c] = n]
  /\ val' = [val EXCEPT ![c] = v]
  /\ Goto(c, "list")
  /\ UNCHANGED <<service, tmpfs>>

StartGet(c, n) ==
  /\ pc[c] = "idle"
  /\ kind' = [kind EXCEPT ![c] = "get"]
  /\ name' = [name EXCEPT ![c] = n]
  /\ val' = [val EXCEPT ![c] = NoValue]
  /\ Goto(c, "list")
  /\ UNCHANGED <<service, tmpfs>>

\* _secret_id: one list call decides the branch.  The payload file of the
\* following create is written right before it.
ListAbsent(c) ==
  /\ pc[c] = "list"
  /\ secret[name[c]] = NoValue
  /\ IF kind[c] = "put"
       THEN /\ Goto(c, "create")
            /\ payload' = payload \cup {PayloadOf(c)}
       ELSE /\ Goto(c, "return")
            /\ UNCHANGED payload
  /\ UNCHANGED <<service, args, val, life>>

ListPresent(c) ==
  /\ pc[c] = "list"
  /\ secret[name[c]] # NoValue
  /\ Goto(c, IF kind[c] = "put" THEN "compare" ELSE "bundle")
  /\ UNCHANGED <<service, args, val, tmpfs>>

\* _get_by_name on behalf of get.
ReadBundle(c) ==
  /\ pc[c] = "bundle"
  /\ val' = [val EXCEPT ![c] = secret[name[c]]]
  /\ Goto(c, "return")
  /\ UNCHANGED <<service, args, tmpfs>>

\* Mutant of SkipEqual: an existing secret is taken as up to date.
SkipExisting(c) ==
  /\ pc[c] = "compare"
  /\ Goto(c, "return")
  /\ UNCHANGED <<service, args, val, tmpfs>>

\* _get_by_name on behalf of put: an equal CURRENT value is left alone.
SkipEqual(c) ==
  /\ pc[c] = "compare"
  /\ secret[name[c]] = val[c]
  /\ Goto(c, "return")
  /\ UNCHANGED <<service, args, val, tmpfs>>

CompareDiffers(c) ==
  /\ pc[c] = "compare"
  /\ secret[name[c]] # val[c]
  /\ Goto(c, "update")
  /\ payload' = payload \cup {PayloadOf(c)}
  /\ UNCHANGED <<service, args, val, life>>

\* A new CURRENT version: the service starts writing it.
Publish(c) ==
  /\ secret' = [secret EXCEPT ![name[c]] = val[c]]
  /\ active' = [active EXCEPT ![name[c]] = FALSE]
  /\ Goto(c, "wait")
  /\ UNCHANGED <<args, val, tmpfs>>

CreateSecret(c) ==
  /\ pc[c] = "create"
  /\ secret[name[c]] = NoValue
  /\ Publish(c)

UpdateSecret(c) ==
  /\ pc[c] = "update"
  /\ active[name[c]]
  /\ Publish(c)

\* The CLI polls until ACTIVE; `finally` unlinks the payload file.
SawActive(c) ==
  /\ pc[c] = "wait"
  /\ active[name[c]]
  /\ payload' = payload \ {PayloadOf(c)}
  /\ Goto(c, "return")
  /\ UNCHANGED <<service, args, val, life>>

Return(c) ==
  /\ pc[c] = "return"
  /\ Leave(c)
  /\ UNCHANGED <<service, tmpfs>>

-----------------------------------------------------------------------------
(* Failures *)

\* Mutant of Raise: the payload file outlives a failed CLI process.
RaiseKeepingPayload(c) ==
  /\ pc[c] \notin {"idle", "return"}
  /\ Leave(c)
  /\ UNCHANGED <<service, tmpfs>>

\* A CLI process exits with an error: the service refused a conflicting
\* create or update, the connection failed, or 300 s passed before ACTIVE.
Raise(c) ==
  /\ pc[c] \notin {"idle", "return"}
  /\ Leave(c)
  /\ payload' = payload \ {PayloadOf(c)}
  /\ UNCHANGED <<service, life>>

\* SIGKILL: no `finally` runs, so the payload file stays behind; the next
\* deployment command is a new process.
Kill(c) ==
  /\ pc[c] # "idle"
  /\ life[c] < MaxKills
  /\ life' = [life EXCEPT ![c] = @ + 1]
  /\ Leave(c)
  /\ UNCHANGED <<service, payload>>

\* A reboot, once its kills have ended every process, empties the tmpfs.
Reboot ==
  /\ \A c \in Clients : pc[c] = "idle"
  /\ payload' = {}
  /\ UNCHANGED <<service, pc, args, val, life>>

\* The service finishes writing a version.
Settle(n) ==
  /\ ~active[n]
  /\ active' = [active EXCEPT ![n] = TRUE]
  /\ UNCHANGED <<secret, pc, kind, name, val, tmpfs>>

Step(c) ==
  \/ ListAbsent(c) \/ ListPresent(c) \/ ReadBundle(c)
  \/ SkipEqual(c) \/ CompareDiffers(c)
  \/ CreateSecret(c) \/ UpdateSecret(c) \/ SawActive(c) \/ Return(c)

Next ==
  \/ \E c \in Clients :
       \/ \E n \in Names, v \in Values \cup Oversized : StartPut(c, n, v)
       \/ \E n \in Names : StartGet(c, n)
       \/ Step(c) \/ Raise(c) \/ Kill(c)
  \/ \E n \in Names : Settle(n)
  \/ Reboot

Spec == Init /\ [][Next]_vars

-----------------------------------------------------------------------------
(* Properties *)

\* A call has taken effect once its deciding CLI process has run.
CallOf(c) ==
  IF pc[c] = "idle" THEN [stage |-> "idle"]
  ELSE [stage |-> IF pc[c] \in {"wait", "return"} THEN "applied" ELSE "called",
        kind |-> kind[c], name |-> name[c], val |-> val[c]]

Register == INSTANCE SecretRegister WITH call <- [c \in Clients |-> CallOf(c)]

\* The list-then-act sequences of put and get behave as atomic register
\* operations, however clients interleave and whichever CLI process fails.
ImplementsRegister == Register!Spec

Writes(c) == pc[c] \in {"create", "update", "wait"}

\* A create or update runs over its own payload file, and secret content is in
\* the tmpfs only for the calls that are in one - except for what a SIGKILLed
\* process left there (vault.py:232-233 cannot run), which no later call takes
\* for its own.
PayloadScoped ==
  /\ \A c \in Clients : Writes(c) => PayloadOf(c) \in payload
  /\ \A f \in payload :
       \/ Writes(f.owner) /\ f = PayloadOf(f.owner)
       \/ f.life < life[f.owner]

=============================================================================
