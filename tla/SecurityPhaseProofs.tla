-------------------------- MODULE SecurityPhaseProofs --------------------------
(***************************************************************************)
(* Theorems about what a command of SecurityPersistence may rely on in     *)
(* each of its phases, for commands that run one at a time: the restore    *)
(* leaves no hole, the staging tree is the plaintext of the durable files, *)
(* and plaintext at rest goes back to an init that stopped.                *)
(***************************************************************************)
EXTENDS SecurityPersistenceProofs

-----------------------------------------------------------------------------
(* The inductive invariant *)

\* The labels a command passes while it does o.
Labels(o) ==
  CASE o = "none" -> {"idle"}
    [] o \in {"init", "unscoped"} ->
         {"master", "mint", "list", "exists", "fetch", "cache", "scan",
          "unseal", "unsealed", "bootstrap"}
    [] o = "finalize" -> {"master", "mint", "scan", "seal", "sealput", "sealwrite"}
    [] o = "deploy" ->
         {"master", "mint", "list", "exists", "fetch", "cache", "clear", "scan",
          "stage", "staged", "up"}
    [] OTHER -> {"importput", "master", "mint", "importwrite"}

\* After the listing every secret in Vault is a file or still to be fetched,
\* after the restore it is a file, in the bootstrap it is one or about to be
\* written, and from then on it is a file again.
Restores(c) ==
  /\ pc[c] \in {"exists", "fetch", "cache", "bootstrap"} =>
       \A f \in Files : vault[f] # 0 => f \in OnDisk \cup todo[c]
  /\ \/ pc[c] \in {"clear", "unseal", "unsealed", "stage", "staged", "up"}
     \/ pc[c] = "scan" \/ op[c] = "finalize"
     => \A f \in Files : vault[f] # 0 => f \in OnDisk

\* The staging tree is empty after it was cleared, and is right for every
\* file the staging loop has passed or does not visit.
Stages(c) ==
  /\ pc[c] = "scan" /\ op[c] = "deploy" => \A f \in Files : staging[f] = 0
  /\ pc[c] \in {"stage", "staged"} =>
       \A f \in Files \ todo[c] : staging[f] = disk[f].val
  /\ pc[c] = "staged" => \A f \in Files : IsFirst(f, todo[c]) => buf[c] = disk[f].val
  /\ pc[c] = "up" => \A f \in Files : staging[f] = disk[f].val

\* A finalize leaves no private plaintext behind the file it is at, and every
\* file ahead of it is there.
Seals(c) ==
  pc[c] \in {"seal", "sealput", "sealwrite"} =>
    /\ \A f \in Private : disk[f].form = "plain" => f \in todo[c]
    /\ todo[c] \subseteq OnDisk

\* What command c has established at the label it is at.
Phase(c) == pc[c] \in Labels(op[c]) /\ Restores(c) /\ Stages(c) /\ Seals(c)

\* A missing file has no value, and private plaintext goes back to an init.
AbsentIsEmpty == \A f \in Files : disk[f].form = "absent" => disk[f].val = 0

InitRuns == \E c \in Commands : op[c] \in InitOps

ExposureExplained ==
  \A f \in Private : disk[f].form = "plain" => interrupted \/ InitRuns

Alone == \A c, d \in Commands : pc[c] # "idle" /\ pc[d] # "idle" => c = d

PhaseInv ==
  /\ AbsentIsEmpty
  /\ ExposureExplained
  /\ Alone
  /\ \A c \in Commands : Phase(c)

-----------------------------------------------------------------------------
(* One step *)

\* A step of the one running command: the others are idle and stay idle, so
\* only its own phase is left to show, and that it explains its plaintext.
LEMMA CommandStep ==
  ASSUME TypeOK, PhaseInv, NEW c \in Commands,
         pc[c] # "idle" \/ AllIdle,
         \A d \in Commands \ {c} : pc'[d] = pc[d] /\ op'[d] = op[d],
         Phase(c)', AbsentIsEmpty',
         \A f \in Private :
           disk'[f].form = "plain" => disk[f].form = "plain" \/ op'[c] \in InitOps,
         interrupted => interrupted',
         op[c] \in InitOps => interrupted' \/ op'[c] \in InitOps
  PROVE  PhaseInv'
<1>1. \A d \in Commands \ {c} : pc[d] = "idle" /\ pc'[d] = "idle"
  BY DEF PhaseInv, Alone, AllIdle
<1>2. \A d \in Commands \ {c} : op[d] = "none" /\ op'[d] = "none"
  BY <1>1 DEF PhaseInv, Phase, Labels, TypeOK, Op
<1>3. \A d \in Commands \ {c} : Phase(d)'
  BY <1>1, <1>2 DEF Phase, Labels, Restores, Stages, Seals
<1>4. InitRuns => interrupted' \/ InitRuns'
  BY <1>2 DEF InitRuns, InitOps
<1>5. ExposureExplained'
  BY <1>4 DEF PhaseInv, ExposureExplained, InitRuns
<1>6. Alone'
  BY <1>1 DEF Alone
<1>7. QED
  BY <1>3, <1>5, <1>6 DEF PhaseInv

\* The same for a step that leaves the durable files, the command's operation
\* and the history alone.
LEMMA QuietStep ==
  ASSUME TypeOK, PhaseInv, NEW c \in Commands, pc[c] # "idle",
         \A d \in Commands \ {c} : pc'[d] = pc[d],
         UNCHANGED <<disk, op, interrupted>>, Phase(c)'
  PROVE  PhaseInv'
<1>1. AbsentIsEmpty'
  BY DEF PhaseInv, AbsentIsEmpty
<1>2. QED
  BY <1>1, CommandStep

\* With one command at a time every step keeps PhaseInv.
LEMMA PhaseStep ==
  ASSUME Overlap = "never", TypeOK, TypeOK', PhaseInv, [Next]_vars
  PROVE  PhaseInv'
<1> USE FilesAssumption DEF stores, locals, history
<1>1. ASSUME NEW c \in Commands,
             \/ StartInit(c) \/ StartUnscopedInit(c) \/ StartDeploy(c)
             \/ \E f \in Private : StartImport(c, f)
      PROVE PhaseInv'
  <2>1. /\ AllIdle /\ UNCHANGED <<disk, interrupted>>
        /\ pc' = [pc EXCEPT ![c] = pc'[c]] /\ op' = [op EXCEPT ![c] = op'[c]]
        /\ \/ pc'[c] = "master" /\ op'[c] \in {"init", "unscoped", "deploy"}
           \/ pc'[c] = "importput" /\ op'[c] = "import"
    BY <1>1 DEF StartInit, StartUnscopedInit, StartDeploy, StartImport, Start,
                MayStart, Goto, TypeOK
  <2>2. op[c] = "none"
    BY <2>1 DEF AllIdle, PhaseInv, Phase, Labels, TypeOK, Op
  <2>3. Phase(c)'
    BY <2>1 DEF Phase, Labels, Restores, Stages, Seals
  <2>4. QED
    BY <2>1, <2>2, <2>3, CommandStep DEF TypeOK, InitOps, PhaseInv, AbsentIsEmpty
<1>2. ASSUME NEW c \in Commands, CipherStep(c)
      PROVE PhaseInv'
  <2>1. /\ pc[c] \in {"master", "mint"}
        /\ pc' = [pc EXCEPT ![c] = pc'[c]]
        /\ pc'[c] \in {"mint", AfterCipher(op[c])}
        /\ UNCHANGED <<disk, op, interrupted>>
    BY <1>2 DEF CipherStep, ReadMaster, MintMaster, Goto, TypeOK
  <2>2. Phase(c)
    BY DEF PhaseInv
  <2>3. Phase(c)'
    <3>1. UNCHANGED vault
      BY <1>2 DEF CipherStep, ReadMaster, MintMaster
    <3>2. pc'[c] \in Labels(op'[c])
      BY <2>1, <2>2 DEF Phase, Labels, AfterCipher, TypeOK, Op
    <3>3. pc'[c] = "scan" => op[c] = "finalize"
      BY <2>1, <2>2 DEF Phase, Labels, AfterCipher, TypeOK, Op
    <3>4. pc'[c] \in {"mint", "list", "scan", "importwrite"}
      BY <2>1, <2>2 DEF AfterCipher
    <3>5. Restores(c)' /\ Stages(c)' /\ Seals(c)'
      BY <2>1, <2>2, <3>1, <3>3, <3>4 DEF Phase, Restores, Stages, Seals, OnDisk
    <3>6. QED
      BY <3>2, <3>5 DEF Phase
  <2>4. QED
    BY <2>1, <2>3, QuietStep DEF TypeOK
<1>3. ASSUME NEW c \in Commands,
             \/ ListNames(c) \/ RestoreDone(c)
             \/ \E f \in Files : CheckExists(c, f) \/ FetchSecret(c, f)
      PROVE PhaseInv'
  <2>1. /\ pc[c] \in {"list", "exists", "fetch"}
        /\ pc' = [pc EXCEPT ![c] = pc'[c]]
        /\ UNCHANGED <<vault, disk, staging, op, interrupted>>
    BY <1>3 DEF ListNames, RestoreDone, CheckExists, FetchSecret, Goto, TypeOK
  <2>2. Phase(c)
    BY DEF PhaseInv
  <2>3. pc'[c] \in Labels(op'[c]) /\ Stages(c)' /\ Seals(c)'
    BY <1>3, <2>1, <2>2 DEF ListNames, RestoreDone, CheckExists, FetchSecret, Goto,
         Phase, Labels, Stages, Seals, TypeOK, Op
  <2>4. Restores(c)'
    BY <1>3, <2>1, <2>2 DEF ListNames, RestoreDone, CheckExists, FetchSecret, Goto,
         Phase, Labels, Restores, OnDisk, TypeOK
  <2>5. QED
    BY <2>1, <2>3, <2>4, QuietStep DEF TypeOK, Phase
<1>4. ASSUME NEW c \in Commands, NEW f \in Files, WriteCache(c, f)
      PROVE PhaseInv'
  <2>1. /\ pc[c] = "cache" /\ pc' = [pc EXCEPT ![c] = "exists"]
        /\ todo' = [todo EXCEPT ![c] = todo[c] \ {f}]
        /\ disk' = [disk EXCEPT ![f] = Cached(f, key[c], buf[c])]
        /\ UNCHANGED <<vault, op, interrupted>>
    BY <1>4 DEF WriteCache, Goto
  <2>2. disk'[f].form = IF f \in Private THEN "sealed" ELSE "plain"
    BY <2>1 DEF TypeOK, Cached, Sealed, Plain
  <2>3. Phase(c)
    BY DEF PhaseInv
  <2>4. Phase(c)'
    BY <2>1, <2>2, <2>3 DEF Phase, Labels, Restores, Stages, Seals, OnDisk, TypeOK, Op
  <2>5. AbsentIsEmpty'
    BY <2>1, <2>2 DEF PhaseInv, AbsentIsEmpty, TypeOK
  <2>6. \A g \in Private : disk'[g].form = "plain" => disk[g].form = "plain"
    BY <2>1, <2>2 DEF TypeOK
  <2>7. QED
    BY <2>1, <2>4, <2>5, <2>6, CommandStep DEF TypeOK
<1>5. ASSUME NEW c \in Commands, Scan(c)
      PROVE PhaseInv'
  <2>1. /\ pc[c] = "scan" /\ pc' = [pc EXCEPT ![c] = LoopOf(op[c])]
        /\ todo' = [todo EXCEPT ![c] = OnDisk]
        /\ UNCHANGED <<vault, disk, staging, op, interrupted>>
    BY <1>5 DEF Scan, Goto
  <2>2. Phase(c)
    BY DEF PhaseInv
  <2>3. \A f \in Files \ OnDisk : disk[f].val = 0
    BY DEF PhaseInv, AbsentIsEmpty, OnDisk
  <2>4. Stages(c)'
    BY <2>1, <2>2, <2>3 DEF Phase, Labels, LoopOf, Stages, TypeOK
  <2>5. Phase(c)'
    BY <2>1, <2>2, <2>4 DEF Phase, Labels, LoopOf, Restores, Seals, OnDisk, TypeOK, Op
  <2>6. QED
    BY <2>1, <2>5, QuietStep DEF TypeOK
<1>6. ASSUME NEW c \in Commands,
             UnsealDone(c) \/ \E f \in Files : SkipPlain(c, f) \/ ReadSealed(c, f)
      PROVE PhaseInv'
  <2>1. /\ pc[c] = "unseal" /\ pc' = [pc EXCEPT ![c] = pc'[c]]
        /\ pc'[c] \in {"unseal", "unsealed", "bootstrap"}
        /\ UNCHANGED <<vault, disk, op, interrupted>>
    BY <1>6 DEF UnsealDone, SkipPlain, ReadSealed, ReadFile, Goto, TypeOK
  <2>2. Phase(c)
    BY DEF PhaseInv
  <2>3. Phase(c)'
    BY <2>1, <2>2 DEF Phase, Labels, Restores, Stages, Seals, OnDisk, TypeOK, Op
  <2>4. QED
    BY <2>1, <2>3, QuietStep DEF TypeOK
<1>7. ASSUME NEW c \in Commands, NEW f \in Files, WriteUnsealed(c, f)
      PROVE PhaseInv'
  <2>1. /\ pc[c] = "unsealed" /\ pc' = [pc EXCEPT ![c] = "unseal"]
        /\ disk' = [disk EXCEPT ![f] = Plain(buf[c])]
        /\ UNCHANGED <<vault, op, interrupted>>
    BY <1>7 DEF WriteUnsealed, Goto
  <2>2. Phase(c) /\ op[c] \in InitOps
    BY <2>1 DEF PhaseInv, Phase, Labels, InitOps, TypeOK, Op
  <2>3. disk'[f].form = "plain"
    BY <2>1 DEF TypeOK, Plain
  <2>4. Phase(c)'
    BY <2>1, <2>2, <2>3 DEF Phase, Labels, Restores, Stages, Seals, OnDisk, TypeOK, Op
  <2>5. AbsentIsEmpty'
    BY <2>1, <2>3 DEF PhaseInv, AbsentIsEmpty, TypeOK
  <2>6. QED
    BY <2>1, <2>2, <2>4, <2>5, CommandStep DEF TypeOK
<1>8. ASSUME NEW c \in Commands, NEW f \in Files,
             BootstrapUnlink(c, f) \/ BootstrapWrite(c, f)
      PROVE PhaseInv'
  <2>1. /\ pc[c] = "bootstrap" /\ f \in todo[c]
        /\ UNCHANGED <<vault, pc, op, interrupted>>
    BY <1>8 DEF BootstrapUnlink, BootstrapWrite
  <2>2. Phase(c) /\ op[c] \in InitOps
    BY <2>1 DEF PhaseInv, Phase, Labels, InitOps, TypeOK, Op
  <2>3. \/ /\ disk' = [disk EXCEPT ![f] = Absent] /\ todo' = todo
        \/ /\ disk' = [disk EXCEPT ![f] = Plain(born[f] + 1)]
           /\ todo' = [todo EXCEPT ![c] = todo[c] \ {f}]
    BY <1>8 DEF BootstrapUnlink, BootstrapWrite
  <2>4. \/ disk'[f].form = "absent" /\ disk'[f].val = 0 /\ f \in todo'[c]
        \/ disk'[f].form = "plain"
    BY <2>1, <2>3 DEF TypeOK, Absent, Plain
  <2>5. \A g \in Files \ {f} : disk'[g] = disk[g] /\ (g \in todo[c] => g \in todo'[c])
    BY <2>3 DEF TypeOK
  <2>6. Restores(c)'
    BY <2>1, <2>2, <2>4, <2>5 DEF Phase, Labels, Restores, OnDisk, TypeOK, Op
  <2>7. Phase(c)'
    BY <2>1, <2>2, <2>6 DEF Phase, Labels, Stages, Seals, TypeOK
  <2>8. AbsentIsEmpty'
    BY <2>4, <2>5 DEF PhaseInv, AbsentIsEmpty
  <2>9. QED
    BY <2>1, <2>2, <2>7, <2>8, CommandStep DEF TypeOK
<1>9. ASSUME NEW c \in Commands, BootstrapApplicable(c)
      PROVE PhaseInv'
  <2>1. /\ pc[c] = "bootstrap" /\ op[c] = "init" /\ todo[c] = {}
        /\ op' = [op EXCEPT ![c] = "finalize"]
        /\ pc' = [pc EXCEPT ![c] = "master"]
        /\ UNCHANGED <<vault, disk, interrupted>>
    BY <1>9 DEF BootstrapApplicable, Goto
  <2>2. Phase(c)
    BY DEF PhaseInv
  <2>3. Phase(c)'
    BY <2>1, <2>2 DEF Phase, Labels, Restores, Stages, Seals, OnDisk, TypeOK
  <2>4. QED
    BY <2>1, <2>3, CommandStep DEF TypeOK, InitOps, PhaseInv, AbsentIsEmpty
<1>10. ASSUME NEW c \in Commands, NEW f \in Files, ReadForSeal(c, f) \/ PutSecret(c, f)
       PROVE PhaseInv'
  <2>1. /\ pc[c] \in {"seal", "sealput"} /\ pc' = [pc EXCEPT ![c] = pc'[c]]
        /\ pc'[c] \in {"sealput", "sealwrite"}
        /\ UNCHANGED <<disk, op, todo, interrupted>>
    BY <1>10 DEF ReadForSeal, ReadFile, PutSecret, Goto, TypeOK
  <2>2. Phase(c)
    BY DEF PhaseInv
  <2>3. f \in OnDisk /\ (vault' = vault \/ vault' = [vault EXCEPT ![f] = buf[c]])
    BY <1>10, <2>2 DEF ReadForSeal, ReadFile, Opens, PutSecret, Phase, Seals, IsFirst
  <2>4. op[c] = "finalize" /\ pc'[c] \in Labels(op'[c])
    BY <2>1, <2>2 DEF Phase, Labels, TypeOK, Op
  <2>5. Restores(c)' /\ Stages(c)' /\ Seals(c)'
    BY <2>1, <2>2, <2>3, <2>4 DEF Phase, Restores, Stages, Seals, OnDisk, TypeOK
  <2>6. QED
    BY <2>1, <2>4, <2>5, QuietStep DEF TypeOK, Phase
<1>11. ASSUME NEW c \in Commands, NEW f \in Files, WriteSealed(c, f)
       PROVE PhaseInv'
  <2>1. /\ pc[c] = "sealwrite" /\ pc' = [pc EXCEPT ![c] = "seal"]
        /\ todo' = [todo EXCEPT ![c] = todo[c] \ {f}]
        /\ disk' = [disk EXCEPT ![f] = Cached(f, key[c], buf[c])]
        /\ UNCHANGED <<vault, op, interrupted>>
    BY <1>11 DEF WriteSealed, Goto
  <2>2. disk'[f].form = IF f \in Private THEN "sealed" ELSE "plain"
    BY <2>1 DEF TypeOK, Cached, Sealed, Plain
  <2>3. Phase(c)
    BY DEF PhaseInv
  <2>4. Phase(c)'
    <3>1. pc'[c] \in Labels(op'[c]) /\ op[c] = "finalize"
      BY <2>1, <2>3 DEF Phase, Labels, TypeOK, Op
    <3>2. \A g \in Files : g \in OnDisk => g \in OnDisk'
      BY <2>1, <2>2 DEF OnDisk, TypeOK
    <3>3. Restores(c)' /\ Stages(c)'
      BY <2>1, <2>3, <3>1, <3>2 DEF Phase, Restores, Stages, TypeOK
    <3>4. Seals(c)'
      BY <2>1, <2>2, <2>3, <3>2 DEF Phase, Seals, TypeOK
    <3>5. QED
      BY <3>1, <3>3, <3>4 DEF Phase
  <2>5. AbsentIsEmpty'
    BY <2>1, <2>2 DEF PhaseInv, AbsentIsEmpty, TypeOK
  <2>6. \A g \in Private : disk'[g].form = "plain" => disk[g].form = "plain"
    BY <2>1, <2>2 DEF TypeOK
  <2>7. QED
    BY <2>1, <2>4, <2>5, <2>6, CommandStep DEF TypeOK
<1>12. ASSUME NEW c \in Commands, SealDone(c)
       PROVE PhaseInv'
  <2>1. /\ pc[c] = "seal" /\ todo[c] = {}
        /\ pc' = [pc EXCEPT ![c] = "idle"] /\ op' = [op EXCEPT ![c] = "none"]
        /\ UNCHANGED disk
    BY <1>12 DEF SealDone, Exit, Goto
  <2>2. Phase(c)
    BY DEF PhaseInv
  <2>3. ExposureExplained'
    BY <2>1, <2>2 DEF Phase, Seals, ExposureExplained
  <2>4. \A d \in Commands : pc'[d] = "idle" /\ op'[d] = "none"
    BY <2>1 DEF PhaseInv, Alone, Phase, Labels, TypeOK, Op
  <2>5. QED
    BY <2>1, <2>3, <2>4 DEF PhaseInv, AbsentIsEmpty, Alone, Phase, Labels, Restores,
                            Stages, Seals
<1>13. ASSUME NEW c \in Commands,
              \/ ClearStaging(c) \/ StageDone(c)
              \/ \E f \in Files : ReadForStage(c, f) \/ WriteStaged(c, f)
       PROVE PhaseInv'
  <2>1. /\ pc[c] \in {"clear", "stage", "staged"} /\ pc' = [pc EXCEPT ![c] = pc'[c]]
        /\ UNCHANGED <<vault, disk, op, interrupted>>
        /\ pc[c] = "clear" => pc'[c] = "scan" /\ \A f \in Files : staging'[f] = 0
        /\ pc[c] # "clear" => pc'[c] \in {"stage", "staged", "up"}
    BY <1>13 DEF ClearStaging, StageDone, ReadForStage, ReadFile, WriteStaged, Goto, TypeOK
  <2>2. Phase(c)
    BY DEF PhaseInv
  <2>3. pc'[c] \in Labels(op'[c]) /\ Restores(c)' /\ Seals(c)'
    BY <2>1, <2>2 DEF Phase, Labels, Restores, Seals, OnDisk, TypeOK, Op
  <2>4. Stages(c)'
    <3>1. CASE pc[c] = "clear"
      BY <2>1, <3>1 DEF Stages
    <3>2. CASE StageDone(c)
      BY <2>1, <2>2, <3>2 DEF StageDone, Goto, Phase, Stages, TypeOK
    <3>3. ASSUME NEW f \in Files, ReadForStage(c, f)
          PROVE Stages(c)'
      BY <2>1, <2>2, <3>3, FirstIsUnique DEF ReadForStage, ReadFile, Goto, Phase, Stages,
           TypeOK
    <3>4. ASSUME NEW f \in Files, WriteStaged(c, f)
          PROVE Stages(c)'
      BY <2>1, <2>2, <3>4 DEF WriteStaged, Goto, Phase, Stages, TypeOK
    <3>5. QED
      BY <1>13, <3>1, <3>2, <3>3, <3>4 DEF ClearStaging
  <2>5. QED
    BY <2>1, <2>3, <2>4, QuietStep DEF TypeOK, Phase
<1>14. ASSUME NEW c \in Commands, NEW f \in Private, ImportPut(c, f)
       PROVE PhaseInv'
  <2>1. /\ pc[c] = "importput" /\ pc' = [pc EXCEPT ![c] = "master"]
        /\ UNCHANGED <<disk, op, interrupted>>
    BY <1>14 DEF ImportPut, Goto
  <2>2. Phase(c)
    BY DEF PhaseInv
  <2>3. Phase(c)'
    BY <2>1, <2>2 DEF Phase, Labels, Restores, Stages, Seals, TypeOK, Op
  <2>4. QED
    BY <2>1, <2>3, QuietStep DEF TypeOK
<1>15. ASSUME NEW c \in Commands, NEW f \in Private, ImportWrite(c, f)
       PROVE PhaseInv'
  <2>1. /\ pc[c] = "importwrite" /\ UNCHANGED interrupted
        /\ pc' = [pc EXCEPT ![c] = "idle"] /\ op' = [op EXCEPT ![c] = "none"]
        /\ disk' = [disk EXCEPT ![f] = Sealed(key[c], buf[c])]
    BY <1>15 DEF ImportWrite, Exit, Goto
  <2>2. op[c] = "import"
    BY <2>1 DEF PhaseInv, Phase, Labels, TypeOK, Op
  <2>3. disk'[f].form = "sealed"
    BY <2>1 DEF TypeOK, Sealed
  <2>4. Phase(c)'
    BY <2>1 DEF Phase, Labels, Restores, Stages, Seals, TypeOK
  <2>5. AbsentIsEmpty' /\ \A g \in Private : disk'[g].form = "plain" => disk[g].form = "plain"
    BY <2>1, <2>3 DEF PhaseInv, AbsentIsEmpty, TypeOK
  <2>6. QED
    BY <2>1, <2>2, <2>4, <2>5, CommandStep DEF TypeOK, InitOps
<1>16. ASSUME NEW c \in Commands,
              \/ BootstrapNotApplicable(c) \/ ComposeUp(c) \/ Abort(c)
       PROVE PhaseInv'
  <2>1. /\ pc[c] # "idle" /\ UNCHANGED disk
        /\ pc' = [pc EXCEPT ![c] = "idle"] /\ op' = [op EXCEPT ![c] = "none"]
    BY <1>16 DEF BootstrapNotApplicable, ComposeUp, Abort, Exit, Goto
  <2>2. op[c] \in InitOps => interrupted'
    BY <1>16, <2>1 DEF BootstrapNotApplicable, ComposeUp, Abort,
         PhaseInv, Phase, Labels, InitOps, TypeOK, Op
  <2>3. interrupted => interrupted'
    BY <1>16 DEF BootstrapNotApplicable, ComposeUp, Abort
  <2>4. Phase(c)'
    BY <2>1 DEF Phase, Labels, Restores, Stages, Seals, TypeOK
  <2>5. QED
    BY <2>1, <2>2, <2>3, <2>4, CommandStep DEF TypeOK, PhaseInv, AbsentIsEmpty
<1>17. CASE PowerLoss \/ Rebuild
  <2>1. \A c \in Commands : pc'[c] = "idle" /\ op'[c] = "none"
    BY <1>17 DEF PowerLoss, Rebuild, AllExit
  <2>2. Alone' /\ \A c \in Commands : Phase(c)'
    BY <2>1 DEF Alone, Phase, Labels, Restores, Stages, Seals
  <2>3. AbsentIsEmpty'
    BY <1>17 DEF PowerLoss, Rebuild, PhaseInv, AbsentIsEmpty, Absent
  <2>4. ExposureExplained'
    <3>1. CASE PowerLoss
      <4>1. disk' = disk /\ (interrupted \/ InitRuns => interrupted')
        BY <3>1 DEF PowerLoss, InitRuns
      <4>2. QED
        BY <4>1 DEF PhaseInv, ExposureExplained
    <3>2. CASE Rebuild
      BY <3>2 DEF Rebuild, ExposureExplained, Absent
    <3>3. QED
      BY <1>17, <3>1, <3>2
  <2>5. QED
    BY <2>2, <2>3, <2>4 DEF PhaseInv
<1>18. ASSUME NEW D \in SUBSET Files, Destroy(D)
       PROVE PhaseInv'
  <2>1. /\ AllIdle /\ UNCHANGED <<pc, op, interrupted>>
        /\ disk' = [f \in Files |-> IF f \in D THEN Absent ELSE disk[f]]
    BY <1>18 DEF Destroy, MayStart
  <2>2. \A c \in Commands : Phase(c)'
    BY <2>1 DEF PhaseInv, AllIdle, Phase, Labels, Restores, Stages, Seals
  <2>3. AbsentIsEmpty' /\ ExposureExplained' /\ Alone'
    BY <2>1 DEF PhaseInv, AbsentIsEmpty, ExposureExplained, InitRuns, Alone, Absent, TypeOK
  <2>4. QED
    BY <2>2, <2>3 DEF PhaseInv
<1>19. CASE UNCHANGED vars
  BY <1>19 DEF vars, PhaseInv, AbsentIsEmpty, ExposureExplained, InitRuns, Alone, Phase,
               Restores, Stages, Seals, OnDisk
<1>20. QED
  BY <1>1, <1>2, <1>3, <1>4, <1>5, <1>6, <1>7, <1>8, <1>9, <1>10, <1>11, <1>12,
     <1>13, <1>14, <1>15, <1>16, <1>17, <1>18, <1>19
  DEF Next, Run, RestoreStep, UnsealStep, BootstrapStep, SealStep, StageStep, ImportStep

\* PhaseInv is an invariant when commands run one at a time.
LEMMA PhaseInvariance ==
  ASSUME Overlap = "never"
  PROVE  Spec => [](TypeOK /\ PhaseInv)
<1>1. Init => PhaseInv
  BY FilesAssumption DEF Init, PhaseInv, AbsentIsEmpty, ExposureExplained, Alone, Phase,
       Labels, Restores, Stages, Seals, Absent
<1>2. TypeOK /\ TypeOK' /\ PhaseInv /\ [Next]_vars => PhaseInv'
  BY PhaseStep
<1>3. QED
  BY <1>1, <1>2, TypeCorrect, PTL DEF Spec

-----------------------------------------------------------------------------
(* The theorems *)

\* With one command at a time, whatever Vault holds is a durable file from the
\* restore of an init or a deploy to its end, but for what its bootstrap is
\* about to replace.
THEOREM RestoreLeavesNoHole ==
  ASSUME Overlap = "never"
  PROVE  Spec => []RestoreComplete
<1>1. TypeOK /\ PhaseInv => RestoreComplete
  BY DEF PhaseInv, Phase, Labels, Restores, RestoreComplete, TypeOK, Op
<1>2. QED
  BY <1>1, PhaseInvariance, PTL

\* With one command at a time Compose starts over a staging tree that is the
\* plaintext of the durable files, no more and no less.
THEOREM StagedIsCurrent ==
  ASSUME Overlap = "never"
  PROVE  Spec => []StagingFaithful
<1>1. TypeOK /\ PhaseInv => StagingFaithful
  BY DEF PhaseInv, Phase, Stages, StagingFaithful, TypeOK
<1>2. QED
  BY <1>1, PhaseInvariance, PTL

\* With one command at a time private plaintext outlives the commands only
\* after an init that stopped before its finalize completed.
THEOREM ExposureIsExplained ==
  ASSUME Overlap = "never"
  PROVE  Spec => []ExposureOnlyWhenInterrupted
<1>1. TypeOK /\ PhaseInv => ExposureOnlyWhenInterrupted
  BY DEF PhaseInv, ExposureExplained, InitRuns, Phase, Labels, InitOps, AllIdle, Exposed,
         ExposureOnlyWhenInterrupted, TypeOK, Op
<1>2. QED
  BY <1>1, PhaseInvariance, PTL

==============================================================================
