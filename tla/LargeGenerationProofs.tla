------------------------- MODULE LargeGenerationProofs -------------------------
(***************************************************************************)
(* Proofs about LargeGeneration, for every plan, order of files, number of *)
(* agents and bound: the types, that a gate takes back no repair, that a   *)
(* schedule forgets no file, that a file is written with the files it uses *)
(* in sight, that what failed is tried again when a job is resumed, and    *)
(* that a run always has a step to take.                                   *)
(***************************************************************************)
EXTENDS LargeGeneration, FiniteSetTheorems, WellFoundedInduction, TLAPS

\* A slot that works on a file, or is about to store it, has one.
FileInHand ==
    \A r \in Runs, a \in Agents :
        agent[r][a].st \in {"gate", "store"} => agent[r][a].file \in Files

\* A slot that is free, or whose task has ended, has nothing left to do.
RestingIsIdle ==
    \A r \in Runs, a \in Agents :
        agent[r][a].st \in {"free", "ended"} => agent[r][a].todo = {}

InHand(r, f) == \E a \in Agents : f \in agent[r][a].todo

Settled(r, f) == f \in mem[r].done \cup mem[r].failed \cup pending[r]

\* Every file of the plan is done, failed, waiting, or in an agent's hands,
\* unless an error stops the run.
Accounted ==
    \A r \in Runs :
        pc[r] = "schedule" /\ ~erred[r] /\ (\A a \in Agents : agent[r][a].st # "raised") =>
            \A f \in mem[r].files : Settled(r, f) \/ InHand(r, f)

TInv == TypeOK /\ FileInHand

IInv == TInv /\ RestingIsIdle /\ Accounted /\ NothingForgotten

-----------------------------------------------------------------------------
(* Types. *)

PCs == {"idle", "plan", "schedule", "deliver"} \cup Ended

Disks == [kind : {"none", "state", "result"}, mem : States]

Histories == {"no", "now", "before"}

LEMMA OvertakenType == ASSUME NEW now, Overtaken(now) PROVE overtaken' \in Histories
BY Zenon DEF Overtaken, Histories

LEMMA NoStateType == NoState \in States
BY GenerationAssumption, SMT DEF NoState, States

LEMMA FreeType == Free \in Tasks
BY NoStateType, SMT DEF Free, Tasks

\* What an agent or a run changes in one field keeps the type.
LEMMA StateUpdate ==
    ASSUME NEW m \in States
    PROVE  /\ \A x \in SUBSET Files : /\ [m EXCEPT !.files = x] \in States
                                    /\ [m EXCEPT !.done = x] \in States
                                    /\ [m EXCEPT !.failed = x] \in States
           /\ \A x \in [Files -> SUBSET Files] : [m EXCEPT !.fixes = x] \in States
           /\ \A x \in [Files -> 0 .. MaxTries] : [m EXCEPT !.tries = x] \in States
BY SMT DEF States

Stages == {"free", "begin", "next", "gate", "store", "save", "write", "ended", "raised"}

LEMMA TaskUpdate ==
    ASSUME NEW t \in Tasks
    PROVE  /\ \A x \in Stages : [t EXCEPT !.st = x] \in Tasks
           /\ \A x \in SUBSET Files : /\ [t EXCEPT !.batch = x] \in Tasks
                                    /\ [t EXCEPT !.todo = x] \in Tasks
                                    /\ [t EXCEPT !.context = x] \in Tasks
           /\ \A x \in Files \cup {None} : [t EXCEPT !.file = x] \in Tasks
           /\ \A x \in States : /\ [t EXCEPT !.view = x] \in Tasks
                              /\ [t EXCEPT !.snap = x] \in Tasks
<1>1. ASSUME NEW x \in Stages PROVE [t EXCEPT !.st = x] \in Tasks
  BY SMT DEF Tasks, Stages
<1>2. ASSUME NEW x \in SUBSET Files PROVE [t EXCEPT !.batch = x] \in Tasks
  BY SMT DEF Tasks
<1>3. ASSUME NEW x \in SUBSET Files PROVE [t EXCEPT !.todo = x] \in Tasks
  BY SMT DEF Tasks
<1>4. ASSUME NEW x \in SUBSET Files PROVE [t EXCEPT !.context = x] \in Tasks
  BY SMT DEF Tasks
<1>5. ASSUME NEW x \in Files \cup {None} PROVE [t EXCEPT !.file = x] \in Tasks
  BY SMT DEF Tasks
<1>6. ASSUME NEW x \in States PROVE [t EXCEPT !.view = x] \in Tasks
  BY SMT DEF Tasks
<1>7. ASSUME NEW x \in States PROVE [t EXCEPT !.snap = x] \in Tasks
  BY SMT DEF Tasks
<1> QED
  BY <1>1, <1>2, <1>3, <1>4, <1>5, <1>6, <1>7

LEMMA ResumedType ==
    ASSUME NEW m \in States, NEW sk \in BOOLEAN
    PROVE  Resumed(m, sk) \in States
<1> DEFINE t == [f \in Files |-> IF f \in m.failed THEN MaxTries - 1 ELSE m.tries[f]]
<1>1. m.tries \in [Files -> 0 .. MaxTries]
  BY SMT DEF States
<1>2. MaxTries - 1 \in 0 .. MaxTries
  BY GenerationAssumption, SMT
<1>3. t \in [Files -> 0 .. MaxTries]
  BY <1>1, <1>2
<1>4. [m EXCEPT !.failed = {}, !.tries = t] \in States
  <2> DEFINE n == [m EXCEPT !.failed = {}]
  <2>1. n \in States
    BY StateUpdate
  <2>2. [n EXCEPT !.tries = t] \in States
    BY <2>1, <1>3, StateUpdate
  <2> QED BY <2>2
<1> QED
  BY <1>4, Zenon DEF Resumed

LEMMA RepairedType ==
    ASSUME NEW m \in States, NEW view \in States, NEW targets \in SUBSET Files, NEW f \in Files
    PROVE  Repaired(m, view, targets, f) \in [Files -> SUBSET Files]
BY SMT DEF Repaired, States

LEMMA TodoType == \A r, m : Todo(r, m) \subseteq m.files
BY SMT DEF Todo

\* What is dispatched was waiting.
LEMMA BatchType ==
    ASSUME NEW r \in Runs, NEW f \in Startable(r), NEW batch \in Batches(r, f)
    PROVE  batch \subseteq pending[r]
<1>1. Ready(r) \subseteq pending[r]
  BY SMT DEF Ready
<1>2. Stuck(r) \subseteq pending[r]
  BY SMT DEF Stuck
<1>3. f \in pending[r]
  BY <1>1, <1>2, SMT DEF Startable
<1> QED
  BY <1>1, <1>3, SMT DEF Batches

LEMMA InitTyped == Init => TInv
<1> SUFFICES ASSUME Init PROVE TInv
  OBVIOUS
<1>1. mem \in [Runs -> States] /\ agent \in [Runs -> [Agents -> Tasks]]
  BY NoStateType, FreeType DEF Init
<1>2. disk \in [kind : {"none", "state", "result"}, mem : States]
  BY NoStateType, SMT DEF Init, Checkpoint
<1>3. TypeOK
  <2>1. 0 \in 0 .. MaxFaults
    BY GenerationAssumption, SMT
  <2>2. pc \in [Runs -> {"idle", "plan", "schedule", "deliver"} \cup Ended]
    BY SMT DEF Init
  <2>3. skip \in [Runs -> BOOLEAN] /\ erred \in [Runs -> BOOLEAN] /\ overtaken \in Histories
    BY Zenon DEF Init, Histories
  <2>4. pending \in [Runs -> SUBSET Files]
    BY SMT DEF Init
  <2> QED
    BY <1>1, <1>2, <2>1, <2>2, <2>3, <2>4, Zenon DEF Init, TypeOK
<1>4. FileInHand
  BY SMT DEF Init, FileInHand, Free
<1> QED
  BY <1>3, <1>4 DEF TInv

LEMMA SavedType ==
    ASSUME NEW m \in States
    PROVE  /\ Checkpoint("state", m) \in Disks
           /\ Checkpoint("result", m) \in Disks
BY SMT DEF Checkpoint, Disks

LEMMA WithPlanType == \A m \in States : WithPlan(m) \in States
<1> SUFFICES ASSUME NEW m \in States PROVE WithPlan(m) \in States
  OBVIOUS
<1>1. m.done \cup Fixed \in SUBSET Files /\ Planned \in SUBSET Files
  BY GenerationAssumption, SMT DEF States
<1> DEFINE d == m.done \cup Fixed
<1>2. d \in SUBSET Files
  BY <1>1
<1> HIDE DEF d
<1>3. [m EXCEPT !.files = Planned, !.done = d] \in States
  <2> DEFINE n == [m EXCEPT !.files = Planned]
  <2>1. n \in States
    BY <1>1, StateUpdate
  <2>2. [m EXCEPT !.files = Planned, !.done = d] = [n EXCEPT !.done = d]
    BY SMT DEF States
  <2> HIDE DEF n
  <2> QED
    BY <1>2, <2>1, <2>2, StateUpdate
<1>4. WithPlan(m) = m \/ WithPlan(m) = [m EXCEPT !.files = Planned, !.done = d]
  BY Zenon DEF WithPlan, d
<1> QED
  BY <1>3, <1>4

LEMMA MainTyped ==
    ASSUME TInv, NEW r \in Runs, MainStep(r) \/ Start(r)
    PROVE  TInv'
<1> USE DEF TInv
<1>t. /\ pc \in [Runs -> PCs] /\ mem \in [Runs -> States] /\ disk \in Disks
      /\ pending \in [Runs -> SUBSET Files] /\ agent \in [Runs -> [Agents -> Tasks]]
  BY SMT DEF TypeOK, PCs, Disks
<1>p. \A st \in PCs : [pc EXCEPT ![r] = st] \in [Runs -> PCs]
  BY <1>t, SMT
<1>m. \A m \in States : [mem EXCEPT ![r] = m] \in [Runs -> States]
  BY <1>t, SMT
<1>s. \A m \in States :
          SaveNow(m) => disk' \in Disks /\ overtaken' \in Histories
  BY SavedType, OvertakenType, Zenon DEF SaveNow
<1>q. \A m \in States :
          [pending EXCEPT ![r] = Todo(r, m)] \in [Runs -> SUBSET Files]
  BY <1>t, TodoType, SMT DEF States
<1>f. \A m \in States, new \in SUBSET Files :
          [m EXCEPT !.files = @ \cup new] \in States /\ [m EXCEPT !.files = new] \in States
  BY SMT DEF States
<1>c. ASSUME pc' \in [Runs -> PCs], mem' \in [Runs -> States], disk' \in Disks,
             pending' \in [Runs -> SUBSET Files], agent' = agent,
             skip' \in [Runs -> BOOLEAN], erred' \in [Runs -> BOOLEAN],
             faults' \in 0 .. MaxFaults, overtaken' \in Histories
      PROVE  TInv'
  BY <1>c, SMT DEF TypeOK, Histories, FileInHand, PCs, Disks
<1>1. CASE Start(r)
  <2>1. PICK sk \in BOOLEAN :
          /\ skip' = [q \in Runs |-> IF q = r THEN sk ELSE Active(q) /\ skip[q]]
          /\ mem' = [q \in Runs |->
                 IF q = r
                 THEN IF disk.kind = "result" THEN disk.mem ELSE Resumed(disk.mem, sk)
                 ELSE IF Active(q) THEN mem[q] ELSE NoState]
    BY <1>1, Zenon DEF Start
  <2>2. Resumed(disk.mem, sk) \in States /\ disk.mem \in States
    BY <1>t, ResumedType, SMT DEF Disks
  <2>3. mem' \in [Runs -> States]
    BY <1>t, <2>1, <2>2, NoStateType
  <2>4. pc' \in [Runs -> PCs]
    BY <1>1, <1>p, SMT DEF Start, PCs, Ended
  <2>5. pending' \in [Runs -> SUBSET Files]
    BY <1>1, <1>t, SMT DEF Start
  <2>6. skip' \in [Runs -> BOOLEAN] /\ erred' \in [Runs -> BOOLEAN]
    BY <1>1, <2>1, Zenon DEF Start, TypeOK, Active
  <2>7. overtaken' \in Histories
    BY <1>1, Zenon DEF Start, Histories
  <2> QED
    BY <1>1, <1>t, <1>c, <2>3, <2>4, <2>5, <2>6, <2>7, Zenon DEF Start, TypeOK
<1>2. CASE Plan(r)
  <2> DEFINE m == WithPlan(mem[r])
  <2>1. m \in States
    BY <1>t, WithPlanType
  <2>2. /\ mem' = [mem EXCEPT ![r] = m] /\ pending' = [pending EXCEPT ![r] = Todo(r, m)]
        /\ IF m = mem[r] THEN UNCHANGED <<disk, overtaken>> ELSE SaveNow(m)
        /\ pc' = [pc EXCEPT ![r] = "schedule"]
    BY <1>2, Zenon DEF Plan
  <2> HIDE DEF m
  <2>3. mem' \in [Runs -> States] /\ pending' \in [Runs -> SUBSET Files]
    BY <2>1, <2>2, <1>m, <1>q
  <2>4. disk' \in Disks /\ overtaken' \in Histories
    BY <2>1, <2>2, <1>s, <1>t, Zenon DEF TypeOK, Histories
  <2>5. pc' \in [Runs -> PCs]
    BY <2>2, <1>p DEF PCs
  <2> QED
    BY <1>2, <1>c, <2>3, <2>4, <2>5, Zenon DEF Plan, TypeOK
<1>3. CASE PlanFails(r)
  <2>1. CASE Break(r)
    <3>1. pc' \in [Runs -> PCs]
      BY <2>1, <1>p DEF Break, PCs, Ended
    <3>2. disk' \in Disks /\ overtaken' \in Histories
      BY <2>1, <1>t, Zenon DEF Break, TypeOK, Histories
    <3>3. faults' \in 0 .. MaxFaults
      BY <1>3, GenerationAssumption, SMT DEF PlanFails, Fault, TypeOK
    <3> QED
      BY <1>3, <1>t, <1>c, <3>1, <3>2, <3>3, Zenon DEF PlanFails, TypeOK
  <2>2. CASE ~Break(r)
    <3>1. PICK end \in {"paused", "failed"} :
              pc' = [pc EXCEPT ![r] = end] /\ SaveNow(mem[r])
      BY <1>3, <2>2, Zenon DEF PlanFails
    <3>2. pc' \in [Runs -> PCs]
      BY <3>1, <1>p DEF PCs, Ended
    <3>3. disk' \in Disks /\ overtaken' \in Histories
      BY <3>1, <1>t, <1>s
    <3>4. faults' \in 0 .. MaxFaults
      BY <1>3, GenerationAssumption, SMT DEF PlanFails, Fault, TypeOK
    <3> QED
      BY <1>3, <1>t, <1>c, <3>2, <3>3, <3>4, Zenon DEF PlanFails, TypeOK
  <2> QED
    BY <2>1, <2>2
<1>4. CASE Dispatch(r)
  <2>1. PICK a \in Agents, f \in Startable(r) : \E batch \in Batches(r, f) :
          /\ pending' = [pending EXCEPT ![r] = @ \ batch]
          /\ agent' = [agent EXCEPT ![r][a] =
                 [Free EXCEPT !.st = "begin", !.batch = batch, !.todo = batch]]
    BY <1>4, Zenon DEF Dispatch
  <2>2. PICK batch \in Batches(r, f) :
          /\ pending' = [pending EXCEPT ![r] = @ \ batch]
          /\ agent' = [agent EXCEPT ![r][a] =
                 [Free EXCEPT !.st = "begin", !.batch = batch, !.todo = batch]]
    BY <2>1
  <2>3. batch \in SUBSET Files
    BY <1>t, BatchType, SMT
  <2> DEFINE task == [Free EXCEPT !.st = "begin", !.batch = batch, !.todo = batch]
  <2>4. task \in Tasks /\ task.st = "begin"
    <3> DEFINE t1 == [Free EXCEPT !.st = "begin"]
               t2 == [t1 EXCEPT !.batch = batch]
    <3>1. t1 \in Tasks
      BY FreeType, TaskUpdate DEF Stages
    <3>2. t2 \in Tasks
      BY <3>1, <2>3, TaskUpdate
    <3>3. [t2 EXCEPT !.todo = batch] \in Tasks
      BY <3>2, <2>3, TaskUpdate
    <3>4. task = [t2 EXCEPT !.todo = batch]
      BY Zenon
    <3>5. task.st = "begin"
      BY SMT DEF Free
    <3> QED
      BY <3>3, <3>4, <3>5
  <2> HIDE DEF task
  <2>5. agent' = [agent EXCEPT ![r][a] = task]
    BY <2>2 DEF task
  <2>6. agent' \in [Runs -> [Agents -> Tasks]]
    BY <2>4, <2>5, <1>t, SMT
  <2>7. FileInHand'
    BY <2>4, <2>5, <1>t, SMT DEF FileInHand
  <2>8. TypeOK'
    BY <1>4, <2>2, <2>6, SMT DEF Dispatch, TypeOK
  <2> QED
    BY <2>7, <2>8
<1>5. CASE Collect(r)
  <2>1. PICK a \in Agents :
          /\ agent' = [agent EXCEPT ![r][a] = Free]
          /\ erred' = [erred EXCEPT ![r] = @ \/ agent[r][a].st = "raised"]
    BY <1>5, Zenon DEF Collect
  <2>2. agent' \in [Runs -> [Agents -> Tasks]]
    BY <2>1, <1>t, FreeType, SMT
  <2>3. erred' \in [Runs -> BOOLEAN]
    BY <2>1, Zenon DEF TypeOK
  <2>4. TypeOK'
    BY <1>5, <2>2, <2>3, Zenon DEF Collect, TypeOK
  <2>5. Free.st = "free"
    BY DEF Free
  <2>6. FileInHand'
    <3> SUFFICES ASSUME NEW q \in Runs, NEW b \in Agents, agent'[q][b].st \in {"gate", "store"}
                 PROVE  agent'[q][b].file \in Files
      BY DEF FileInHand
    <3>1. agent'[q][b] = IF q = r /\ b = a THEN Free ELSE agent[q][b]
      BY <2>1, <1>t, SMT
    <3> QED
      BY <3>1, <2>5, Zenon DEF FileInHand
  <2> QED
    BY <2>4, <2>6
<1>6. CASE PauseOnError(r)
  <2>1. CASE Break(r)
    <3>1. pc' \in [Runs -> PCs]
      BY <2>1, <1>p DEF Break, PCs, Ended
    <3>2. disk' \in Disks /\ overtaken' \in Histories
      BY <2>1, <1>t, Zenon DEF Break, TypeOK, Histories
    <3> QED
      BY <1>6, <1>t, <1>c, <3>1, <3>2, Zenon DEF PauseOnError, TypeOK
  <2>2. CASE ~Break(r)
    <3>1. pc' = [pc EXCEPT ![r] = "paused"] /\ SaveNow(mem[r])
      BY <1>6, <2>2, Zenon DEF PauseOnError
    <3>2. pc' \in [Runs -> PCs]
      BY <3>1, <1>p DEF PCs, Ended
    <3>3. disk' \in Disks /\ overtaken' \in Histories
      BY <3>1, <1>t, <1>s
    <3> QED
      BY <1>6, <1>t, <1>c, <3>2, <3>3, Zenon DEF PauseOnError, TypeOK
  <2> QED
    BY <2>1, <2>2
<1>7. CASE FillMissing(r)
  <2>1. PICK new \in SUBSET (UNION {Imports[f] : f \in mem[r].done} \ mem[r].files) :
          LET m == [mem[r] EXCEPT !.files = @ \cup new] IN
          /\ mem' = [mem EXCEPT ![r] = m]
          /\ pending' = [pending EXCEPT ![r] = Todo(r, m)]
          /\ SaveNow(m)
    BY <1>7, Zenon DEF FillMissing
  <2> DEFINE m == [mem[r] EXCEPT !.files = @ \cup new]
  <2>2. mem[r].done \subseteq Files
    BY <1>t, SMT DEF States
  <2>3. new \subseteq Files
    BY <2>2, GenerationAssumption, SMT
  <2>4. m \in States
    BY <2>3, <1>f, <1>t
  <2> HIDE DEF m
  <2>5. /\ mem' = [mem EXCEPT ![r] = m] /\ pending' = [pending EXCEPT ![r] = Todo(r, m)]
        /\ SaveNow(m)
    BY <2>1 DEF m
  <2>6. mem' \in [Runs -> States] /\ pending' \in [Runs -> SUBSET Files]
    BY <2>4, <2>5, <1>m, <1>q
  <2>7. disk' \in Disks /\ overtaken' \in Histories
    BY <2>4, <2>5, <1>s
  <2> QED
    BY <1>7, <1>t, <1>c, <2>6, <2>7, Zenon DEF FillMissing, TypeOK
<1>8. CASE PauseOnFailed(r)
  <2>1. pc' \in [Runs -> PCs]
    BY <1>8, <1>p, SMT DEF PauseOnFailed, PCs, Ended
  <2> QED
    BY <1>8, <1>t, <1>c, <2>1, Zenon DEF PauseOnFailed, TypeOK, Histories
<1>9. CASE Complete(r)
  <2>1. pc' \in [Runs -> PCs]
    BY <1>9, <1>p, SMT DEF Complete, PCs, Ended
  <2> QED
    BY <1>9, <1>t, <1>c, <2>1, Zenon DEF Complete, TypeOK, Histories
<1>10. CASE Deliver(r)
  <2>1. pc' \in [Runs -> PCs] /\ disk' \in Disks
    BY <1>10, <1>t, <1>p, SavedType, SMT DEF Deliver, PCs, Ended
  <2> QED
    BY <1>10, <1>t, <1>c, <2>1, Zenon DEF Deliver, TypeOK, Histories
<1> QED
  BY <1>1, <1>2, <1>3, <1>4, <1>5, <1>6, <1>7, <1>8, <1>9, <1>10, Zenon DEF MainStep

LEMMA SavingType ==
    ASSUME NEW t \in Tasks, NEW f \in Files
    PROVE  /\ [t EXCEPT !.st = "save", !.file = None, !.todo = @ \ {f}] \in Tasks
           /\ [t EXCEPT !.st = "save", !.file = None, !.todo = @ \ {f}].st = "save"
<1> DEFINE t1 == [t EXCEPT !.st = "save"]
           t2 == [t1 EXCEPT !.file = None]
           t3 == [t2 EXCEPT !.todo = t2.todo \ {f}]
<1>1. t1 \in Tasks
  BY TaskUpdate DEF Stages
<1>2. t2 \in Tasks
  BY <1>1, TaskUpdate
<1>3. t2.todo \in SUBSET Files
  <2> HIDE DEF t2
  <2> QED BY <1>2, SMT DEF Tasks
<1>4. t3 \in Tasks
  BY <1>2, <1>3, TaskUpdate
<1>5. t3.st = "save"
  BY SMT DEF Tasks
<1>6. t3 = [t EXCEPT !.st = "save", !.file = None, !.todo = @ \ {f}]
  BY Zenon
<1> HIDE DEF t3
<1> QED
  BY <1>4, <1>5, <1>6

LEMMA FinishedType ==
    ASSUME NEW m \in States, NEW f \in Files
    PROVE  Finished(m, f) \in States /\ GivenUp(m, f) \in States
<1> DEFINE m1 == [m EXCEPT !.done = m.done \cup {f}]
           m2 == [m1 EXCEPT !.failed = m1.failed \ {f}]
<1>0. m.done \in SUBSET Files /\ m.failed \in SUBSET Files
  BY SMT DEF States
<1>1. m1 \in States
  BY <1>0, StateUpdate
<1>2. m1.failed \in SUBSET Files
  <2> HIDE DEF m1
  <2> QED BY <1>1, SMT DEF States
<1>3. m2 \in States
  BY <1>1, <1>2, StateUpdate
<1>4. Finished(m, f) = m2
  BY Zenon DEF Finished
<1>5. [m EXCEPT !.failed = @ \cup {f}] \in States
  BY <1>0, StateUpdate
<1> QED
  BY <1>3, <1>4, <1>5, Zenon DEF GivenUp

LEMMA AgentTyped ==
    ASSUME TInv, NEW r \in Runs, NEW a \in Agents, AgentStep(r, a)
    PROVE  TInv'
<1> DEFINE t == agent[r][a]
<1>t. /\ t \in Tasks /\ mem \in [Runs -> States] /\ mem[r] \in States /\ disk \in Disks
      /\ agent \in [Runs -> [Agents -> Tasks]]
  BY SMT DEF TInv, TypeOK, Disks
<1>v. /\ t.todo \in SUBSET Files /\ t.snap \in States /\ t.view \in States
      /\ mem[r].done \in SUBSET Files /\ mem[r].failed \in SUBSET Files
      /\ mem[r].tries \in [Files -> 0 .. MaxTries]
  BY <1>t, SMT DEF Tasks, States
<1>h. t.st \in {"gate", "store"} => t.file \in Files
  BY DEF TInv, FileInHand
<1>m. \A m \in States : [mem EXCEPT ![r] = m] \in [Runs -> States]
  BY <1>t, SMT
<1>c. ASSUME NEW rec \in Tasks, agent' = [agent EXCEPT ![r][a] = rec],
             rec.st \in {"gate", "store"} => rec.file \in Files,
             mem' \in [Runs -> States], disk' \in Disks,
             faults' \in 0 .. MaxFaults, overtaken' \in Histories,
             UNCHANGED <<pc, skip, pending, erred>>
      PROVE  TInv'
  <2>1. agent' \in [Runs -> [Agents -> Tasks]]
    BY <1>c, <1>t, SMT
  <2>2. TypeOK'
    BY <1>c, <2>1, Zenon DEF TInv, TypeOK, Histories, Disks
  <2>3. FileInHand'
    <3> SUFFICES ASSUME NEW q \in Runs, NEW b \in Agents, agent'[q][b].st \in {"gate", "store"}
                 PROVE  agent'[q][b].file \in Files
      BY DEF FileInHand
    <3>1. agent'[q][b] = IF q = r /\ b = a THEN rec ELSE agent[q][b]
      BY <1>c, <1>t, SMT
    <3> QED
      BY <3>1, <1>c, Zenon DEF TInv, FileInHand
  <2> QED
    BY <2>2, <2>3 DEF TInv
<1>x. /\ faults \in 0 .. MaxFaults /\ overtaken \in Histories
  BY DEF TInv, TypeOK, Histories
<1> HIDE DEF t
<1>1. CASE Begin(r, a)
  <2> DEFINE t1 == [t EXCEPT !.st = "next"]
             t2 == [t1 EXCEPT !.context = mem[r].done]
  <2>1. t1 \in Tasks
    BY <1>t, TaskUpdate DEF Stages
  <2>2. t2 \in Tasks
    BY <2>1, <1>v, TaskUpdate
  <2>3. t2.st = "next"
    BY <1>t, SMT DEF Tasks
  <2>4. agent' = [agent EXCEPT ![r][a] = t2]
    BY <1>1, Zenon DEF Begin, Step, t
  <2> HIDE DEF t1, t2
  <2> QED
    BY <1>1, <1>c, <1>t, <1>x, <2>2, <2>3, <2>4, Zenon DEF Begin
<1>2. CASE End(r, a)
  <2> DEFINE t1 == [t EXCEPT !.st = "ended"]
             t2 == [t1 EXCEPT !.todo = {}]
  <2>1. t1 \in Tasks
    BY <1>t, TaskUpdate DEF Stages
  <2>2. t2 \in Tasks
    BY <2>1, TaskUpdate
  <2>3. t2.st = "ended"
    BY <1>t, SMT DEF Tasks
  <2>4. agent' = [agent EXCEPT ![r][a] = t2]
    BY <1>2, Zenon DEF End, Step, t
  <2> HIDE DEF t1, t2
  <2> QED
    BY <1>2, <1>c, <1>t, <1>x, <2>2, <2>3, <2>4, Zenon DEF End
<1>3. CASE Write(r, a)
  <2>1. PICK f \in Files : Step(r, a, [t EXCEPT !.st = "gate", !.file = f, !.view = mem[r]])
    BY <1>3, Zenon DEF Write, t
  <2> DEFINE t1 == [t EXCEPT !.st = "gate"]
             t2 == [t1 EXCEPT !.file = f]
             t3 == [t2 EXCEPT !.view = mem[r]]
  <2>2. t1 \in Tasks
    BY <1>t, TaskUpdate DEF Stages
  <2>3. t2 \in Tasks
    BY <2>2, TaskUpdate
  <2>4. t3 \in Tasks
    BY <2>3, <1>t, TaskUpdate
  <2>5. t3.file = f
    BY <1>t, SMT DEF Tasks
  <2>6. agent' = [agent EXCEPT ![r][a] = t3]
    BY <2>1, Zenon DEF Step
  <2> HIDE DEF t1, t2, t3
  <2> QED
    BY <1>3, <1>c, <1>t, <1>x, <2>4, <2>5, <2>6, Zenon DEF Write
<1>4. CASE WriteFails(r, a)
  <2>1. PICK f \in Files :
          /\ mem[r].tries[f] < MaxTries
          /\ mem' = [mem EXCEPT ![r].tries[f] = @ + 1]
          /\ \E file \in IF t.batch = {f} \/ mem[r].tries[f] > 0 THEN {f} ELSE {f, None} :
               Step(r, a, [t EXCEPT !.st = "save", !.file = file])
    BY <1>4, Zenon DEF WriteFails, t
  <2>2. PICK file \in {f, None} : Step(r, a, [t EXCEPT !.st = "save", !.file = file])
    BY <2>1, Zenon
  <2> DEFINE t1 == [t EXCEPT !.st = "save"]
             t2 == [t1 EXCEPT !.file = file]
             n == [mem[r].tries EXCEPT ![f] = @ + 1]
  <2>3. t1 \in Tasks
    BY <1>t, TaskUpdate DEF Stages
  <2>4. t2 \in Tasks
    BY <2>3, TaskUpdate
  <2>5. t2.st = "save"
    BY <1>t, SMT DEF Tasks
  <2>6. agent' = [agent EXCEPT ![r][a] = t2]
    BY <2>2, Zenon DEF Step
  <2>7. n \in [Files -> 0 .. MaxTries]
    BY <2>1, <1>v, GenerationAssumption, SMT
  <2>8. [mem[r] EXCEPT !.tries = n] \in States
    BY <2>7, <1>t, StateUpdate
  <2>9. mem' \in [Runs -> States]
    <3>1. mem' = [mem EXCEPT ![r] = [mem[r] EXCEPT !.tries = n]]
      BY <2>1, Zenon
    <3> HIDE DEF n
    <3> QED
      BY <3>1, <2>8, <1>m
  <2> HIDE DEF t1, t2
  <2> QED
    BY <1>4, <1>c, <1>t, <1>x, <2>4, <2>5, <2>6, <2>9, Zenon DEF WriteFails
<1>5. CASE WriteRaises(r, a)
  <2> DEFINE t1 == [t EXCEPT !.st = "raised"]
             t2 == [t1 EXCEPT !.todo = {}]
             t3 == [t2 EXCEPT !.file = None]
             t4 == [t3 EXCEPT !.view = NoState]
  <2>1. t1 \in Tasks
    BY <1>t, TaskUpdate DEF Stages
  <2>2. t2 \in Tasks
    BY <2>1, TaskUpdate
  <2>3. t3 \in Tasks
    BY <2>2, TaskUpdate
  <2>4. t4 \in Tasks
    BY <2>3, NoStateType, TaskUpdate
  <2>5. t4.st = "raised"
    BY <1>t, SMT DEF Tasks
  <2>6. agent' = [agent EXCEPT ![r][a] = t4]
    BY <1>5, Zenon DEF WriteRaises, Step, t
  <2>7. faults' \in 0 .. MaxFaults
    BY <1>5, <1>x, GenerationAssumption, SMT DEF WriteRaises, Fault
  <2> HIDE DEF t1, t2, t3, t4
  <2> QED
    BY <1>5, <1>c, <1>t, <1>x, <2>4, <2>5, <2>6, <2>7, Zenon DEF WriteRaises
<1>6. CASE GiveUp(r, a)
  <2>1. PICK f \in Files :
          /\ mem' = [mem EXCEPT ![r] = GivenUp(mem[r], f)]
          /\ Step(r, a, [t EXCEPT !.st = "save", !.file = None, !.todo = @ \ {f}])
    BY <1>6, Zenon DEF GiveUp, t
  <2>2. /\ [t EXCEPT !.st = "save", !.file = None, !.todo = @ \ {f}] \in Tasks
        /\ [t EXCEPT !.st = "save", !.file = None, !.todo = @ \ {f}].st = "save"
    BY <1>t, SavingType
  <2>3. mem' \in [Runs -> States]
    BY <1>t, <1>m, <2>1, FinishedType
  <2>4. UNCHANGED <<pc, skip, pending, erred, disk, overtaken, faults>>
    BY <1>6, Zenon DEF GiveUp
  <2>5. agent' = [agent EXCEPT ![r][a] = [t EXCEPT !.st = "save", !.file = None, !.todo = @ \ {f}]]
    BY <2>1 DEF Step
  <2> QED
    BY <1>c, <1>t, <1>x, <2>2, <2>3, <2>4, <2>5, Zenon
<1>7. CASE GateRepairs(r, a)
  <2>1. t.st = "gate" /\ t.file \in Files
    BY <1>7, <1>h DEF GateRepairs, t
  <2>2. PICK targets \in SUBSET Repairable(t.view, t.file) :
          mem' = [mem EXCEPT ![r].fixes = Repaired(mem[r], t.view, targets, t.file)]
    BY <1>7, Zenon DEF GateRepairs, t
  <2> DEFINE t1 == [t EXCEPT !.st = "store"]
             t2 == [t1 EXCEPT !.view = NoState]
             fx == Repaired(mem[r], t.view, targets, t.file)
  <2>3. t1 \in Tasks
    BY <1>t, TaskUpdate DEF Stages
  <2>4. t2 \in Tasks
    BY <2>3, NoStateType, TaskUpdate
  <2>5. t2.file = t.file
    BY <1>t, SMT DEF Tasks
  <2>6. agent' = [agent EXCEPT ![r][a] = t2]
    BY <1>7, Zenon DEF GateRepairs, Step, t
  <2>7. targets \in SUBSET Files
    BY <1>v, SMT DEF Repairable, States
  <2>8. fx \in [Files -> SUBSET Files]
    BY <1>t, <1>v, <2>1, <2>7, RepairedType
  <2> HIDE DEF t1, t2, fx
  <2>9. mem' = [mem EXCEPT ![r] = [mem[r] EXCEPT !.fixes = fx]]
    BY <2>2, Zenon DEF fx
  <2>10. mem' \in [Runs -> States]
    BY <2>8, <2>9, <1>t, <1>m, StateUpdate
  <2> QED
    BY <1>7, <1>c, <1>t, <1>x, <2>1, <2>4, <2>5, <2>6, <2>10, Zenon DEF GateRepairs
<1>8. CASE Store(r, a)
  <2>1. t.file \in Files
    BY <1>8, <1>h DEF Store, t
  <2>2. /\ [t EXCEPT !.st = "save", !.file = None, !.todo = @ \ {t.file}] \in Tasks
        /\ [t EXCEPT !.st = "save", !.file = None, !.todo = @ \ {t.file}].st = "save"
    BY <1>t, <2>1, SavingType
  <2>3. mem' = [mem EXCEPT ![r] = Finished(mem[r], t.file)]
    BY <1>8, Zenon DEF Store, t
  <2>4. mem' \in [Runs -> States]
    BY <1>t, <1>m, <2>1, <2>3, FinishedType
  <2>5. UNCHANGED <<pc, skip, pending, erred, disk, overtaken, faults>>
    BY <1>8, Zenon DEF Store
  <2>6. agent' = [agent EXCEPT ![r][a] = [t EXCEPT !.st = "save", !.file = None, !.todo = @ \ {t.file}]]
    BY <1>8, Zenon DEF Store, Step, t
  <2> QED
    BY <1>c, <1>t, <1>x, <2>2, <2>4, <2>5, <2>6, Zenon
<1>9. CASE Snapshot(r, a)
  <2> DEFINE t1 == [t EXCEPT !.st = "write"]
             t2 == [t1 EXCEPT !.snap = mem[r]]
  <2>1. t1 \in Tasks
    BY <1>t, TaskUpdate DEF Stages
  <2>2. t2 \in Tasks
    BY <2>1, <1>t, TaskUpdate
  <2>3. t2.st = "write"
    BY <1>t, SMT DEF Tasks
  <2>4. agent' = [agent EXCEPT ![r][a] = t2]
    BY <1>9, Zenon DEF Snapshot, Step, t
  <2> HIDE DEF t1, t2
  <2> QED
    BY <1>9, <1>c, <1>t, <1>x, <2>2, <2>3, <2>4, Zenon DEF Snapshot
<1>10. CASE SaveSnapshot(r, a)
  <2> DEFINE t1 == [t EXCEPT !.st = "next"]
             t2 == [t1 EXCEPT !.snap = NoState]
  <2>1. t1 \in Tasks
    BY <1>t, TaskUpdate DEF Stages
  <2>2. t2 \in Tasks
    BY <2>1, NoStateType, TaskUpdate
  <2>3. t2.st = "next"
    BY <1>t, SMT DEF Tasks
  <2>4. agent' = [agent EXCEPT ![r][a] = t2]
    BY <1>10, Zenon DEF SaveSnapshot, Step, t
  <2>5. disk' \in Disks
    BY <1>10, <1>v, SavedType, Zenon DEF SaveSnapshot, t
  <2>6. overtaken' \in Histories
    BY <1>10, OvertakenType, Zenon DEF SaveSnapshot
  <2> HIDE DEF t1, t2
  <2> QED
    BY <1>10, <1>c, <1>t, <1>x, <2>2, <2>3, <2>4, <2>5, <2>6, Zenon DEF SaveSnapshot
<1> QED
  BY <1>1, <1>2, <1>3, <1>4, <1>5, <1>6, <1>7, <1>8, <1>9, <1>10, Zenon DEF AgentStep

LEMMA CrashTyped == TInv /\ Crash => TInv'
<1> SUFFICES ASSUME TInv, Crash PROVE TInv'
  OBVIOUS
<1>1. pc' \in [Runs -> PCs]
  BY SMT DEF Crash, TInv, TypeOK, PCs, Ended
<1>2. mem' \in [Runs -> States] /\ agent' \in [Runs -> [Agents -> Tasks]]
  BY NoStateType, FreeType DEF Crash, TInv, TypeOK
<1>3. pending' \in [Runs -> SUBSET Files] /\ faults' \in 0 .. MaxFaults
  BY GenerationAssumption, SMT DEF Crash, Fault, TInv, TypeOK
<1>4. erred' \in [Runs -> BOOLEAN]
  BY Zenon DEF Crash, TInv, TypeOK
<1>5. TypeOK'
  BY <1>1, <1>2, <1>3, <1>4, Zenon DEF Crash, TInv, TypeOK, PCs
<1>6. FileInHand'
  BY SMT DEF Crash, FileInHand, Free
<1> QED
  BY <1>5, <1>6 DEF TInv

LEMMA StepTyped == TInv /\ [Next]_vars => TInv'
<1> SUFFICES ASSUME TInv, [Next]_vars PROVE TInv'
  OBVIOUS
<1>1. CASE UNCHANGED vars
  BY <1>1, Zenon DEF vars, TInv, TypeOK, FileInHand
<1>2. ASSUME NEW r \in Runs, Start(r) \/ MainStep(r) PROVE TInv'
  BY <1>2, MainTyped
<1>3. ASSUME NEW r \in Runs, NEW a \in Agents, AgentStep(r, a) PROVE TInv'
  BY <1>3, AgentTyped
<1> QED
  BY <1>1, <1>2, <1>3, CrashTyped, Zenon DEF Next

\* In every behaviour the variables keep their types (all of the code modelled).
THEOREM TypeCorrect == Spec => []TypeOK
<1>1. Spec => []TInv
  BY InitTyped, StepTyped, PTL DEF Spec
<1> QED
  BY <1>1, PTL DEF TInv

-----------------------------------------------------------------------------
(* A gate takes back no repair. *)

FixesGrow(r) ==
    pc[r] = "schedule" /\ pc'[r] # "gone" =>
        \A f \in Files : mem[r].fixes[f] \subseteq mem'[r].fixes[f]

\* What ends with a file leaves the repairs, the tries and the plan alone.
LEMMA FinishedKeeps ==
    ASSUME NEW m \in States, NEW f \in Files
    PROVE  /\ Finished(m, f).fixes = m.fixes /\ GivenUp(m, f).fixes = m.fixes
           /\ Finished(m, f).files = m.files /\ GivenUp(m, f).files = m.files
           /\ Finished(m, f).done = m.done \cup {f}
           /\ m.done \subseteq GivenUp(m, f).done
           /\ f \in GivenUp(m, f).done \cup GivenUp(m, f).failed
           /\ m.failed \subseteq Finished(m, f).failed \cup {f}
           /\ m.failed \subseteq GivenUp(m, f).failed \cup {f}
<1> DEFINE n == [m EXCEPT !.done = @ \cup {f}, !.failed = @ \ {f}]
           o == [m EXCEPT !.failed = @ \cup {f}]
<1>1. n.fixes = m.fixes /\ n.files = m.files /\ n.done = m.done \cup {f} /\ n.failed = m.failed \ {f}
  BY SMT DEF States
<1>2. o.fixes = m.fixes /\ o.files = m.files /\ o.done = m.done /\ o.failed = m.failed \cup {f}
  BY SMT DEF States
<1>3. Finished(m, f) = n /\ GivenUp(m, f) = IF f \in Documents THEN n ELSE o
  BY Zenon DEF Finished, GivenUp
<1> HIDE DEF n, o
<1>4. CASE f \in Documents
  BY <1>1, <1>3, <1>4
<1>5. CASE f \notin Documents
  BY <1>1, <1>2, <1>3, <1>5
<1> QED
  BY <1>4, <1>5

LEMMA RepairsGrow ==
    ASSUME NEW m \in States, NEW view \in States, NEW targets \in SUBSET Files,
           NEW f \in Files, NEW g \in Files
    PROVE  m.fixes[g] \subseteq Repaired(m, view, targets, f)[g]
BY SMT DEF Repaired, States

LEMMA StepKeepsFixes ==
    ASSUME TInv, [Next]_vars, NEW r \in Runs
    PROVE  FixesGrow(r)
<1>t. /\ pc \in [Runs -> PCs] /\ mem \in [Runs -> States]
      /\ agent \in [Runs -> [Agents -> Tasks]]
  BY SMT DEF TInv, TypeOK, PCs
<1>u. ASSUME mem' = mem PROVE FixesGrow(r)
  BY <1>u, SMT DEF FixesGrow
<1>e. ASSUME NEW q \in Runs, NEW m, mem' = [mem EXCEPT ![q] = m], m.fixes = mem[q].fixes
      PROVE  FixesGrow(r)
  BY <1>e, <1>t, SMT DEF FixesGrow
<1>1. CASE UNCHANGED vars
  BY <1>1, <1>u DEF vars
<1>2. ASSUME NEW q \in Runs, Start(q) PROVE FixesGrow(r)
  <2> SUFFICES ASSUME pc[r] = "schedule" PROVE mem'[r] = mem[r]
    BY DEF FixesGrow
  <2>1. Active(r) /\ r # q
    BY <1>2, SMT DEF Active, Ended, Start
  <2>2. PICK sk \in BOOLEAN :
          mem' = [s \in Runs |->
                 IF s = q
                 THEN IF disk.kind = "result" THEN disk.mem ELSE Resumed(disk.mem, sk)
                 ELSE IF Active(s) THEN mem[s] ELSE NoState]
    BY <1>2, Zenon DEF Start
  <2> QED
    BY <2>1, <2>2
<1>3. ASSUME NEW q \in Runs, MainStep(q) PROVE FixesGrow(r)
  <2>1. CASE Plan(q)
    <3> SUFFICES ASSUME pc[r] = "schedule" PROVE mem'[r] = mem[r]
      BY DEF FixesGrow
    <3>1. r # q
      BY <2>1 DEF Plan
    <3> QED
      BY <2>1, <3>1, <1>t, SMT DEF Plan
  <2>2. CASE FillMissing(q)
    <3>1. PICK new : mem' = [mem EXCEPT ![q] = [mem[q] EXCEPT !.files = @ \cup new]]
      BY <2>2, Zenon DEF FillMissing
    <3>2. [mem[q] EXCEPT !.files = @ \cup new].fixes = mem[q].fixes
      BY <1>t, SMT DEF States
    <3> QED
      BY <3>1, <3>2, <1>e
  <2> QED
    BY <1>3, <1>u, <2>1, <2>2, Zenon
       DEF MainStep, PlanFails, Dispatch, Collect, PauseOnError, PauseOnFailed, Complete, Deliver
<1>4. ASSUME NEW q \in Runs, NEW a \in Agents, AgentStep(q, a) PROVE FixesGrow(r)
  <2> DEFINE t == agent[q][a]
  <2>1. CASE WriteFails(q, a)
    <3>1. PICK f \in Files : mem' = [mem EXCEPT ![q].tries[f] = @ + 1]
      BY <2>1, Zenon DEF WriteFails
    <3>2. [mem[q] EXCEPT !.tries[f] = @ + 1].fixes = mem[q].fixes
      BY <1>t, SMT DEF States
    <3>3. mem' = [mem EXCEPT ![q] = [mem[q] EXCEPT !.tries[f] = @ + 1]]
      BY <3>1, Zenon
    <3> QED
      BY <3>2, <3>3, <1>e
  <2>2. CASE GiveUp(q, a)
    <3>1. PICK f \in Files : mem' = [mem EXCEPT ![q] = GivenUp(mem[q], f)]
      BY <2>2, Zenon DEF GiveUp
    <3> QED
      BY <3>1, <1>t, <1>e, FinishedKeeps
  <2>3. CASE Store(q, a)
    <3>1. mem' = [mem EXCEPT ![q] = Finished(mem[q], t.file)] /\ t.file \in Files
      BY <2>3, Zenon DEF Store, TInv, FileInHand
    <3> QED
      BY <3>1, <1>t, <1>e, FinishedKeeps
  <2>4. CASE GateRepairs(q, a)
    <3>1. t.file \in Files /\ t.view \in States
      BY <2>4, <1>t, SMT DEF GateRepairs, TInv, FileInHand, Tasks
    <3>2. PICK targets \in SUBSET Repairable(t.view, t.file) :
            mem' = [mem EXCEPT ![q].fixes = Repaired(mem[q], t.view, targets, t.file)]
      BY <2>4, Zenon DEF GateRepairs
    <3>3. targets \in SUBSET Files
      BY <3>1, SMT DEF Repairable, States
    <3> SUFFICES ASSUME NEW g \in Files PROVE mem[r].fixes[g] \subseteq mem'[r].fixes[g]
      BY DEF FixesGrow
    <3>4. CASE r # q
      BY <3>2, <3>4, <1>t, SMT
    <3>5. CASE r = q
      <4> DEFINE fx == Repaired(mem[q], t.view, targets, t.file)
      <4>1. mem[q].fixes[g] \subseteq fx[g]
        BY <1>t, <3>1, <3>3, RepairsGrow
      <4> HIDE DEF fx, t
      <4>2. mem'[q].fixes = fx
        BY <3>2, <1>t, SMT DEF fx, States
      <4> QED
        BY <4>1, <4>2, <3>5
    <3> QED
      BY <3>4, <3>5
  <2>5. CASE \/ Begin(q, a) \/ End(q, a) \/ Write(q, a) \/ WriteRaises(q, a)
             \/ Snapshot(q, a) \/ SaveSnapshot(q, a)
    BY <2>5, <1>u, Zenon DEF Begin, End, Write, WriteRaises, Snapshot, SaveSnapshot
  <2> QED
    BY <1>4, <2>1, <2>2, <2>3, <2>4, <2>5, Zenon DEF AgentStep
<1>5. CASE Crash
  BY <1>5, <1>t, SMT DEF Crash, FixesGrow, Active, Ended
<1> QED
  BY <1>1, <1>2, <1>3, <1>4, <1>5, Zenon DEF Next

\* However many gates run at once, and whatever they repair: the repair one of
\* them made to a file is never taken back by another (_gate, its last lock).
THEOREM FixKeptCorrect == Spec => FixKept
<1>1. TInv /\ [Next]_vars =>
          [\A r \in Runs : pc[r] = "schedule" /\ pc'[r] # "gone" =>
               \A f \in Files : mem[r].fixes[f] \subseteq mem'[r].fixes[f]]_vars
  BY StepKeepsFixes, Zenon DEF FixesGrow
<1> QED
  BY <1>1, InitTyped, StepTyped, PTL DEF Spec, FixKept

-----------------------------------------------------------------------------
(* A schedule forgets no file. *)

\* What a step of an agent does to its slot and to the state of its run.
Shape(q, a, rec) ==
    /\ agent' = [agent EXCEPT ![q][a] = rec]
    /\ agent[q][a].st # "raised"
    /\ rec.st \in {"free", "ended"} => rec.todo = {}
    /\ rec.st # "raised" =>
           agent[q][a].todo \subseteq rec.todo \cup mem'[q].done \cup mem'[q].failed
    /\ mem'[q].files = mem[q].files
    /\ mem[q].done \subseteq mem'[q].done
    /\ mem[q].failed \subseteq mem'[q].failed \cup mem'[q].done
    /\ \A r \in Runs \ {q} : mem'[r] = mem[r]
    /\ UNCHANGED <<pc, pending, erred>>

LEMMA AgentShape ==
    ASSUME TInv, NEW q \in Runs, NEW a \in Agents, AgentStep(q, a)
    PROVE  \E rec : Shape(q, a, rec)
<1> DEFINE t == agent[q][a]
<1>t. t \in Tasks /\ mem \in [Runs -> States] /\ mem[q] \in States
  BY SMT DEF TInv, TypeOK
<1> HIDE DEF t
<1>c. ASSUME NEW rec, agent' = [agent EXCEPT ![q][a] = rec], t.st # "raised",
             rec.st \notin {"free", "ended"}, rec.todo = t.todo \/ rec.st = "raised",
             mem' = mem, UNCHANGED <<pc, pending, erred>>
      PROVE  \E r : Shape(q, a, r)
  BY <1>c, Zenon DEF Shape, t
<1>d. ASSUME NEW rec, NEW f, NEW m, agent' = [agent EXCEPT ![q][a] = rec], t.st # "raised",
             rec.st = "save", rec.todo = t.todo \ {f},
             mem' = [mem EXCEPT ![q] = m], m.files = mem[q].files,
             mem[q].done \subseteq m.done, mem[q].failed \subseteq m.failed \cup {f},
             mem[q].failed \subseteq m.failed \cup m.done,
             f \in m.done \cup m.failed, UNCHANGED <<pc, pending, erred>>
      PROVE  \E r : Shape(q, a, r)
  <2>1. mem'[q] = m /\ \A r \in Runs \ {q} : mem'[r] = mem[r]
    BY <1>d, <1>t
  <2>2. t.todo \subseteq rec.todo \cup m.done \cup m.failed
    BY <1>d
  <2>3. Shape(q, a, rec)
    BY <2>1, <2>2, <1>d, Zenon DEF Shape, t
  <2> QED
    BY <2>3
<1>1. CASE Begin(q, a)
  <2> DEFINE rec == [t EXCEPT !.st = "next", !.context = mem[q].done]
  <2>1. rec.st = "next" /\ rec.todo = t.todo
    BY <1>t, SMT DEF Tasks
  <2>2. agent' = [agent EXCEPT ![q][a] = rec] /\ t.st = "begin"
    BY <1>1, Zenon DEF Begin, Step, t
  <2> HIDE DEF rec
  <2> QED
    BY <1>1, <1>c, <2>1, <2>2 DEF Begin
<1>2. CASE End(q, a)
  <2> DEFINE rec == [t EXCEPT !.st = "ended", !.todo = {}]
  <2>1. rec.st = "ended" /\ rec.todo = {}
    BY <1>t, SMT DEF Tasks
  <2>2. agent' = [agent EXCEPT ![q][a] = rec] /\ t.st = "next" /\ t.todo \subseteq mem[q].done
    BY <1>2, Zenon DEF End, AllDone, Step, t
  <2> HIDE DEF rec
  <2>3. Shape(q, a, rec)
    BY <1>2, <2>1, <2>2, Zenon DEF End, Shape, t
  <2> QED
    BY <2>3
<1>3. CASE Write(q, a)
  <2>1. PICK f \in Files : Step(q, a, [t EXCEPT !.st = "gate", !.file = f, !.view = mem[q]])
    BY <1>3, Zenon DEF Write, t
  <2> DEFINE rec == [t EXCEPT !.st = "gate", !.file = f, !.view = mem[q]]
  <2>2. rec.st = "gate" /\ rec.todo = t.todo
    BY <1>t, SMT DEF Tasks
  <2>3. agent' = [agent EXCEPT ![q][a] = rec] /\ t.st = "next"
    BY <1>3, <2>1, Zenon DEF Write, Current, Step, t
  <2> HIDE DEF rec
  <2> QED
    BY <1>3, <1>c, <2>2, <2>3 DEF Write
<1>4. CASE WriteFails(q, a)
  <2>1. PICK f \in Files :
          /\ mem' = [mem EXCEPT ![q].tries[f] = @ + 1]
          /\ \E file \in IF t.batch = {f} \/ mem[q].tries[f] > 0 THEN {f} ELSE {f, None} :
               Step(q, a, [t EXCEPT !.st = "save", !.file = file])
    BY <1>4, Zenon DEF WriteFails, t
  <2>2. PICK file : Step(q, a, [t EXCEPT !.st = "save", !.file = file])
    BY <2>1
  <2> DEFINE rec == [t EXCEPT !.st = "save", !.file = file]
             m == [mem[q] EXCEPT !.tries[f] = @ + 1]
  <2>3. rec.st = "save" /\ rec.todo = t.todo
    BY <1>t, SMT DEF Tasks
  <2>4. agent' = [agent EXCEPT ![q][a] = rec] /\ t.st = "next"
    BY <1>4, <2>2, Zenon DEF WriteFails, Current, Step, t
  <2>5. m.files = mem[q].files /\ m.done = mem[q].done /\ m.failed = mem[q].failed
    BY <1>t, SMT DEF States
  <2>6. mem' = [mem EXCEPT ![q] = m]
    BY <2>1, Zenon
  <2> HIDE DEF rec, m
  <2>7. mem'[q] = m /\ \A r \in Runs \ {q} : mem'[r] = mem[r]
    BY <2>6, <1>t
  <2>8. Shape(q, a, rec)
    BY <1>4, <2>3, <2>4, <2>5, <2>7, Zenon DEF WriteFails, Shape, t
  <2> QED
    BY <2>8
<1>5. CASE WriteRaises(q, a)
  <2> DEFINE rec == [t EXCEPT !.st = "raised", !.todo = {}, !.file = None, !.view = NoState]
  <2>1. rec.st = "raised"
    BY <1>t, SMT DEF Tasks
  <2>2. agent' = [agent EXCEPT ![q][a] = rec] /\ t.st \in {"next", "gate"}
    BY <1>5, Zenon DEF WriteRaises, Current, Step, t
  <2> HIDE DEF rec
  <2> QED
    BY <1>5, <1>c, <2>1, <2>2, Zenon DEF WriteRaises
<1>6. CASE GiveUp(q, a)
  <2>1. PICK f \in Files :
          /\ mem' = [mem EXCEPT ![q] = GivenUp(mem[q], f)]
          /\ Step(q, a, [t EXCEPT !.st = "save", !.file = None, !.todo = @ \ {f}])
          /\ t.st = "next"
    BY <1>6, Zenon DEF GiveUp, Current, t
  <2> DEFINE rec == [t EXCEPT !.st = "save", !.file = None, !.todo = @ \ {f}]
  <2>2. rec.st = "save" /\ rec.todo = t.todo \ {f}
    BY <1>t, SMT DEF Tasks
  <2>3. agent' = [agent EXCEPT ![q][a] = rec]
    BY <2>1, Zenon DEF Step
  <2>4. UNCHANGED <<pc, pending, erred>>
    BY <1>6 DEF GiveUp
  <2>5. /\ GivenUp(mem[q], f).files = mem[q].files
        /\ mem[q].done \subseteq GivenUp(mem[q], f).done
        /\ f \in GivenUp(mem[q], f).done \cup GivenUp(mem[q], f).failed
        /\ mem[q].failed \subseteq GivenUp(mem[q], f).failed \cup {f}
    BY <1>t, FinishedKeeps
  <2> HIDE DEF rec
  <2>6. mem[q].failed \subseteq GivenUp(mem[q], f).failed \cup GivenUp(mem[q], f).done
    BY <2>5
  <2> QED
    BY <1>d, <2>1, <2>2, <2>3, <2>4, <2>5, <2>6
<1>7. CASE GateRepairs(q, a)
  <2>1. PICK fx : mem' = [mem EXCEPT ![q].fixes = fx]
    BY <1>7, Zenon DEF GateRepairs
  <2> DEFINE rec == [t EXCEPT !.st = "store", !.view = NoState]
             m == [mem[q] EXCEPT !.fixes = fx]
  <2>2. rec.st = "store" /\ rec.todo = t.todo
    BY <1>t, SMT DEF Tasks
  <2>3. agent' = [agent EXCEPT ![q][a] = rec] /\ t.st = "gate"
    BY <1>7, Zenon DEF GateRepairs, Step, t
  <2>4. m.files = mem[q].files /\ m.done = mem[q].done /\ m.failed = mem[q].failed
    BY <1>t, SMT DEF States
  <2>5. mem' = [mem EXCEPT ![q] = m]
    BY <2>1, Zenon
  <2> HIDE DEF rec, m
  <2>6. mem'[q] = m /\ \A r \in Runs \ {q} : mem'[r] = mem[r]
    BY <2>5, <1>t
  <2>7. Shape(q, a, rec)
    BY <1>7, <2>2, <2>3, <2>4, <2>6, Zenon DEF GateRepairs, Shape, t
  <2> QED
    BY <2>7
<1>8. CASE Store(q, a)
  <2> DEFINE f == t.file
             rec == [t EXCEPT !.st = "save", !.file = None, !.todo = @ \ {f}]
  <2>1. f \in Files /\ t.st = "store"
    BY <1>8, Zenon DEF Store, TInv, FileInHand, t
  <2>2. rec.st = "save" /\ rec.todo = t.todo \ {f}
    BY <1>t, SMT DEF Tasks
  <2>3. agent' = [agent EXCEPT ![q][a] = rec] /\ mem' = [mem EXCEPT ![q] = Finished(mem[q], f)]
    BY <1>8, Zenon DEF Store, Step, t
  <2>4. UNCHANGED <<pc, pending, erred>>
    BY <1>8 DEF Store
  <2> HIDE DEF f
  <2>5. /\ Finished(mem[q], f).files = mem[q].files
        /\ Finished(mem[q], f).done = mem[q].done \cup {f}
        /\ mem[q].failed \subseteq Finished(mem[q], f).failed \cup {f}
    BY <1>t, <2>1, FinishedKeeps
  <2> HIDE DEF rec
  <2>6. /\ mem[q].failed \subseteq Finished(mem[q], f).failed \cup Finished(mem[q], f).done
        /\ mem[q].done \subseteq Finished(mem[q], f).done
        /\ f \in Finished(mem[q], f).done \cup Finished(mem[q], f).failed
    BY <2>5
  <2> QED
    BY <1>d, <2>1, <2>2, <2>3, <2>4, <2>5, <2>6
<1>9. CASE Snapshot(q, a)
  <2> DEFINE rec == [t EXCEPT !.st = "write", !.snap = mem[q]]
  <2>1. rec.st = "write" /\ rec.todo = t.todo
    BY <1>t, SMT DEF Tasks
  <2>2. agent' = [agent EXCEPT ![q][a] = rec] /\ t.st = "save"
    BY <1>9, Zenon DEF Snapshot, Step, t
  <2> HIDE DEF rec
  <2> QED
    BY <1>9, <1>c, <2>1, <2>2 DEF Snapshot
<1>10. CASE SaveSnapshot(q, a)
  <2> DEFINE rec == [t EXCEPT !.st = "next", !.snap = NoState]
  <2>1. rec.st = "next" /\ rec.todo = t.todo
    BY <1>t, SMT DEF Tasks
  <2>2. agent' = [agent EXCEPT ![q][a] = rec] /\ t.st = "write"
    BY <1>10, Zenon DEF SaveSnapshot, Step, t
  <2> HIDE DEF rec
  <2> QED
    BY <1>10, <1>c, <2>1, <2>2 DEF SaveSnapshot
<1> QED
  BY <1>1, <1>2, <1>3, <1>4, <1>5, <1>6, <1>7, <1>8, <1>9, <1>10, Zenon DEF AgentStep

LEMMA InitAccounted == Init => IInv
<1> SUFFICES ASSUME Init PROVE IInv
  OBVIOUS
<1>1. TInv
  BY InitTyped
<1>2. RestingIsIdle
  BY SMT DEF Init, RestingIsIdle, Free
<1>3. \A r \in Runs : pc[r] = "idle"
  BY DEF Init
<1>4. Accounted /\ NothingForgotten
  BY <1>3 DEF Accounted, NothingForgotten
<1> QED
  BY <1>1, <1>2, <1>4 DEF IInv

\* What an agent finishes stays accounted for.
LEMMA AgentAccounts ==
    ASSUME IInv, NEW q \in Runs, NEW a \in Agents, AgentStep(q, a)
    PROVE  RestingIsIdle' /\ Accounted' /\ NothingForgotten'
<1>1. PICK rec : Shape(q, a, rec)
  BY AgentShape DEF IInv
<1>2. agent \in [Runs -> [Agents -> Tasks]]
  BY DEF IInv, TInv, TypeOK
<1>3. \A r \in Runs, b \in Agents :
          agent'[r][b] = IF r = q /\ b = a THEN rec ELSE agent[r][b]
  BY <1>1, <1>2, SMT DEF Shape
<1>4. RestingIsIdle'
  <2> SUFFICES ASSUME NEW r \in Runs, NEW b \in Agents,
                      agent'[r][b].st \in {"free", "ended"}
               PROVE  agent'[r][b].todo = {}
    BY DEF RestingIsIdle
  <2>1. CASE r = q /\ b = a
    <3>1. agent'[r][b] = rec
      BY <1>3, <2>1
    <3> QED
      BY <1>1, <3>1, Zenon DEF Shape
  <2>2. CASE ~(r = q /\ b = a)
    <3>1. agent'[r][b] = agent[r][b]
      BY <1>3, <2>2
    <3> QED
      BY <3>1, Zenon DEF IInv, RestingIsIdle
  <2> QED
    BY <2>1, <2>2
<1>5. NothingForgotten'
  <2> SUFFICES ASSUME NEW r \in Runs, pc'[r] = "failed" PROVE mem'[r].files = {}
    BY DEF NothingForgotten
  <2>1. mem[r].files = {}
    BY <1>1 DEF IInv, NothingForgotten, Shape
  <2> QED
    BY <1>1, <2>1 DEF Shape
<1>6. Accounted'
  <2> SUFFICES ASSUME NEW r \in Runs, pc'[r] = "schedule", ~erred'[r],
                      \A b \in Agents : agent'[r][b].st # "raised",
                      NEW f \in mem'[r].files
               PROVE  Settled(r, f)' \/ InHand(r, f)'
    BY DEF Accounted
  <2>1. pc[r] = "schedule" /\ ~erred[r] /\ pending'[r] = pending[r]
    BY <1>1 DEF Shape
  <2>2. ASSUME NEW b \in Agents PROVE agent[r][b].st # "raised"
    <3>1. CASE r = q /\ b = a
      BY <1>1, <3>1, Zenon DEF Shape
    <3>2. CASE ~(r = q /\ b = a)
      BY <1>3, <3>2
    <3> QED
      BY <3>1, <3>2
  <2>3. f \in mem[r].files
    BY <1>1 DEF Shape
  <2>4. Settled(r, f) \/ InHand(r, f)
    BY <2>1, <2>2, <2>3, Zenon DEF IInv, Accounted
  <2>5. CASE r # q
    <3>1. mem'[r] = mem[r] /\ \A b \in Agents : agent'[r][b] = agent[r][b]
      BY <1>1, <1>3, <2>5, Zenon DEF Shape
    <3> QED
      BY <2>1, <2>4, <3>1, Zenon DEF Settled, InHand
  <2>6. CASE r = q
    <3>1. rec.st # "raised" /\ rec = agent'[r][a]
      BY <1>3, <2>6
    <3>2. CASE f \in mem[r].done \cup mem[r].failed
      BY <1>1, <2>6, <3>2 DEF Shape, Settled
    <3>3. CASE f \in pending[r]
      BY <2>1, <3>3 DEF Settled
    <3>4. ASSUME NEW b \in Agents, f \in agent[r][b].todo
          PROVE  Settled(r, f)' \/ InHand(r, f)'
      <4>1. CASE b = a
        <5>1. f \in rec.todo \cup mem'[q].done \cup mem'[q].failed
          BY <1>1, <2>6, <3>1, <3>4, <4>1 DEF Shape
        <5> QED
          BY <2>6, <3>1, <5>1 DEF Settled, InHand
      <4>2. CASE b # a
        BY <1>3, <3>4, <4>2, Zenon DEF InHand
      <4> QED
        BY <4>1, <4>2
    <3> QED
      BY <2>4, <3>2, <3>3, <3>4 DEF Settled, InHand
  <2> QED
    BY <2>5, <2>6
<1> QED
  BY <1>4, <1>5, <1>6

\* A schedule begins with every file that is not done or skipped.
LEMMA TodoSettles ==
    ASSUME NEW r \in Runs, NEW m, mem'[r] = m, pending'[r] = Todo(r, m)
    PROVE  \A f \in m.files : Settled(r, f)'
BY SMT DEF Todo, Settled

LEMMA MainAccounts ==
    ASSUME IInv, NEW q \in Runs, MainStep(q) \/ Start(q)
    PROVE  RestingIsIdle' /\ Accounted' /\ NothingForgotten'
<1>t. /\ pc \in [Runs -> PCs] /\ mem \in [Runs -> States]
      /\ pending \in [Runs -> SUBSET Files] /\ erred \in [Runs -> BOOLEAN]
      /\ agent \in [Runs -> [Agents -> Tasks]]
  BY SMT DEF IInv, TInv, TypeOK, PCs
<1>i. agent' = agent => RestingIsIdle'
  BY DEF IInv, RestingIsIdle
\* The other runs are as they were.
<1>o. ASSUME agent' = agent,
             \A r \in Runs \ {q} :
                 pc[r] = "schedule" => /\ mem'[r] = mem[r] /\ pending'[r] = pending[r]
                                       /\ erred'[r] = erred[r],
             \A r \in Runs \ {q} : pc'[r] = pc[r] /\ mem'[r] \in {mem[r], NoState},
             pc'[q] = "schedule" => \A f \in mem'[q].files : Settled(q, f)',
             pc'[q] = "failed" => mem'[q].files = {}
      PROVE  RestingIsIdle' /\ Accounted' /\ NothingForgotten'
  <2>1. NothingForgotten'
    <3> SUFFICES ASSUME NEW r \in Runs, pc'[r] = "failed" PROVE mem'[r].files = {}
      BY DEF NothingForgotten
    <3>1. CASE r = q
      BY <1>o, <3>1
    <3>2. CASE r # q
      <4>1. mem[r].files = {} /\ NoState.files = {}
        BY <1>o, <3>2, Zenon DEF IInv, NothingForgotten, NoState
      <4> QED
        BY <1>o, <3>2, <4>1
    <3> QED
      BY <3>1, <3>2
  <2>2. Accounted'
    <3> SUFFICES ASSUME NEW r \in Runs, pc'[r] = "schedule", ~erred'[r],
                        \A b \in Agents : agent'[r][b].st # "raised",
                        NEW f \in mem'[r].files
                 PROVE  Settled(r, f)' \/ InHand(r, f)'
      BY DEF Accounted
    <3>1. CASE r = q
      BY <1>o, <3>1
    <3>2. CASE r # q
      <4>1. /\ pc[r] = "schedule" /\ mem'[r] = mem[r] /\ pending'[r] = pending[r]
            /\ erred'[r] = erred[r]
        BY <1>o, <3>2
      <4>2. Settled(r, f) \/ InHand(r, f)
        BY <1>o, <4>1, Zenon DEF IInv, Accounted
      <4> QED
        BY <1>o, <4>1, <4>2, Zenon DEF Settled, InHand
    <3> QED
      BY <3>1, <3>2
  <2> QED
    BY <1>i, <1>o, <2>1, <2>2
<1>k. ASSUME NEW st \in PCs \ {"schedule", "failed"}, pc' = [pc EXCEPT ![q] = st],
             UNCHANGED <<mem, pending, erred, agent>>
      PROVE  RestingIsIdle' /\ Accounted' /\ NothingForgotten'
  <2>1. pc'[q] = st /\ \A r \in Runs \ {q} : pc'[r] = pc[r]
    BY <1>k, <1>t
  <2> QED
    BY <1>k, <1>o, <2>1
<1>1. CASE Start(q)
  <2>1. PICK sk \in BOOLEAN :
          mem' = [s \in Runs |->
                 IF s = q
                 THEN IF disk.kind = "result" THEN disk.mem ELSE Resumed(disk.mem, sk)
                 ELSE IF Active(s) THEN mem[s] ELSE NoState]
    BY <1>1, Zenon DEF Start
  <2>2. pc'[q] \in {"done", "plan"} /\ \A r \in Runs \ {q} : pc'[r] = pc[r]
    BY <1>1, <1>t DEF Start
  <2>3. \A r \in Runs \ {q} : mem'[r] \in {mem[r], NoState}
    BY <2>1, Zenon
  <2>4. ASSUME NEW r \in Runs \ {q}, pc[r] = "schedule"
        PROVE  mem'[r] = mem[r] /\ pending'[r] = pending[r] /\ erred'[r] = erred[r]
    <3>1. Active(r)
      BY <2>4, SMT DEF Active, Ended
    <3>2. mem'[r] = mem[r]
      BY <2>1, <3>1, Zenon
    <3>3. pending'[r] = pending[r] /\ erred'[r] = erred[r]
      BY <1>1, <1>t, <3>1, Zenon DEF Start
    <3> QED
      BY <3>2, <3>3
  <2>5. agent' = agent
    BY <1>1 DEF Start
  <2> QED
    BY <1>o, <2>2, <2>3, <2>4, <2>5
<1>2. CASE Plan(q)
  <2> DEFINE m == WithPlan(mem[q])
  <2>1. /\ mem' = [mem EXCEPT ![q] = m] /\ pending' = [pending EXCEPT ![q] = Todo(q, m)]
        /\ pc' = [pc EXCEPT ![q] = "schedule"] /\ erred' = erred /\ agent' = agent
    BY <1>2, Zenon DEF Plan
  <2> HIDE DEF m
  <2>2. /\ mem'[q] = m /\ pending'[q] = Todo(q, m) /\ pc'[q] = "schedule"
        /\ \A r \in Runs \ {q} : mem'[r] = mem[r] /\ pending'[r] = pending[r] /\ pc'[r] = pc[r]
    BY <2>1, <1>t
  <2>3. \A f \in m.files : Settled(q, f)'
    BY <2>2, TodoSettles
  <2> QED
    BY <1>o, <2>1, <2>2, <2>3
<1>3. CASE FillMissing(q)
  <2>1. PICK new : LET m == [mem[q] EXCEPT !.files = @ \cup new] IN
          mem' = [mem EXCEPT ![q] = m] /\ pending' = [pending EXCEPT ![q] = Todo(q, m)]
    BY <1>3, Zenon DEF FillMissing
  <2> DEFINE m == [mem[q] EXCEPT !.files = @ \cup new]
  <2>2. mem' = [mem EXCEPT ![q] = m] /\ pending' = [pending EXCEPT ![q] = Todo(q, m)]
    BY <2>1
  <2>3. pc' = pc /\ erred' = erred /\ agent' = agent /\ pc[q] = "schedule"
    BY <1>3, Zenon DEF FillMissing, ScheduleDone
  <2> HIDE DEF m
  <2>4. /\ mem'[q] = m /\ pending'[q] = Todo(q, m)
        /\ \A r \in Runs \ {q} : mem'[r] = mem[r] /\ pending'[r] = pending[r]
    BY <2>2, <1>t
  <2>5. \A f \in m.files : Settled(q, f)'
    BY <2>4, TodoSettles
  <2> QED
    BY <1>o, <2>3, <2>4, <2>5
<1>4. CASE PlanFails(q)
  <2>1. PICK end \in {"failed", "paused", "broken"} : pc' = [pc EXCEPT ![q] = end]
    BY <1>4, Zenon DEF PlanFails, Break
  <2>3. mem[q].files = {} /\ UNCHANGED <<mem, pending, erred, agent>>
    BY <1>4, Zenon DEF PlanFails
  <2>2. pc'[q] = end /\ \A r \in Runs \ {q} : pc'[r] = pc[r]
    BY <2>1, <1>t
  <2> QED
    BY <1>o, <2>2, <2>3
<1>5. CASE Complete(q)
  <2>1. ScheduleDone(q)
    BY <1>5 DEF Complete
  <2>2. \A f \in mem[q].files : Settled(q, f) \/ InHand(q, f)
    BY <2>1, Zenon DEF ScheduleDone, PoolEmpty, IInv, Accounted
  <2>3. \A a \in Agents : agent[q][a].todo = {}
    BY <2>1, Zenon DEF ScheduleDone, PoolEmpty, IInv, RestingIsIdle
  <2>4. mem[q].files \subseteq mem[q].done \cup mem[q].failed
    BY <2>1, <2>2, <2>3 DEF ScheduleDone, Settled, InHand
  <2>5. pc' = [pc EXCEPT ![q] = "deliver"] /\ UNCHANGED <<mem, pending, erred, agent>>
    BY <1>5, <2>4, Zenon DEF Complete
  <2>9. "deliver" \in PCs \ {"schedule", "failed"}
    BY SMT DEF PCs, Ended
  <2> QED
    BY <1>k, <2>5, <2>9
<1>6. CASE PauseOnError(q) \/ PauseOnFailed(q)
  <2>1. PICK end \in {"paused", "broken"} : pc' = [pc EXCEPT ![q] = end]
    BY <1>6, Zenon DEF PauseOnError, PauseOnFailed, Break
  <2>2. UNCHANGED <<mem, pending, erred, agent>>
    BY <1>6, Zenon DEF PauseOnError, PauseOnFailed
  <2>9. end \in PCs \ {"schedule", "failed"}
    BY SMT DEF PCs, Ended
  <2> QED
    BY <1>k, <2>1, <2>2, <2>9
<1>7. CASE Deliver(q)
  <2>1. pc' = [pc EXCEPT ![q] = "done"] /\ UNCHANGED <<mem, pending, erred, agent>>
    BY <1>7, Zenon DEF Deliver
  <2>9. "done" \in PCs \ {"schedule", "failed"}
    BY SMT DEF PCs, Ended
  <2> QED
    BY <1>k, <2>1, <2>9
<1>s. ASSUME NEW a \in Agents, NEW rec, agent' = [agent EXCEPT ![q][a] = rec],
             agent[q][a].todo = {} \/ erred'[q],
             rec.st \in {"free", "ended"} => rec.todo = {},
             mem' = mem, pc' = pc, erred'[q] \/ ~erred[q],
             agent[q][a].st = "raised" => erred'[q],
             \A r \in Runs \ {q} : pending'[r] = pending[r] /\ erred'[r] = erred[r],
             pending[q] \subseteq pending'[q] \cup rec.todo
      PROVE  RestingIsIdle' /\ Accounted' /\ NothingForgotten'
  <2>1. \A r \in Runs, b \in Agents :
            agent'[r][b] = IF r = q /\ b = a THEN rec ELSE agent[r][b]
    BY <1>s, <1>t, SMT
  <2>2. RestingIsIdle'
    <3> SUFFICES ASSUME NEW r \in Runs, NEW b \in Agents,
                        agent'[r][b].st \in {"free", "ended"}
                 PROVE  agent'[r][b].todo = {}
      BY DEF RestingIsIdle
    <3>1. CASE r = q /\ b = a
      <4>1. agent'[r][b] = rec
        BY <2>1, <3>1
      <4> QED
        BY <1>s, <4>1, Zenon
    <3>2. CASE ~(r = q /\ b = a)
      <4>1. agent'[r][b] = agent[r][b]
        BY <2>1, <3>2
      <4> QED
        BY <4>1, Zenon DEF IInv, RestingIsIdle
    <3> QED
      BY <3>1, <3>2
  <2>3. NothingForgotten'
    BY <1>s DEF NothingForgotten, IInv
  <2>4. Accounted'
    <3> SUFFICES ASSUME NEW r \in Runs, pc'[r] = "schedule", ~erred'[r],
                        \A b \in Agents : agent'[r][b].st # "raised",
                        NEW f \in mem'[r].files
                 PROVE  Settled(r, f)' \/ InHand(r, f)'
      BY DEF Accounted
    <3>1. ~erred[r]
      BY <1>s
    <3>2. ASSUME NEW b \in Agents PROVE agent[r][b].st # "raised"
      <4>1. CASE r = q /\ b = a
        BY <1>s, <4>1
      <4>2. CASE ~(r = q /\ b = a)
        BY <2>1, <4>2
      <4> QED
        BY <4>1, <4>2
    <3>3. Settled(r, f) \/ InHand(r, f)
      BY <1>s, <3>1, <3>2, Zenon DEF IInv, Accounted
    <3>4. CASE r # q
      <4>1. /\ mem'[r] = mem[r] /\ pending'[r] = pending[r]
            /\ \A b \in Agents : agent'[r][b] = agent[r][b]
        BY <1>s, <2>1, <3>4
      <4> QED
        BY <3>3, <4>1, Zenon DEF Settled, InHand
    <3>5. CASE r = q
      <4>1. CASE Settled(r, f)
        <5>1. Settled(r, f)' \/ f \in agent'[q][a].todo
          BY <1>s, <2>1, <3>5, <4>1 DEF Settled
        <5> QED
          BY <3>5, <5>1 DEF InHand
      <4>2. ASSUME NEW b \in Agents, f \in agent[r][b].todo PROVE InHand(r, f)'
        <5>1. b # a
          BY <1>s, <3>5, <4>2
        <5> QED
          BY <2>1, <4>2, <5>1, Zenon DEF InHand
      <4> QED
        BY <3>3, <4>1, <4>2 DEF InHand
    <3> QED
      BY <3>4, <3>5
  <2> QED
    BY <2>2, <2>3, <2>4
<1>8. CASE Dispatch(q)
  <2>a. PICK a \in Agents : \E batch :
          /\ agent[q][a].st = "free"
          /\ pending' = [pending EXCEPT ![q] = @ \ batch]
          /\ agent' = [agent EXCEPT ![q][a] =
                 [Free EXCEPT !.st = "begin", !.batch = batch, !.todo = batch]]
    BY <1>8, Zenon DEF Dispatch
  <2>1. PICK batch :
          /\ agent[q][a].st = "free"
          /\ pending' = [pending EXCEPT ![q] = @ \ batch]
          /\ agent' = [agent EXCEPT ![q][a] =
                 [Free EXCEPT !.st = "begin", !.batch = batch, !.todo = batch]]
    BY <2>a, Zenon
  <2> DEFINE rec == [Free EXCEPT !.st = "begin", !.batch = batch, !.todo = batch]
  <2>2. rec.st = "begin" /\ rec.todo = batch
    BY SMT DEF Free
  <2>3. agent' = [agent EXCEPT ![q][a] = rec]
    BY <2>1
  <2> HIDE DEF rec
  <2>4. agent[q][a].todo = {}
    BY <2>1, Zenon DEF IInv, RestingIsIdle
  <2>5. pending'[q] = pending[q] \ batch /\ \A r \in Runs \ {q} : pending'[r] = pending[r]
    BY <2>1, <1>t
  <2>6. mem' = mem /\ pc' = pc /\ erred' = erred /\ ~erred[q]
    BY <1>8, Zenon DEF Dispatch
  <2>7. /\ agent[q][a].st # "raised" /\ rec.st \notin {"free", "ended"}
        /\ pending[q] \subseteq pending'[q] \cup rec.todo
    BY <2>1, <2>2, <2>5
  <2>8. \A r \in Runs \ {q} : pending'[r] = pending[r] /\ erred'[r] = erred[r]
    BY <2>5, <2>6
  <2> QED
    BY <1>s, <2>3, <2>4, <2>6, <2>7, <2>8, Zenon
<1>9. CASE Collect(q)
  <2>1. PICK a \in Agents :
          /\ agent[q][a].st \in {"ended", "raised"} \/ erred[q]
          /\ agent' = [agent EXCEPT ![q][a] = Free]
          /\ erred' = [erred EXCEPT ![q] = @ \/ agent[q][a].st = "raised"]
    BY <1>9, Zenon DEF Collect
  <2>2. erred'[q] = (erred[q] \/ agent[q][a].st = "raised")
    BY <2>1, <1>t, Zenon
  <2>3. \A r \in Runs \ {q} : erred'[r] = erred[r]
    BY <2>1, <1>t, Zenon
  <2>4. agent[q][a].todo = {} \/ erred'[q]
    BY <2>1, <2>2, Zenon DEF IInv, RestingIsIdle
  <2>5. mem' = mem /\ pc' = pc /\ pending' = pending /\ Free.todo = {}
    BY <1>9, Zenon DEF Collect, Free
  <2>6. agent[q][a].st = "raised" => erred'[q]
    BY <2>2
  <2>7. erred'[q] \/ ~erred[q]
    BY <2>2
  <2> QED
    BY <1>s, <2>1, <2>3, <2>4, <2>5, <2>6, <2>7
<1> QED
  BY <1>1, <1>2, <1>3, <1>4, <1>5, <1>6, <1>7, <1>8, <1>9, Zenon DEF MainStep

LEMMA StepAccounted == IInv /\ [Next]_vars => IInv'
<1> SUFFICES ASSUME IInv, [Next]_vars PROVE IInv'
  OBVIOUS
<1>0. TInv'
  BY StepTyped DEF IInv
<1>1. CASE UNCHANGED vars
  BY <1>0, <1>1, Zenon DEF vars, IInv, RestingIsIdle, Accounted, NothingForgotten, Settled, InHand
<1>2. ASSUME NEW r \in Runs, Start(r) \/ MainStep(r) PROVE IInv'
  BY <1>0, <1>2, MainAccounts DEF IInv
<1>3. ASSUME NEW r \in Runs, NEW a \in Agents, AgentStep(r, a) PROVE IInv'
  BY <1>0, <1>3, AgentAccounts DEF IInv
<1>4. CASE Crash
  <2>1. pc \in [Runs -> PCs]
    BY SMT DEF IInv, TInv, TypeOK, PCs
  <2>2. \A r \in Runs : pc'[r] \notin {"schedule"} /\ (pc'[r] = "failed" => pc[r] = "failed")
    BY <1>4, <2>1, SMT DEF Crash, Active, Ended
  <2>3. \A r \in Runs : pc[r] = "failed" => mem'[r] = mem[r]
    BY <1>4, SMT DEF Crash, Active, Ended
  <2>4. RestingIsIdle'
    BY <1>4, SMT DEF Crash, RestingIsIdle, Free
  <2>5. Accounted'
    BY <2>2 DEF Accounted
  <2>6. NothingForgotten'
    <3> SUFFICES ASSUME NEW r \in Runs, pc'[r] = "failed" PROVE mem'[r].files = {}
      BY DEF NothingForgotten
    <3> QED BY <2>2, <2>3 DEF IInv, NothingForgotten
  <2> QED
    BY <1>0, <2>4, <2>5, <2>6 DEF IInv
<1> QED
  BY <1>1, <1>2, <1>3, <1>4, Zenon DEF Next

\* However the files depend on each other, and whichever tasks fail: a run that
\* has a plan never ends with files that nobody wrote and nobody gave up
\* (run, "some files could not be made").
THEOREM NothingForgottenCorrect == Spec => []NothingForgotten
<1>1. Spec => []IInv
  BY InitAccounted, StepAccounted, PTL DEF Spec
<1> QED
  BY <1>1, PTL DEF IInv

-----------------------------------------------------------------------------
(* A file is written with the files it uses in sight. *)

\* A slot works on files of its batch, and only while its run has a schedule.
SlotKept(r, a) ==
    LET t == agent[r][a] IN
    /\ t.todo \subseteq t.batch
    /\ t.st = "free" => t.batch = {}
    /\ t.st \in {"ended", "raised"} => t.todo = {}
    /\ t.st \in {"gate", "store"} => t.file \in t.todo
    /\ pc[r] # "schedule" => t.st = "free"

\* No file that f uses is to come, and the task knew those that are done when it
\* began.
Sees(r, a, f) ==
    /\ UnmetStrong(r, f) = {}
    /\ agent[r][a].st # "begin" =>
           Strong(f, mem[r].files) \cap mem[r].done \subseteq agent[r][a].context

\* What is to come waits in a circle, and nobody else works.
Cornered(r, a) == InCircle(r) /\ \A b \in Agents \ {a} : agent[r][b].batch = {}

SeesUses(r, a) == \A f \in agent[r][a].todo : Sees(r, a, f) \/ Cornered(r, a)

KeptInv == TInv /\ \A r \in Runs, a \in Agents : SlotKept(r, a)

SeenInv == KeptInv /\ \A r \in Runs, a \in Agents : SeesUses(r, a)

KeepsBoth == KeptInv' /\ (SeenInv => SeenInv')

LEMMA SeenImplies == SeenInv => UsedFileSeen
<1> SUFFICES ASSUME SeenInv, NEW r \in Runs, NEW a \in Agents,
                    agent[r][a].st \in {"next", "gate", "store", "save", "write"},
                    NEW f \in agent[r][a].todo
             PROVE  \/ /\ UnmetStrong(r, f) = {}
                       /\ Strong(f, mem[r].files) \cap mem[r].done \subseteq agent[r][a].context
                    \/ InCircle(r)
  BY DEF UsedFileSeen
<1> QED
  BY DEF SeenInv, SeesUses, Sees, Cornered

LEMMA ReadyClear == \A r \in Runs : \A f \in Ready(r) : UnmetStrong(r, f) = {}
BY SMT DEF Ready, Unmet, UnmetStrong

\* When nobody works, what starts waits for no file it uses, unless every file
\* does.
LEMMA StuckClear ==
    ASSUME KeptInv, NEW r \in Runs, PoolEmpty(r), NEW f \in Stuck(r)
    PROVE  UnmetStrong(r, f) = {} \/ InCircle(r)
<1> DEFINE soft == {g \in pending[r] : UnmetStrong(r, g) = {}}
           pool == IF soft # {} THEN soft ELSE pending[r]
<1>1. f \in pool
  BY Zenon DEF Stuck
<1>2. Open(r) = pending[r]
  <2>1. \A a \in Agents : agent[r][a].batch = {}
    BY Zenon DEF PoolEmpty, KeptInv, SlotKept
  <2> QED
    BY <2>1, SMT DEF Open, Running
<1>3. CASE soft = {}
  BY <1>2, <1>3 DEF InCircle
<1>4. CASE soft # {}
  <2> HIDE DEF soft
  <2>1. f \in soft
    BY <1>1, <1>4
  <2> QED
    BY <2>1 DEF soft
<1> QED
  BY <1>3, <1>4

LEMMA StartsClear ==
    ASSUME KeptInv, NEW r \in Runs, NEW f \in Startable(r), NEW batch \in Batches(r, f)
    PROVE  \/ \A g \in batch : UnmetStrong(r, g) = {}
           \/ InCircle(r) /\ PoolEmpty(r)
<1>1. CASE f \in Ready(r)
  <2>1. batch \subseteq Ready(r)
    BY <1>1, SMT DEF Batches
  <2> QED
    BY <2>1, ReadyClear
<1>2. CASE f \notin Ready(r)
  <2>1. batch = {f}
    BY <1>2, Zenon DEF Batches
  <2>2. f \in Stuck(r) /\ PoolEmpty(r)
    BY <1>2, Zenon DEF Startable, PoolEmpty
  <2> QED
    BY <2>1, <2>2, StuckClear
<1> QED
  BY <1>1, <1>2

\* While one works in a circle, nothing else starts.
LEMMA CircleWaits ==
    ASSUME NEW r \in Runs, InCircle(r), ~PoolEmpty(r)
    PROVE  Startable(r) = {}
<1>1. Ready(r) = {}
  <2> SUFFICES ASSUME NEW f \in Ready(r) PROVE FALSE
    OBVIOUS
  <2>1. f \in Open(r) /\ UnmetStrong(r, f) = {}
    BY ReadyClear DEF Ready, Open
  <2> QED
    BY <2>1 DEF InCircle
<1> QED
  BY <1>1, Zenon DEF Startable, PoolEmpty

\* A run whose slots are free may change as it likes.
LEMMA RestSees ==
    ASSUME KeptInv, TInv', agent' = agent,
           \A r \in Runs : \/ PoolEmpty(r)
                           \/ /\ pc'[r] = pc[r] /\ mem'[r] = mem[r]
                              /\ pending'[r] = pending[r]
    PROVE  KeepsBoth
<1> SUFFICES ASSUME NEW r \in Runs, NEW a \in Agents
             PROVE  SlotKept(r, a)' /\ (SeesUses(r, a) => SeesUses(r, a)')
  BY DEF KeepsBoth, KeptInv, SeenInv
<1>0. SlotKept(r, a)
  BY DEF KeptInv
<1>1. CASE PoolEmpty(r)
  <2>1. agent[r][a].st = "free" /\ agent[r][a].todo = {}
    BY <1>0, <1>1 DEF PoolEmpty, SlotKept
  <2> QED
    BY <1>0, <2>1 DEF SlotKept, SeesUses
<1>2. CASE pc'[r] = pc[r] /\ mem'[r] = mem[r] /\ pending'[r] = pending[r]
  <2>1. Open(r)' = Open(r) /\ \A f : UnmetStrong(r, f)' = UnmetStrong(r, f)
    BY <1>2, Zenon DEF UnmetStrong, Open, Running
  <2>2. SlotKept(r, a)'
    BY <1>0, <1>2, Zenon DEF SlotKept
  <2>3. ASSUME NEW f, Sees(r, a, f) PROVE Sees(r, a, f)'
    BY <1>2, <2>1, <2>3, Zenon DEF Sees
  <2>4. InCircle(r) => InCircle(r)'
    BY <2>1, Zenon DEF InCircle
  <2>5. Cornered(r, a) => Cornered(r, a)'
    BY <2>4, Zenon DEF Cornered
  <2> QED
    BY <2>2, <2>3, <2>5, Zenon DEF SeesUses
<1> QED
  BY <1>1, <1>2

\* What a task finishes is a file that nobody who works at the same time uses.
LEMMA WorkSees ==
    ASSUME KeptInv, TInv', NEW q \in Runs, NEW a \in Agents, NEW rec,
           agent' = [agent EXCEPT ![q][a] = rec], agent[q][a].st # "free",
           pc' = pc, pending' = pending,
           \A r \in Runs \ {q} : mem'[r] = mem[r],
           mem'[q].files = mem[q].files,
           mem'[q].done \subseteq mem[q].done \cup agent[q][a].todo,
           rec.batch = agent[q][a].batch, rec.todo \subseteq agent[q][a].todo,
           rec.st \notin {"free", "begin"},
           rec.st \in {"ended", "raised"} => rec.todo = {},
           rec.st \in {"gate", "store"} => rec.file \in rec.todo,
           \/ agent[q][a].st # "begin" /\ rec.context = agent[q][a].context
           \/ rec.context = mem[q].done /\ mem'[q].done = mem[q].done
    PROVE  KeepsBoth
<1>t. agent \in [Runs -> [Agents -> Tasks]]
  BY DEF KeptInv, TInv, TypeOK
<1>1. \A r \in Runs, b \in Agents :
          agent'[r][b] = IF r = q /\ b = a THEN rec ELSE agent[r][b]
  BY <1>t, SMT
<1>2. \A r \in Runs, b \in Agents : /\ agent'[r][b].batch = agent[r][b].batch
                                    /\ agent'[r][b].todo \subseteq agent[r][b].todo
  <2> SUFFICES ASSUME NEW r \in Runs, NEW b \in Agents
               PROVE  /\ agent'[r][b].batch = agent[r][b].batch
                      /\ agent'[r][b].todo \subseteq agent[r][b].todo
    OBVIOUS
  <2>1. CASE r = q /\ b = a
    <3>1. agent'[r][b] = rec
      BY <1>1, <2>1
    <3> QED
      BY <2>1, <3>1
  <2>2. CASE ~(r = q /\ b = a)
    <3>1. agent'[r][b] = agent[r][b]
      BY <1>1, <2>2
    <3> QED
      BY <3>1
  <2> QED
    BY <2>1, <2>2
<1>3. \A r \in Runs : mem'[r].files = mem[r].files
  BY Zenon
<1>4. ASSUME NEW r \in Runs
      PROVE  Open(r)' = Open(r) /\ \A f : UnmetStrong(r, f)' = UnmetStrong(r, f)
  <2>1. Running(r)' = Running(r)
    BY <1>2, SMT DEF Running
  <2> QED
    BY <1>3, <2>1, Zenon DEF UnmetStrong, Open
<1>c. ASSUME NEW r \in Runs, NEW b \in Agents, Cornered(r, b) PROVE Cornered(r, b)'
  <2>1. InCircle(r)'
    BY <1>4, <1>c, Zenon DEF Cornered, InCircle
  <2>2. \A c \in Agents \ {b} : agent'[r][c].batch = {}
    BY <1>2, <1>c, Zenon DEF Cornered
  <2> QED
    BY <2>1, <2>2, Zenon DEF Cornered
<1> SUFFICES ASSUME NEW r \in Runs, NEW b \in Agents
             PROVE  SlotKept(r, b)' /\ ((\A c \in Agents : SeesUses(r, c)) => SeesUses(r, b)')
  BY DEF KeepsBoth, KeptInv, SeenInv
<1>5. SlotKept(r, b) /\ SlotKept(q, a)
  BY DEF KeptInv
<1>6. SlotKept(r, b)'
  <2>1. CASE r = q /\ b = a
    <3>1. agent'[r][b] = rec
      BY <1>1, <2>1
    <3>2. rec.todo \subseteq rec.batch /\ pc[q] = "schedule"
      BY <1>5, Zenon DEF SlotKept
    <3> QED
      BY <2>1, <3>1, <3>2, Zenon DEF SlotKept
  <2>2. CASE ~(r = q /\ b = a)
    <3>1. agent'[r][b] = agent[r][b]
      BY <1>1, <2>2
    <3> QED
      BY <1>5, <3>1, Zenon DEF SlotKept
  <2> QED
    BY <2>1, <2>2
<1>7. ASSUME SeesUses(r, b) PROVE SeesUses(r, b)'
  <2> SUFFICES ASSUME NEW f \in agent'[r][b].todo, ~Cornered(r, b)
               PROVE  /\ UnmetStrong(r, f)' = {}
                      /\ agent'[r][b].st # "begin" =>
                           Strong(f, mem'[r].files) \cap mem'[r].done \subseteq agent'[r][b].context
    BY <1>c, Zenon DEF SeesUses, Sees
  <2>1. f \in agent[r][b].todo
    BY <1>2
  <2>s. Sees(r, b, f)
    BY <1>7, <2>1 DEF SeesUses
  <2>2. UnmetStrong(r, f) = {} /\ UnmetStrong(r, f)' = {}
    BY <1>4, <2>s DEF Sees
  <2>3. ASSUME agent'[r][b].st # "begin",
               NEW g \in Strong(f, mem'[r].files), g \in mem'[r].done
        PROVE  g \in agent'[r][b].context
    <3>0. g \in Strong(f, mem[r].files)
      BY <1>3, <2>3
    <3>1. CASE g \in mem[r].done
      <4>1. CASE r = q /\ b = a
        <5>1. agent'[r][b] = rec
          BY <1>1, <4>1
        <5>2. CASE agent[q][a].st # "begin" /\ rec.context = agent[q][a].context
          <6>1. g \in agent[r][b].context
            BY <2>s, <3>0, <3>1, <4>1, <5>2 DEF Sees
          <6> QED
            BY <4>1, <5>1, <5>2, <6>1
        <5>3. CASE rec.context = mem[q].done /\ mem'[q].done = mem[q].done
          BY <3>1, <4>1, <5>1, <5>3
        <5> QED
          BY <5>2, <5>3
      <4>2. CASE ~(r = q /\ b = a)
        <5>1. agent'[r][b] = agent[r][b]
          BY <1>1, <4>2
        <5>2. agent[r][b].st # "begin"
          BY <2>3, <5>1
        <5>3. g \in agent[r][b].context
          BY <2>s, <3>0, <3>1, <5>2 DEF Sees
        <5> QED
          BY <5>1, <5>3
      <4> QED
        BY <4>1, <4>2
    <3>2. CASE g \notin mem[r].done
      <4>1. r = q /\ g \in agent[q][a].todo
        BY <2>3, <3>2, Zenon
      <4>2. g \in agent[q][a].batch
        BY <1>5, <4>1 DEF SlotKept
      <4>3. g \in Open(r)
        BY <4>1, <4>2 DEF Open, Running
      <4> QED
        BY <2>2, <3>0, <4>3 DEF UnmetStrong
    <3> QED
      BY <3>1, <3>2
  <2> QED
    BY <2>2, <2>3
<1> QED
  BY <1>6, <1>7

\* The fields a task keeps, and those it changes.
LEMMA AgentSees ==
    ASSUME KeptInv, TInv', NEW q \in Runs, NEW a \in Agents, AgentStep(q, a)
    PROVE  KeepsBoth
<1> DEFINE t == agent[q][a]
<1>t. t \in Tasks /\ mem \in [Runs -> States] /\ mem[q] \in States
  BY DEF KeptInv, TInv, TypeOK
<1>k. SlotKept(q, a)
  BY DEF KeptInv
<1>h. t.st \in {"gate", "store"} => t.file \in t.todo
  BY <1>k DEF SlotKept
<1>w. t.todo \subseteq Files
  BY <1>t, SMT DEF Tasks
\* A task that goes on, and leaves the plan and what is done alone.
<1>g. ASSUME NEW rec, agent' = [agent EXCEPT ![q][a] = rec], t.st \notin {"free", "begin"},
             UNCHANGED <<pc, pending>>, NEW m, mem' = [mem EXCEPT ![q] = m],
             m.files = mem[q].files, m.done \subseteq mem[q].done \cup t.todo,
             rec.batch = t.batch, rec.todo \subseteq t.todo, rec.context = t.context,
             rec.st \notin {"free", "begin"},
             rec.st \in {"ended", "raised"} => rec.todo = {},
             rec.st \in {"gate", "store"} => rec.file \in rec.todo
      PROVE  KeepsBoth
  <2>1. mem'[q] = m /\ \A r \in Runs \ {q} : mem'[r] = mem[r]
    BY <1>g, <1>t
  <2> QED
    BY <1>g, <2>1, WorkSees
<1>u. mem' = mem => mem' = [mem EXCEPT ![q] = mem[q]]
  BY <1>t
<1> HIDE DEF t
<1>1. CASE Begin(q, a)
  <2> DEFINE rec == [t EXCEPT !.st = "next", !.context = mem[q].done]
  <2>1. rec.st = "next" /\ rec.context = mem[q].done /\ rec.batch = t.batch /\ rec.todo = t.todo
    BY <1>t, SMT DEF Tasks
  <2>2. agent' = [agent EXCEPT ![q][a] = rec] /\ t.st = "begin" /\ UNCHANGED <<pc, pending, mem>>
    BY <1>1, Zenon DEF Begin, Step, t
  <2> HIDE DEF rec
  <2> QED
    BY <2>1, <2>2, WorkSees DEF t
<1>2. CASE End(q, a)
  <2> DEFINE rec == [t EXCEPT !.st = "ended", !.todo = {}]
  <2>1. rec.st = "ended" /\ rec.context = t.context /\ rec.batch = t.batch /\ rec.todo = {}
    BY <1>t, SMT DEF Tasks
  <2>2. agent' = [agent EXCEPT ![q][a] = rec] /\ t.st = "next" /\ UNCHANGED <<pc, pending, mem>>
    BY <1>2, Zenon DEF End, Step, t
  <2> HIDE DEF rec
  <2> QED
    BY <1>g, <1>u, <2>1, <2>2
<1>3. CASE Write(q, a)
  <2>1. PICK f \in Files : Current(q, a, f) /\ Step(q, a, [t EXCEPT !.st = "gate", !.file = f, !.view = mem[q]])
    BY <1>3, Zenon DEF Write, t
  <2> DEFINE rec == [t EXCEPT !.st = "gate", !.file = f, !.view = mem[q]]
  <2>2. rec.st = "gate" /\ rec.context = t.context /\ rec.batch = t.batch /\ rec.todo = t.todo /\ rec.file = f
    BY <1>t, SMT DEF Tasks
  <2>3. agent' = [agent EXCEPT ![q][a] = rec] /\ t.st = "next" /\ f \in t.todo
    BY <2>1, Zenon DEF Current, Step, t
  <2>4. UNCHANGED <<pc, pending, mem>>
    BY <1>3 DEF Write
  <2> HIDE DEF rec
  <2> QED
    BY <1>g, <1>u, <2>2, <2>3, <2>4
<1>4. CASE WriteFails(q, a)
  <2>1. PICK f \in Files :
          /\ Current(q, a, f)
          /\ mem' = [mem EXCEPT ![q].tries[f] = @ + 1]
          /\ \E file \in IF t.batch = {f} \/ mem[q].tries[f] > 0 THEN {f} ELSE {f, None} :
               Step(q, a, [t EXCEPT !.st = "save", !.file = file])
    BY <1>4, Zenon DEF WriteFails, t
  <2>2. PICK file \in {f, None} : Step(q, a, [t EXCEPT !.st = "save", !.file = file])
    BY <2>1, Zenon
  <2> DEFINE rec == [t EXCEPT !.st = "save", !.file = file]
             m == [mem[q] EXCEPT !.tries[f] = @ + 1]
  <2>3. rec.st = "save" /\ rec.context = t.context /\ rec.batch = t.batch /\ rec.todo = t.todo
    BY <1>t, SMT DEF Tasks
  <2>4. agent' = [agent EXCEPT ![q][a] = rec] /\ t.st = "next"
    BY <2>1, <2>2, Zenon DEF Current, Step, t
  <2>5. m.files = mem[q].files /\ m.done = mem[q].done
    BY <1>t, SMT DEF States
  <2>6. mem' = [mem EXCEPT ![q] = m]
    BY <2>1, Zenon
  <2>7. UNCHANGED <<pc, pending>>
    BY <1>4 DEF WriteFails
  <2> HIDE DEF rec, m
  <2> QED
    BY <1>g, <2>3, <2>4, <2>5, <2>6, <2>7
<1>5. CASE WriteRaises(q, a)
  <2> DEFINE rec == [t EXCEPT !.st = "raised", !.todo = {}, !.file = None, !.view = NoState]
  <2>1. rec.st = "raised" /\ rec.context = t.context /\ rec.batch = t.batch /\ rec.todo = {}
    BY <1>t, SMT DEF Tasks
  <2>2. agent' = [agent EXCEPT ![q][a] = rec] /\ UNCHANGED <<pc, pending, mem>>
    BY <1>5, Zenon DEF WriteRaises, Step, t
  <2>3. t.st \in {"gate", "next"}
    BY <1>5, Zenon DEF WriteRaises, Current, t
  <2> HIDE DEF rec
  <2> QED
    BY <1>g, <1>u, <2>1, <2>2, <2>3
<1>6. CASE GiveUp(q, a)
  <2>1. PICK f \in Files :
          /\ Current(q, a, f)
          /\ mem' = [mem EXCEPT ![q] = GivenUp(mem[q], f)]
          /\ Step(q, a, [t EXCEPT !.st = "save", !.file = None, !.todo = @ \ {f}])
    BY <1>6, Zenon DEF GiveUp, t
  <2> DEFINE rec == [t EXCEPT !.st = "save", !.file = None, !.todo = @ \ {f}]
  <2>2. rec.st = "save" /\ rec.context = t.context /\ rec.batch = t.batch /\ rec.todo = t.todo \ {f}
    BY <1>t, SMT DEF Tasks
  <2>3. agent' = [agent EXCEPT ![q][a] = rec] /\ t.st = "next" /\ f \in t.todo
    BY <2>1, Zenon DEF Current, Step, t
  <2>4. GivenUp(mem[q], f).files = mem[q].files
    BY <1>t, FinishedKeeps
  <2>5. GivenUp(mem[q], f).done \subseteq mem[q].done \cup {f}
    BY <1>t, SMT DEF GivenUp, Finished, States
  <2>6. UNCHANGED <<pc, pending>>
    BY <1>6 DEF GiveUp
  <2> HIDE DEF rec
  <2>7. GivenUp(mem[q], f).done \subseteq mem[q].done \cup t.todo /\ rec.todo \subseteq t.todo
    BY <2>2, <2>3, <2>5
  <2> QED
    BY <1>g, <2>1, <2>2, <2>3, <2>4, <2>6, <2>7
<1>7. CASE GateRepairs(q, a)
  <2>1. PICK fx : mem' = [mem EXCEPT ![q].fixes = fx]
    BY <1>7, Zenon DEF GateRepairs
  <2> DEFINE rec == [t EXCEPT !.st = "store", !.view = NoState]
             m == [mem[q] EXCEPT !.fixes = fx]
  <2>2. rec.st = "store" /\ rec.context = t.context /\ rec.batch = t.batch /\ rec.todo = t.todo /\ rec.file = t.file
    BY <1>t, SMT DEF Tasks
  <2>3. agent' = [agent EXCEPT ![q][a] = rec] /\ t.st = "gate"
    BY <1>7, Zenon DEF GateRepairs, Step, t
  <2>4. m.files = mem[q].files /\ m.done = mem[q].done
    BY <1>t, SMT DEF States
  <2>5. mem' = [mem EXCEPT ![q] = m]
    BY <2>1, Zenon
  <2>6. UNCHANGED <<pc, pending>>
    BY <1>7 DEF GateRepairs
  <2> HIDE DEF rec, m
  <2> QED
    BY <1>g, <1>h, <2>2, <2>3, <2>4, <2>5, <2>6
<1>8. CASE Store(q, a)
  <2> DEFINE f == t.file
             rec == [t EXCEPT !.st = "save", !.file = None, !.todo = @ \ {f}]
  <2>1. t.st = "store" /\ f \in t.todo /\ f \in Files
    BY <1>8, <1>h, <1>w DEF Store, t
  <2>2. rec.st = "save" /\ rec.context = t.context /\ rec.batch = t.batch /\ rec.todo = t.todo \ {f}
    BY <1>t, SMT DEF Tasks
  <2>3. agent' = [agent EXCEPT ![q][a] = rec] /\ mem' = [mem EXCEPT ![q] = Finished(mem[q], f)]
    BY <1>8, Zenon DEF Store, Step, t
  <2> HIDE DEF rec, f
  <2>4. Finished(mem[q], f).files = mem[q].files /\ Finished(mem[q], f).done = mem[q].done \cup {f}
    BY <1>t, <2>1, FinishedKeeps
  <2>5. UNCHANGED <<pc, pending>>
    BY <1>8 DEF Store
  <2>6. Finished(mem[q], f).done \subseteq mem[q].done \cup t.todo /\ rec.todo \subseteq t.todo
    BY <2>1, <2>2, <2>4
  <2> QED
    BY <1>g, <2>1, <2>2, <2>3, <2>4, <2>5, <2>6
<1>9. CASE Snapshot(q, a)
  <2> DEFINE rec == [t EXCEPT !.st = "write", !.snap = mem[q]]
  <2>1. rec.st = "write" /\ rec.context = t.context /\ rec.batch = t.batch /\ rec.todo = t.todo
    BY <1>t, SMT DEF Tasks
  <2>2. agent' = [agent EXCEPT ![q][a] = rec] /\ t.st = "save" /\ UNCHANGED <<pc, pending, mem>>
    BY <1>9, Zenon DEF Snapshot, Step, t
  <2> HIDE DEF rec
  <2> QED
    BY <1>g, <1>u, <2>1, <2>2
<1>10. CASE SaveSnapshot(q, a)
  <2> DEFINE rec == [t EXCEPT !.st = "next", !.snap = NoState]
  <2>1. rec.st = "next" /\ rec.context = t.context /\ rec.batch = t.batch /\ rec.todo = t.todo
    BY <1>t, SMT DEF Tasks
  <2>2. agent' = [agent EXCEPT ![q][a] = rec] /\ t.st = "write" /\ UNCHANGED <<pc, pending, mem>>
    BY <1>10, Zenon DEF SaveSnapshot, Step, t
  <2> HIDE DEF rec
  <2> QED
    BY <1>g, <1>u, <2>1, <2>2
<1> QED
  BY <1>1, <1>2, <1>3, <1>4, <1>5, <1>6, <1>7, <1>8, <1>9, <1>10, Zenon DEF AgentStep

\* A task that ends frees its slot.
LEMMA CollectSees ==
    ASSUME KeptInv, TInv', NEW q \in Runs, Collect(q)
    PROVE  KeepsBoth
<1>t. agent \in [Runs -> [Agents -> Tasks]]
  BY DEF KeptInv, TInv, TypeOK
<1>0. PICK a \in Agents : agent' = [agent EXCEPT ![q][a] = Free]
  BY Zenon DEF Collect
<1>f. Free.st = "free" /\ Free.batch = {} /\ Free.todo = {}
  BY DEF Free
<1>1. \A r \in Runs, b \in Agents :
          agent'[r][b] = IF r = q /\ b = a THEN Free ELSE agent[r][b]
  BY <1>0, <1>t, SMT
<1>2. mem' = mem /\ pc' = pc /\ pending' = pending
  BY DEF Collect
<1> SUFFICES ASSUME NEW r \in Runs, NEW b \in Agents
             PROVE  SlotKept(r, b)' /\ ((\A c \in Agents : SeesUses(r, c)) => SeesUses(r, b)')
  BY DEF KeepsBoth, KeptInv, SeenInv
<1>3. SlotKept(r, b)
  BY DEF KeptInv
<1>4. CASE r = q /\ b = a
  <2>1. agent'[r][b] = Free
    BY <1>1, <1>4
  <2> QED
    BY <1>f, <2>1, Zenon DEF SlotKept, SeesUses
<1>5. CASE ~(r = q /\ b = a)
  <2>1. agent'[r][b] = agent[r][b]
    BY <1>1, <1>5
  <2>2. \A f : UnmetStrong(r, f)' \subseteq UnmetStrong(r, f)
    <3>1. \A c \in Agents : agent'[r][c].batch \subseteq agent[r][c].batch
      BY <1>1, <1>f, Zenon
    <3>2. Running(r)' \subseteq Running(r)
      BY <3>1, SMT DEF Running
    <3>3. Open(r)' \subseteq Open(r)
      BY <1>2, <3>2, SMT DEF Open
    <3>4. \A f : Strong(f, mem'[r].files) = Strong(f, mem[r].files)
      BY <1>2
    <3> HIDE DEF Open, Strong
    <3> QED
      BY <1>2, <3>3, <3>4 DEF UnmetStrong
  <2>3. ASSUME NEW f, Sees(r, b, f) PROVE Sees(r, b, f)'
    BY <1>2, <2>1, <2>2, <2>3, Zenon DEF Sees
  <2>4. ASSUME Cornered(r, b) PROVE Cornered(r, b)'
    <3>1. \A c \in Agents : agent'[r][c].batch = agent[r][c].batch
      BY <1>1, <1>5, <1>f, <2>4, Zenon DEF Cornered
    <3>2. Open(r)' = Open(r)
      BY <1>2, <3>1, SMT DEF Open, Running
    <3>3. \A f : UnmetStrong(r, f)' = UnmetStrong(r, f)
      BY <1>2, <3>2, Zenon DEF UnmetStrong
    <3> QED
      BY <2>4, <3>1, <3>2, <3>3, Zenon DEF Cornered, InCircle
  <2>5. SlotKept(r, b)'
    BY <1>2, <1>3, <2>1, Zenon DEF SlotKept
  <2> QED
    BY <2>1, <2>3, <2>4, <2>5, Zenon DEF SeesUses
<1> QED
  BY <1>4, <1>5

\* What is dispatched uses no file that is to come, and it was to come itself:
\* who works waits for nothing new.
LEMMA DispatchSees ==
    ASSUME KeptInv, TInv', NEW q \in Runs, Dispatch(q)
    PROVE  KeepsBoth
<1>t. /\ agent \in [Runs -> [Agents -> Tasks]] /\ pending \in [Runs -> SUBSET Files]
  BY DEF KeptInv, TInv, TypeOK
<1>a. PICK a \in Agents, f \in Startable(q) : \E batch \in Batches(q, f) :
          /\ agent[q][a].st = "free"
          /\ pending' = [pending EXCEPT ![q] = @ \ batch]
          /\ agent' = [agent EXCEPT ![q][a] =
                 [Free EXCEPT !.st = "begin", !.batch = batch, !.todo = batch]]
  BY Zenon DEF Dispatch
<1>b. PICK batch \in Batches(q, f) :
          /\ agent[q][a].st = "free"
          /\ pending' = [pending EXCEPT ![q] = @ \ batch]
          /\ agent' = [agent EXCEPT ![q][a] =
                 [Free EXCEPT !.st = "begin", !.batch = batch, !.todo = batch]]
  BY <1>a, Zenon
<1> DEFINE rec == [Free EXCEPT !.st = "begin", !.batch = batch, !.todo = batch]
<1>1. rec.st = "begin" /\ rec.todo = batch /\ rec.batch = batch
  BY SMT DEF Free
<1>2. agent' = [agent EXCEPT ![q][a] = rec]
  BY <1>b
<1> HIDE DEF rec
<1>3. \A r \in Runs, b \in Agents :
          agent'[r][b] = IF r = q /\ b = a THEN rec ELSE agent[r][b]
  BY <1>2, <1>t, SMT
<1>4. mem' = mem /\ pc' = pc /\ pc[q] = "schedule"
  BY DEF Dispatch
<1>5. batch \subseteq pending[q]
  BY BatchType
<1>n. \/ \A g \in batch : UnmetStrong(q, g) = {}
      \/ InCircle(q) /\ PoolEmpty(q)
  BY StartsClear
<1>6. agent[q][a].batch = {}
  BY <1>b DEF KeptInv, SlotKept
<1>7. \A r \in Runs : Open(r)' = Open(r)
  <2> SUFFICES ASSUME NEW r \in Runs PROVE Open(r)' = Open(r)
    OBVIOUS
  <2>1. CASE r = q
    <3>1. pending'[q] = pending[q] \ batch
      BY <1>b, <1>t
    <3>2. Running(q)' = Running(q) \cup batch
      <4>1. \A b \in Agents : agent'[q][b].batch = IF b = a THEN batch ELSE agent[q][b].batch
        BY <1>1, <1>3, Zenon
      <4> QED
        BY <1>6, <4>1, SMT DEF Running
    <3> QED
      BY <1>5, <2>1, <3>1, <3>2, SMT DEF Open
  <2>2. CASE r # q
    <3>1. pending'[r] = pending[r] /\ \A b \in Agents : agent'[r][b] = agent[r][b]
      BY <1>b, <1>3, <1>t, <2>2
    <3> QED
      BY <3>1, SMT DEF Open, Running
  <2> QED
    BY <2>1, <2>2
<1>8. \A r \in Runs : \A g : UnmetStrong(r, g)' = UnmetStrong(r, g)
  BY <1>4, <1>7, Zenon DEF UnmetStrong
<1> SUFFICES ASSUME NEW r \in Runs, NEW b \in Agents
             PROVE  SlotKept(r, b)' /\ ((\A c \in Agents : SeesUses(r, c)) => SeesUses(r, b)')
  BY DEF KeepsBoth, KeptInv, SeenInv
<1>9. SlotKept(r, b)
  BY DEF KeptInv
<1>10. CASE r = q /\ b = a
  <2>1. agent'[r][b] = rec
    BY <1>3, <1>10
  <2>2. SlotKept(r, b)'
    BY <1>1, <1>4, <1>10, <2>1, SMT DEF SlotKept
  <2>3. CASE \A g \in batch : UnmetStrong(q, g) = {}
    <3>1. SeesUses(r, b)'
      BY <1>1, <1>8, <1>10, <2>1, <2>3, Zenon DEF SeesUses, Sees
    <3> QED
      BY <2>2, <3>1
  <2>4. CASE InCircle(q) /\ PoolEmpty(q)
    <3>1. InCircle(q)'
      BY <1>7, <1>8, <2>4, Zenon DEF InCircle
    <3>2. \A c \in Agents \ {a} : agent'[q][c].batch = {}
      BY <1>3, <2>4, Zenon DEF PoolEmpty, KeptInv, SlotKept
    <3>3. SeesUses(r, b)'
      BY <1>10, <3>1, <3>2, Zenon DEF SeesUses, Cornered
    <3> QED
      BY <2>2, <3>3
  <2> QED
    BY <1>n, <2>3, <2>4
<1>11. CASE ~(r = q /\ b = a)
  <2>1. agent'[r][b] = agent[r][b]
    BY <1>3, <1>11
  <2>2. SlotKept(r, b)'
    BY <1>4, <1>9, <2>1, Zenon DEF SlotKept
  <2>3. ASSUME NEW g, Sees(r, b, g) PROVE Sees(r, b, g)'
    BY <1>4, <1>8, <2>1, <2>3, Zenon DEF Sees
  <2>4. ASSUME NEW g \in agent[r][b].todo, Cornered(r, b) PROVE Cornered(r, b)'
    <3>1. r # q
      <4>1. agent[r][b].st # "free"
        BY <1>9, <2>4 DEF SlotKept
      <4> QED
        BY <1>a, <2>4, <4>1, CircleWaits DEF Cornered, PoolEmpty
    <3>2. \A c \in Agents : agent'[r][c] = agent[r][c]
      BY <1>3, <3>1
    <3> QED
      BY <1>7, <1>8, <2>4, <3>2, Zenon DEF Cornered, InCircle
  <2> QED
    BY <2>1, <2>2, <2>3, <2>4, Zenon DEF SeesUses
<1> QED
  BY <1>10, <1>11

LEMMA MainSees ==
    ASSUME KeptInv, TInv', NEW q \in Runs, MainStep(q) \/ Start(q)
    PROVE  KeepsBoth
<1>t. /\ pc \in [Runs -> PCs] /\ mem \in [Runs -> States] /\ pending \in [Runs -> SUBSET Files]
  BY SMT DEF KeptInv, TInv, TypeOK, PCs
<1>p. \A r \in Runs : pc[r] # "schedule" => PoolEmpty(r)
  BY Zenon DEF KeptInv, SlotKept, PoolEmpty
<1>o. ASSUME agent' = agent, PoolEmpty(q),
             \A r \in Runs \ {q} :
                 \/ PoolEmpty(r)
                 \/ pc'[r] = pc[r] /\ mem'[r] = mem[r] /\ pending'[r] = pending[r]
      PROVE  KeepsBoth
  BY <1>o, RestSees
<1>1. CASE Start(q)
  <2>1. PICK sk \in BOOLEAN :
          mem' = [s \in Runs |->
                 IF s = q
                 THEN IF disk.kind = "result" THEN disk.mem ELSE Resumed(disk.mem, sk)
                 ELSE IF Active(s) THEN mem[s] ELSE NoState]
    BY <1>1, Zenon DEF Start
  <2>2. ASSUME NEW r \in Runs \ {q}, pc[r] = "schedule"
        PROVE  pc'[r] = pc[r] /\ mem'[r] = mem[r] /\ pending'[r] = pending[r]
    <3>1. Active(r)
      BY <2>2, SMT DEF Active, Ended
    <3>2. mem'[r] = mem[r] /\ pending'[r] = pending[r]
      BY <1>1, <2>1, <3>1, Zenon DEF Start
    <3>3. pc'[r] = pc[r]
      BY <1>1, <1>t DEF Start
    <3> QED
      BY <3>2, <3>3
  <2>3. agent' = agent /\ pc[q] = "idle"
    BY <1>1 DEF Start
  <2> QED
    BY <1>o, <1>p, <2>2, <2>3
<1>2. CASE Plan(q)
  <2>1. pc[q] = "plan" /\ agent' = agent
    BY <1>2 DEF Plan
  <2>2. \A r \in Runs \ {q} : pc'[r] = pc[r] /\ mem'[r] = mem[r] /\ pending'[r] = pending[r]
    BY <1>2, <1>t, SMT DEF Plan
  <2> QED
    BY <1>o, <1>p, <2>1, <2>2
<1>3. CASE FillMissing(q)
  <2>1. PoolEmpty(q) /\ agent' = agent /\ pc' = pc
    BY <1>3 DEF FillMissing, ScheduleDone
  <2>2. PICK m : mem' = [mem EXCEPT ![q] = m] /\ pending' = [pending EXCEPT ![q] = Todo(q, m)]
    BY <1>3, Zenon DEF FillMissing
  <2>3. \A r \in Runs \ {q} : mem'[r] = mem[r] /\ pending'[r] = pending[r]
    BY <1>t, <2>2
  <2> QED
    BY <1>o, <2>1, <2>3
<1>4. CASE PlanFails(q) \/ PauseOnError(q) \/ PauseOnFailed(q) \/ Complete(q) \/ Deliver(q)
  <2>1. agent' = agent /\ mem' = mem /\ pending' = pending
    BY <1>4, Zenon DEF PlanFails, PauseOnError, PauseOnFailed, Complete, Deliver
  <2>2. \A r \in Runs \ {q} : pc'[r] = pc[r]
    <3>1. \E st : pc' = [pc EXCEPT ![q] = st]
      BY <1>4, Zenon DEF PlanFails, PauseOnError, PauseOnFailed, Complete, Deliver, Break
    <3> QED
      BY <3>1, <1>t
  <2>3. PoolEmpty(q)
    BY <1>4, <1>p, SMT DEF PlanFails, PauseOnError, PauseOnFailed, Complete, Deliver, ScheduleDone
  <2> QED
    BY <1>o, <2>1, <2>2, <2>3
<1> QED
  BY <1>1, <1>2, <1>3, <1>4, DispatchSees, CollectSees, Zenon DEF MainStep

LEMMA InitSees == Init => SeenInv
<1> SUFFICES ASSUME Init, NEW r \in Runs, NEW a \in Agents PROVE SlotKept(r, a) /\ SeesUses(r, a)
  BY InitTyped DEF KeptInv, SeenInv
<1>1. agent[r][a] = Free
  BY DEF Init
<1>2. Free.st = "free" /\ Free.batch = {} /\ Free.todo = {}
  BY DEF Free
<1> QED
  BY <1>1, <1>2 DEF SlotKept, SeesUses

LEMMA StepSees == ASSUME KeptInv, [Next]_vars PROVE KeepsBoth
<1>0. TInv'
  BY StepTyped DEF KeptInv
<1>1. CASE UNCHANGED vars
  BY <1>0, <1>1, RestSees, Zenon DEF vars
<1>2. ASSUME NEW r \in Runs, Start(r) \/ MainStep(r) PROVE KeepsBoth
  BY <1>0, <1>2, MainSees
<1>3. ASSUME NEW r \in Runs, NEW a \in Agents, AgentStep(r, a) PROVE KeepsBoth
  BY <1>0, <1>3, AgentSees
<1>4. CASE Crash
  <2> SUFFICES ASSUME NEW r \in Runs, NEW a \in Agents
               PROVE  (SlotKept(r, a) /\ SeesUses(r, a))'
    BY <1>0 DEF KeepsBoth, KeptInv, SeenInv
  <2>1. agent'[r][a] = Free
    BY <1>4 DEF Crash
  <2>2. Free.st = "free" /\ Free.batch = {} /\ Free.todo = {}
    BY DEF Free
  <2> QED
    BY <2>1, <2>2, Zenon DEF SlotKept, SeesUses
<1> QED
  BY <1>1, <1>2, <1>3, <1>4, Zenon DEF Next

\* Every file is written with the files it uses in sight (_schedule, _deps): they
\* are not to come, and the task knew those that are done when it began.  The one
\* exception is a file of a circle: then every file that is to come uses another.
THEOREM UsedFileSeenCorrect == Spec => []UsedFileSeen
<1>1. SeenInv /\ [Next]_vars => SeenInv'
  BY StepSees DEF KeepsBoth, SeenInv
<1>2. Spec => []SeenInv
  BY InitSees, <1>1, PTL DEF Spec
<1> QED
  BY <1>2, SeenImplies, PTL

-----------------------------------------------------------------------------
(* A file that failed is tried again.  Two runs of a job at once replace each *)
(* other's checkpoint: RetryInv holds until there are two (Retries, below).   *)

OneRun == \A r, q \in Runs : Active(r) /\ Active(q) => r = q

\* What failed is forgotten when a job is resumed.
FirstTry == \A r \in Runs : pc[r] = "plan" /\ ~skip[r] => mem[r].failed = {}

Closed(m) == m.done \cup m.failed

\* A task that tries a file once more, or is about to give it up.
Holds(t, f) == f \in t.todo /\ t.file = f /\ t.st \in {"next", "save", "write"}

\* A file whose tries are used up is closed, or somebody is about to do so.
TriesEnd(r) ==
    \A f \in Files : mem[r].tries[f] = MaxTries =>
        f \in Closed(mem[r]) \/ \E a \in Agents : Holds(agent[r][a], f)

\* What is about to be saved knows of no try the run has not made ...
SnapTries(r) ==
    \A a \in Agents, f \in Files :
        agent[r][a].st = "write" /\ agent[r][a].snap.tries[f] = MaxTries =>
            mem[r].tries[f] = MaxTries

\* ... nor does the checkpoint, but for what it has closed.
DiskTries(r) ==
    \A f \in Files : disk.mem.tries[f] = MaxTries =>
        f \in Closed(disk.mem) \/ mem[r].tries[f] = MaxTries

\* A task that is about to save that a file is closed.
Carries(t, f) == t.st = "save" \/ (t.st = "write" /\ f \in Closed(t.snap))

\* What the run has closed is closed in the checkpoint, or will be.
DiskKnows(r) ==
    \A f \in Closed(mem[r]) :
        f \in Closed(disk.mem) \/ \E a \in Agents : Carries(agent[r][a], f)

\* Every file whose tries are used up is closed in the checkpoint.
DiskClosed == \A f \in Files : disk.mem.tries[f] = MaxTries => f \in Closed(disk.mem)

Fresh == overtaken # "before" /\ \A r \in Runs : pc[r] # "gone"

RunRetries(r) ==
    /\ SnapTries(r)
    /\ Fresh => TriesEnd(r) /\ DiskTries(r)
    /\ overtaken = "no" => DiskKnows(r)

RetryInv ==
    /\ KeptInv /\ OneRun /\ FirstTry
    /\ \A r \in Runs : Active(r) => RunRetries(r)
    /\ Fresh /\ overtaken = "no" /\ (\A r \in Runs : ~Active(r)) => DiskClosed

LEMMA KeptIdle ==
    ASSUME KeptInv, NEW r \in Runs, PoolEmpty(r), NEW a \in Agents
    PROVE  agent[r][a].st = "free" /\ \A f : ~Holds(agent[r][a], f) /\ ~Carries(agent[r][a], f)
BY SMT DEF PoolEmpty, Holds, Carries

LEMMA RetryImplies == RetryInv => ResumeRetries
<1> SUFFICES ASSUME RetryInv, NEW r \in Runs, pc[r] = "plan", ~skip[r], overtaken = "no",
                    \A q \in Runs : pc[q] # "gone", NEW f \in mem[r].files \ mem[r].done
             PROVE  mem[r].tries[f] < MaxTries
  BY DEF ResumeRetries
<1>1. Active(r) /\ Fresh
  BY SMT DEF Active, Ended, Fresh
<1>2. PoolEmpty(r)
  BY Zenon DEF RetryInv, KeptInv, SlotKept, PoolEmpty
<1>3. mem[r].failed = {} /\ TriesEnd(r)
  BY <1>1 DEF RetryInv, RunRetries, FirstTry
<1>4. f \in Files /\ mem[r].tries[f] \in 0 .. MaxTries
  BY SMT DEF RetryInv, KeptInv, TInv, TypeOK, States
<1>5. mem[r].tries[f] # MaxTries
  BY <1>2, <1>3, <1>4, KeptIdle, Zenon DEF TriesEnd, Closed, RetryInv
<1> QED
  BY <1>4, <1>5, GenerationAssumption, SMT

\* What becomes of a task (rec) and of its run's state (m): no try is taken back, a
\* file that has no try left stays in the same hands, or in those of the task.
TriesKept(r, a, rec, m) ==
    /\ \A f \in Files : mem[r].tries[f] = MaxTries => m.tries[f] = MaxTries
    /\ Closed(mem[r]) \subseteq Closed(m)
    /\ \A f \in Files : m.tries[f] = MaxTries =>
           \/ f \in Closed(m) \/ Holds(rec, f)
           \/ mem[r].tries[f] = MaxTries /\ ~Holds(agent[r][a], f)
    /\ \A f \in Files : rec.st = "write" /\ rec.snap.tries[f] = MaxTries =>
           m.tries[f] = MaxTries

\* What is closed, or on its way to the checkpoint, stays so.
ClosedKept(r, a, rec, m) ==
    \A f \in Closed(m) :
        Carries(rec, f) \/ (f \in Closed(mem[r]) /\ ~Carries(agent[r][a], f))

\* The tries and the closed files of a run after one of its tasks has moved on.
LEMMA WorkTries ==
    ASSUME KeptInv, NEW r \in Runs, NEW a \in Agents, NEW rec, NEW m,
           agent' = [agent EXCEPT ![r][a] = rec], mem'[r] = m, TriesKept(r, a, rec, m)
    PROVE  /\ TriesEnd(r) => TriesEnd(r)'
           /\ SnapTries(r) => SnapTries(r)'
           /\ disk' = disk /\ DiskTries(r) => DiskTries(r)'
<1> USE DEF TriesKept, ClosedKept
<1>t. agent \in [Runs -> [Agents -> Tasks]]
  BY DEF KeptInv, TInv, TypeOK
<1>1. \A b \in Agents : agent'[r][b] = IF b = a THEN rec ELSE agent[r][b]
  BY <1>t, SMT
<1>2. ASSUME TriesEnd(r) PROVE TriesEnd(r)'
  <2> SUFFICES ASSUME NEW f \in Files, m.tries[f] = MaxTries
               PROVE  f \in Closed(m) \/ \E b \in Agents : Holds(agent'[r][b], f)
    BY Zenon DEF TriesEnd, Closed, Holds
  <2>1. CASE f \in Closed(m) \/ Holds(rec, f)
    BY <1>1, <2>1
  <2>2. CASE mem[r].tries[f] = MaxTries /\ ~Holds(agent[r][a], f)
    <3>1. f \in Closed(mem[r]) \/ \E b \in Agents : Holds(agent[r][b], f)
      BY <1>2, <2>2 DEF TriesEnd
    <3>2. ASSUME NEW b \in Agents, Holds(agent[r][b], f) PROVE Holds(agent'[r][b], f)
      <4>1. b # a
        BY <2>2, <3>2
      <4>2. agent'[r][b] = agent[r][b]
        BY <1>1, <4>1
      <4> QED
        BY <3>2, <4>2
    <3> QED
      BY <3>1, <3>2
  <2> QED
    BY <2>1, <2>2
<1>3. ASSUME SnapTries(r) PROVE SnapTries(r)'
  <2> SUFFICES ASSUME NEW b \in Agents, NEW f \in Files,
                      agent'[r][b].st = "write", agent'[r][b].snap.tries[f] = MaxTries
               PROVE  m.tries[f] = MaxTries
    BY Zenon DEF SnapTries
  <2>1. CASE b = a
    <3>1. agent'[r][b] = rec
      BY <1>1, <2>1
    <3> QED
      BY <3>1
  <2>2. CASE b # a
    <3>1. agent'[r][b] = agent[r][b]
      BY <1>1, <2>2
    <3>2. mem[r].tries[f] = MaxTries
      BY <1>3, <3>1, Zenon DEF SnapTries
    <3> QED
      BY <3>2
  <2> QED
    BY <2>1, <2>2
<1>4. ASSUME disk' = disk, DiskTries(r) PROVE DiskTries(r)'
  BY <1>4, Zenon DEF DiskTries
<1> QED
  BY <1>2, <1>3, <1>4

\* What a run closes is saved later by the task that closed it.
LEMMA WorkKnows ==
    ASSUME KeptInv, NEW r \in Runs, NEW a \in Agents, NEW rec,
           agent' = [agent EXCEPT ![r][a] = rec], disk' = disk, NEW m, mem'[r] = m,
           DiskKnows(r), ClosedKept(r, a, rec, m)
    PROVE  DiskKnows(r)'
<1> USE DEF TriesKept, ClosedKept
<1>t. agent \in [Runs -> [Agents -> Tasks]]
  BY DEF KeptInv, TInv, TypeOK
<1>1. \A b \in Agents : agent'[r][b] = IF b = a THEN rec ELSE agent[r][b]
  BY <1>t, SMT
<1> SUFFICES ASSUME NEW f \in Closed(mem'[r])
             PROVE  f \in Closed(disk.mem) \/ \E b \in Agents : Carries(agent'[r][b], f)
  BY Zenon DEF DiskKnows, Closed, Carries
<1>2. CASE Carries(rec, f)
  BY <1>1, <1>2
<1>3. CASE f \in Closed(mem[r]) /\ ~Carries(agent[r][a], f)
  <2>1. f \in Closed(disk.mem) \/ \E b \in Agents : Carries(agent[r][b], f)
    BY <1>3 DEF DiskKnows
  <2>2. ASSUME NEW b \in Agents, Carries(agent[r][b], f) PROVE Carries(agent'[r][b], f)
    <3>1. b # a
      BY <1>3, <2>2
    <3>2. agent'[r][b] = agent[r][b]
      BY <1>1, <3>1
    <3> QED
      BY <2>2, <3>2
  <2> QED
    BY <2>1, <2>2
<1> QED
  BY <1>2, <1>3

\* A step of a task that leaves the checkpoint alone.
LEMMA TaskRetries ==
    ASSUME KeptInv, NEW r \in Runs, NEW a \in Agents, RunRetries(r), NEW rec, NEW m,
           agent' = [agent EXCEPT ![r][a] = rec], mem' = [mem EXCEPT ![r] = m],
           pc' = pc, disk' = disk, overtaken' = overtaken,
           TriesKept(r, a, rec, m), ClosedKept(r, a, rec, m)
    PROVE  RunRetries(r)'
<1>1. mem'[r] = m
  BY DEF KeptInv, TInv, TypeOK
<1>2. /\ TriesEnd(r) => TriesEnd(r)'
      /\ SnapTries(r) => SnapTries(r)'
      /\ DiskTries(r) => DiskTries(r)'
  BY <1>1, WorkTries
<1>3. DiskKnows(r) => DiskKnows(r)'
  BY <1>1, WorkKnows
<1>4. Fresh' => Fresh
  BY DEF Fresh
<1> QED
  BY <1>2, <1>3, <1>4, Zenon DEF RunRetries

LEMMA ClosedBy ==
    ASSUME NEW m \in States, NEW f \in Files
    PROVE  /\ Finished(m, f).tries = m.tries /\ Closed(Finished(m, f)) = Closed(m) \cup {f}
           /\ GivenUp(m, f).tries = m.tries /\ Closed(GivenUp(m, f)) = Closed(m) \cup {f}
<1> DEFINE n == [m EXCEPT !.done = @ \cup {f}, !.failed = @ \ {f}]
           o == [m EXCEPT !.failed = @ \cup {f}]
<1>1. n.tries = m.tries /\ n.done = m.done \cup {f} /\ n.failed = m.failed \ {f}
  BY SMT DEF States
<1>2. o.tries = m.tries /\ o.done = m.done /\ o.failed = m.failed \cup {f}
  BY SMT DEF States
<1>3. Finished(m, f) = n /\ GivenUp(m, f) = IF f \in Documents THEN n ELSE o
  BY Zenon DEF Finished, GivenUp
<1> HIDE DEF n, o
<1>4. Closed(n) = Closed(m) \cup {f} /\ Closed(o) = Closed(m) \cup {f}
  BY <1>1, <1>2 DEF Closed
<1> QED
  BY <1>1, <1>2, <1>3, <1>4

\* A file in hand is the one that is worked on.
LEMMA OneInHand ==
    ASSUME NEW r \in Runs, NEW a \in Agents, NEW f \in Files, Current(r, a, f),
           NEW g \in Files, Holds(agent[r][a], g)
    PROVE  g = f
BY GenerationAssumption, Zenon DEF Current, Holds

LEMMA AgentRetries ==
    ASSUME RetryInv, MaxTries >= 2, NEW r \in Runs, NEW a \in Agents, AgentStep(r, a)
    PROVE  Active(r) /\ RunRetries(r)'
<1> DEFINE t == agent[r][a]
<1>t. t \in Tasks /\ mem \in [Runs -> States] /\ mem[r] \in States
  BY DEF RetryInv, KeptInv, TInv, TypeOK
<1>0. t.st # "free"
  BY Zenon DEF AgentStep, Begin, End, Write, WriteFails, WriteRaises, GiveUp, GateRepairs,
               Store, Snapshot, SaveSnapshot, Current
<1>k. SlotKept(r, a) /\ KeptInv
  BY DEF RetryInv, KeptInv
<1>a. Active(r)
  BY <1>0, <1>k, SMT DEF SlotKept, Active, Ended
<1>r. RunRetries(r)
  BY <1>a DEF RetryInv
<1>d. mem[r].tries \in [Files -> 0 .. MaxTries]
  BY <1>t, SMT DEF States
<1>g. ASSUME NEW rec, NEW m, agent' = [agent EXCEPT ![r][a] = rec],
             mem' = [mem EXCEPT ![r] = m], pc' = pc, disk' = disk, overtaken' = overtaken,
             TriesKept(r, a, rec, m), ClosedKept(r, a, rec, m)
      PROVE  RunRetries(r)'
  BY <1>g, <1>k, <1>r, TaskRetries
<1>m. mem' = mem => mem' = [mem EXCEPT ![r] = mem[r]]
  BY <1>t
<1> HIDE DEF t
<1>1. CASE Begin(r, a)
  <2> DEFINE rec == [t EXCEPT !.st = "next", !.context = mem[r].done]
  <2>1. rec.st = "next"
    BY <1>t, SMT DEF Tasks
  <2>2. agent' = [agent EXCEPT ![r][a] = rec] /\ t.st = "begin" /\ pc' = pc /\ mem' = mem /\ disk' = disk /\ overtaken' = overtaken
    BY <1>1, Zenon DEF Begin, Step, t
  <2> HIDE DEF rec
  <2>3. \A f : ~Holds(t, f) /\ ~Carries(t, f)
    BY <2>2 DEF Holds, Carries
  <2>k. TriesKept(r, a, rec, mem[r]) /\ ClosedKept(r, a, rec, mem[r])
    BY <2>1, <2>2, <2>3 DEF TriesKept, ClosedKept, t
  <2> QED
    BY <1>a, <1>g, <1>m, <2>1, <2>2, <2>3, <2>k
<1>2. CASE End(r, a)
  <2> DEFINE rec == [t EXCEPT !.st = "ended", !.todo = {}]
  <2>1. rec.st = "ended"
    BY <1>t, SMT DEF Tasks
  <2>2. agent' = [agent EXCEPT ![r][a] = rec] /\ t.st = "next" /\ pc' = pc /\ mem' = mem /\ disk' = disk /\ overtaken' = overtaken
    BY <1>2, Zenon DEF End, Step, t
  <2>3. t.todo \subseteq mem[r].done
    BY <1>2, Zenon DEF End, AllDone, t
  <2> HIDE DEF rec
  <2>4. \A f : /\ ~Carries(t, f)
               /\ Holds(t, f) => f \in Closed(mem[r])
    BY <2>2, <2>3 DEF Holds, Carries, Closed
  <2>k. TriesKept(r, a, rec, mem[r]) /\ ClosedKept(r, a, rec, mem[r])
    BY <2>1, <2>2, <2>4 DEF TriesKept, ClosedKept, t
  <2> QED
    BY <1>a, <1>g, <1>m, <2>1, <2>2, <2>4, <2>k
<1>3. CASE Write(r, a)
  <2>1. PICK f \in Files : /\ Current(r, a, f) /\ mem[r].tries[f] < MaxTries
                           /\ Step(r, a, [t EXCEPT !.st = "gate", !.file = f, !.view = mem[r]])
    BY <1>3, Zenon DEF Write, t
  <2> DEFINE rec == [t EXCEPT !.st = "gate", !.file = f, !.view = mem[r]]
  <2>2. rec.st = "gate"
    BY <1>t, SMT DEF Tasks
  <2>3. agent' = [agent EXCEPT ![r][a] = rec] /\ t.st = "next"
    BY <2>1, Zenon DEF Current, Step, t
  <2>4. pc' = pc /\ mem' = mem /\ disk' = disk /\ overtaken' = overtaken
    BY <1>3 DEF Write
  <2> HIDE DEF rec
  <2>5. \A g \in Files : Holds(t, g) => mem[r].tries[g] # MaxTries
    BY <1>d, <2>1, OneInHand, GenerationAssumption DEF t
  <2>6. \A g : ~Carries(t, g)
    BY <2>3 DEF Carries
  <2>k. TriesKept(r, a, rec, mem[r]) /\ ClosedKept(r, a, rec, mem[r])
    BY <2>2, <2>3, <2>4, <2>5, <2>6 DEF TriesKept, ClosedKept, t
  <2> QED
    BY <1>a, <1>g, <1>m, <2>2, <2>3, <2>4, <2>5, <2>6, <2>k
<1>4. CASE WriteFails(r, a)
  <2>1. PICK f \in Files :
          /\ Current(r, a, f) /\ mem[r].tries[f] < MaxTries
          /\ mem' = [mem EXCEPT ![r].tries[f] = @ + 1]
          /\ \E file \in IF t.batch = {f} \/ mem[r].tries[f] > 0 THEN {f} ELSE {f, None} :
               Step(r, a, [t EXCEPT !.st = "save", !.file = file])
    BY <1>4, Zenon DEF WriteFails, t
  <2>2. PICK file \in IF t.batch = {f} \/ mem[r].tries[f] > 0 THEN {f} ELSE {f, None} :
               Step(r, a, [t EXCEPT !.st = "save", !.file = file])
    BY <2>1
  <2> DEFINE rec == [t EXCEPT !.st = "save", !.file = file]
             m == [mem[r] EXCEPT !.tries[f] = @ + 1]
  <2>3. rec.st = "save" /\ rec.todo = t.todo /\ rec.file = file
    BY <1>t, SMT DEF Tasks
  <2>4. agent' = [agent EXCEPT ![r][a] = rec] /\ t.st = "next" /\ f \in t.todo
    BY <2>1, <2>2, Zenon DEF Current, Step, t
  <2>5. /\ Closed(m) = Closed(mem[r])
        /\ \A g \in Files : m.tries[g] = IF g = f THEN mem[r].tries[f] + 1 ELSE mem[r].tries[g]
    BY <1>t, SMT DEF States, Closed
  <2>6. mem' = [mem EXCEPT ![r] = m]
    BY <2>1, Zenon
  <2>7. pc' = pc /\ disk' = disk /\ overtaken' = overtaken
    BY <1>4 DEF WriteFails
  <2> HIDE DEF rec, m
  <2>8. mem[r].tries[f] + 1 = MaxTries => Holds(rec, f)
    <3>1. mem[r].tries[f] + 1 = MaxTries => mem[r].tries[f] > 0
      BY <1>d, GenerationAssumption, SMT
    <3> QED
      BY <2>2, <2>3, <2>4, <3>1 DEF Holds
  <2>9. \A g \in Files : Holds(t, g) => g = f
    BY <2>1, OneInHand DEF t
  <2>10. \A g \in Files : mem[r].tries[g] = MaxTries => m.tries[g] = MaxTries
    BY <1>d, <2>1, <2>5, GenerationAssumption, SMT
  <2>11. \A g \in Files : m.tries[g] = MaxTries =>
             Holds(rec, g) \/ (mem[r].tries[g] = MaxTries /\ ~Holds(t, g))
    BY <2>5, <2>8, <2>9
  <2>12. \A g : Carries(rec, g)
    BY <2>3 DEF Carries
  <2>k. TriesKept(r, a, rec, m) /\ ClosedKept(r, a, rec, m)
    BY <2>3, <2>4, <2>5, <2>6, <2>7, <2>10, <2>11, <2>12 DEF TriesKept, ClosedKept, t
  <2> QED
    BY <1>a, <1>g, <2>3, <2>4, <2>5, <2>6, <2>7, <2>10, <2>11, <2>12, <2>k
<1>5. CASE WriteRaises(r, a)
  <2> DEFINE rec == [t EXCEPT !.st = "raised", !.todo = {}, !.file = None, !.view = NoState]
  <2>1. rec.st = "raised"
    BY <1>t, SMT DEF Tasks
  <2>2. agent' = [agent EXCEPT ![r][a] = rec] /\ pc' = pc /\ mem' = mem /\ disk' = disk /\ overtaken' = overtaken
    BY <1>5, Zenon DEF WriteRaises, Step, t
  <2>3. t.st = "gate" \/ \E f \in Files : Current(r, a, f) /\ mem[r].tries[f] < MaxTries
    BY <1>5, Zenon DEF WriteRaises, t
  <2> HIDE DEF rec
  <2>4. \A g \in Files : Holds(t, g) => mem[r].tries[g] # MaxTries
    <3>1. CASE t.st = "gate"
      BY <3>1 DEF Holds
    <3>2. ASSUME NEW f \in Files, Current(r, a, f), mem[r].tries[f] < MaxTries
          PROVE  \A g \in Files : Holds(t, g) => mem[r].tries[g] # MaxTries
      BY <1>d, <3>2, OneInHand, GenerationAssumption DEF t
    <3> QED
      BY <2>3, <3>1, <3>2
  <2>5. \A g : ~Carries(t, g)
    BY <2>3 DEF Carries, Current, t
  <2>k. TriesKept(r, a, rec, mem[r]) /\ ClosedKept(r, a, rec, mem[r])
    BY <2>1, <2>2, <2>4, <2>5 DEF TriesKept, ClosedKept, t
  <2> QED
    BY <1>a, <1>g, <1>m, <2>1, <2>2, <2>4, <2>5, <2>k
<1>6. CASE GiveUp(r, a)
  <2>1. PICK f \in Files :
          /\ Current(r, a, f)
          /\ mem' = [mem EXCEPT ![r] = GivenUp(mem[r], f)]
          /\ Step(r, a, [t EXCEPT !.st = "save", !.file = None, !.todo = @ \ {f}])
    BY <1>6, Zenon DEF GiveUp, t
  <2> DEFINE rec == [t EXCEPT !.st = "save", !.file = None, !.todo = @ \ {f}]
             m == GivenUp(mem[r], f)
  <2>2. rec.st = "save"
    BY <1>t, SMT DEF Tasks
  <2>3. agent' = [agent EXCEPT ![r][a] = rec] /\ mem' = [mem EXCEPT ![r] = m]
    BY <2>1, Zenon DEF Step, t
  <2>4. m.tries = mem[r].tries /\ Closed(m) = Closed(mem[r]) \cup {f}
    BY <1>t, ClosedBy
  <2>5. pc' = pc /\ disk' = disk /\ overtaken' = overtaken
    BY <1>6 DEF GiveUp
  <2> HIDE DEF rec, m
  <2>6. \A g : Carries(rec, g)
    BY <2>2 DEF Carries
  <2>7. \A g \in Files : g \in Closed(m) \/ ~Holds(t, g)
    BY <2>1, <2>4, OneInHand DEF t
  <2>k. TriesKept(r, a, rec, m) /\ ClosedKept(r, a, rec, m)
    BY <2>2, <2>3, <2>4, <2>5, <2>6, <2>7 DEF TriesKept, ClosedKept, t
  <2> QED
    BY <1>a, <1>g, <2>2, <2>3, <2>4, <2>5, <2>6, <2>7, <2>k
<1>7. CASE GateRepairs(r, a)
  <2>1. PICK fx : mem' = [mem EXCEPT ![r].fixes = fx]
    BY <1>7, Zenon DEF GateRepairs
  <2> DEFINE rec == [t EXCEPT !.st = "store", !.view = NoState]
             m == [mem[r] EXCEPT !.fixes = fx]
  <2>2. rec.st = "store"
    BY <1>t, SMT DEF Tasks
  <2>3. agent' = [agent EXCEPT ![r][a] = rec] /\ t.st = "gate"
    BY <1>7, Zenon DEF GateRepairs, Step, t
  <2>4. m.tries = mem[r].tries /\ Closed(m) = Closed(mem[r])
    BY <1>t, SMT DEF States, Closed
  <2>5. mem' = [mem EXCEPT ![r] = m]
    BY <2>1, Zenon
  <2>6. pc' = pc /\ disk' = disk /\ overtaken' = overtaken
    BY <1>7 DEF GateRepairs
  <2> HIDE DEF rec, m
  <2>7. \A g : ~Holds(t, g) /\ ~Carries(t, g)
    BY <2>3 DEF Holds, Carries
  <2>k. TriesKept(r, a, rec, m) /\ ClosedKept(r, a, rec, m)
    BY <2>2, <2>3, <2>4, <2>5, <2>6, <2>7 DEF TriesKept, ClosedKept, t
  <2> QED
    BY <1>a, <1>g, <2>2, <2>3, <2>4, <2>5, <2>6, <2>7, <2>k
<1>8. CASE Store(r, a)
  <2> DEFINE f == t.file
             rec == [t EXCEPT !.st = "save", !.file = None, !.todo = @ \ {f}]
             m == Finished(mem[r], f)
  <2>1. t.st = "store" /\ f \in Files
    BY <1>8, <1>k DEF Store, KeptInv, TInv, FileInHand, t
  <2>2. rec.st = "save"
    BY <1>t, SMT DEF Tasks
  <2>3. agent' = [agent EXCEPT ![r][a] = rec] /\ mem' = [mem EXCEPT ![r] = m]
    BY <1>8, Zenon DEF Store, Step, t
  <2> HIDE DEF rec, f
  <2>4. m.tries = mem[r].tries /\ Closed(m) = Closed(mem[r]) \cup {f}
    BY <1>t, <2>1, ClosedBy
  <2>5. pc' = pc /\ disk' = disk /\ overtaken' = overtaken
    BY <1>8 DEF Store
  <2> HIDE DEF m
  <2>6. \A g : Carries(rec, g) /\ ~Holds(t, g)
    BY <2>1, <2>2 DEF Carries, Holds
  <2>k. TriesKept(r, a, rec, m) /\ ClosedKept(r, a, rec, m)
    BY <2>2, <2>3, <2>4, <2>5, <2>6 DEF TriesKept, ClosedKept, t
  <2> QED
    BY <1>a, <1>g, <2>2, <2>3, <2>4, <2>5, <2>6, <2>k
<1>9. CASE Snapshot(r, a)
  <2> DEFINE rec == [t EXCEPT !.st = "write", !.snap = mem[r]]
  <2>1. rec.st = "write" /\ rec.snap = mem[r] /\ rec.todo = t.todo /\ rec.file = t.file
    BY <1>t, SMT DEF Tasks
  <2>2. agent' = [agent EXCEPT ![r][a] = rec] /\ pc' = pc /\ mem' = mem /\ disk' = disk /\ overtaken' = overtaken
    BY <1>9, Zenon DEF Snapshot, Step, t
  <2> HIDE DEF rec
  <2>3. \A f : Holds(t, f) => Holds(rec, f)
    BY <2>1 DEF Holds
  <2>4. \A f \in Closed(mem[r]) : Carries(rec, f)
    BY <2>1 DEF Carries
  <2>k. TriesKept(r, a, rec, mem[r]) /\ ClosedKept(r, a, rec, mem[r])
    BY <2>1, <2>2, <2>3, <2>4 DEF TriesKept, ClosedKept, t
  <2> QED
    BY <1>a, <1>g, <1>m, <2>1, <2>2, <2>3, <2>4, <2>k
<1>10. CASE SaveSnapshot(r, a)
  <2> DEFINE rec == [t EXCEPT !.st = "next", !.snap = NoState]
  <2>1. rec.st = "next" /\ rec.todo = t.todo /\ rec.file = t.file
    BY <1>t, SMT DEF Tasks
  <2>2. agent' = [agent EXCEPT ![r][a] = rec] /\ pc' = pc /\ mem' = mem /\ t.st = "write"
    BY <1>10, Zenon DEF SaveSnapshot, Step, t
  <2>3. disk'.mem = t.snap
    BY <1>10, Zenon DEF SaveSnapshot, Checkpoint, t
  <2>4. overtaken' = IF overtaken = "before" THEN "before"
                     ELSE IF t.snap # mem[r] /\ (overtaken = "now" \/ ~Knows(t.snap, disk.mem))
                     THEN "now" ELSE "no"
    BY <1>10, Zenon DEF SaveSnapshot, Overtaken, t
  <2> HIDE DEF rec
  <2>5. \A f : Holds(t, f) => Holds(rec, f)
    BY <2>1, <2>2 DEF Holds
  <2>6. mem'[r] = mem[r]
    BY <2>2
  <2>k. TriesKept(r, a, rec, mem[r])
    BY <2>1, <2>5 DEF TriesKept, t
  <2>7. (TriesEnd(r) => TriesEnd(r)') /\ (SnapTries(r) => SnapTries(r)')
    BY <1>k, <2>2, <2>6, <2>k, WorkTries DEF t
  <2>8. DiskTries(r)'
    BY <1>r, <2>2, <2>3, <2>6, Zenon DEF RunRetries, SnapTries, DiskTries, t
  <2>9. Fresh' => Fresh
    BY <2>2, <2>4 DEF Fresh
  <2>10. ASSUME overtaken' = "no" PROVE DiskKnows(r)'
    <3> SUFFICES ASSUME NEW f \in Closed(mem[r])
                 PROVE  f \in Closed(t.snap) \/ \E b \in Agents : Carries(agent'[r][b], f)
      BY <2>3, <2>6, Zenon DEF DiskKnows, Closed, Carries
    <3>1. CASE t.snap = mem[r]
      BY <3>1
    <3>2. CASE t.snap # mem[r]
      <4>1. overtaken = "no" /\ Knows(t.snap, disk.mem)
        BY <2>4, <2>10, <3>2 DEF RetryInv, KeptInv, TInv, TypeOK
      <4>2. Closed(disk.mem) \subseteq Closed(t.snap)
        BY <4>1 DEF Knows, Closed
      <4>3. f \in Closed(disk.mem) \/ \E b \in Agents : Carries(agent[r][b], f)
        BY <1>r, <4>1 DEF RunRetries, DiskKnows
      <4>4. ASSUME NEW b \in Agents, Carries(agent[r][b], f)
            PROVE  f \in Closed(t.snap) \/ Carries(agent'[r][b], f)
        <5>1. CASE b = a
          BY <2>2, <4>4, <5>1 DEF Carries, t
        <5>2. CASE b # a
          <6>1. agent'[r][b] = agent[r][b]
            BY <2>2, <5>2 DEF RetryInv, KeptInv, TInv, TypeOK
          <6> QED
            BY <4>4, <6>1
        <5> QED
          BY <5>1, <5>2
      <4> QED
        BY <4>2, <4>3, <4>4
    <3> QED
      BY <3>1, <3>2
  <2> QED
    BY <1>a, <1>r, <2>7, <2>8, <2>9, <2>10, Zenon DEF RunRetries
<1> QED
  BY <1>a, <1>1, <1>2, <1>3, <1>4, <1>5, <1>6, <1>7, <1>8, <1>9, <1>10, Zenon DEF AgentStep

LEMMA FreshBack ==
    ASSUME NEW r \in Runs, Active(r), \A q \in Runs \ {r} : pc'[q] = pc[q],
           overtaken = "before" => overtaken' = "before"
    PROVE  Fresh' => Fresh
BY SMT DEF Fresh, Active, Ended

\* While one run goes on it is the only one; it leaves a checkpoint that has
\* closed what cannot be tried any more.
LEMMA RunAssembles ==
    ASSUME RetryInv, KeptInv', NEW r \in Runs, Active(r),
           \A q \in Runs \ {r} : pc'[q] = pc[q], pc'[r] # "plan",
           Active(r)' => RunRetries(r)',
           ~Active(r)' /\ Fresh' /\ overtaken' = "no" => DiskClosed'
    PROVE  RetryInv'
<1>1. \A q \in Runs \ {r} : ~Active(q)
  BY Zenon DEF RetryInv, OneRun
<1>2. \A q \in Runs \ {r} : ~Active(q)' /\ pc'[q] # "plan"
  BY <1>1, SMT DEF Active, Ended
<1>3. OneRun'
  BY <1>2, Zenon DEF OneRun
<1>4. FirstTry'
  BY <1>2, Zenon DEF FirstTry
<1>5. \A q \in Runs : Active(q)' => RunRetries(q)'
  BY <1>2, Zenon
<1>6. Fresh' /\ overtaken' = "no" /\ (\A q \in Runs : ~Active(q)') => DiskClosed'
  BY Zenon
<1> QED
  BY <1>3, <1>4, <1>5, <1>6, Zenon DEF RetryInv

\* The plan grows, or the run moves on; the checkpoint is as it was, or as the run.
LEMMA StillRetries ==
    ASSUME KeptInv, NEW r \in Runs, RunRetries(r), agent' = agent, NEW m, mem'[r] = m,
           m.tries = mem[r].tries, Closed(mem[r]) \subseteq Closed(m), Fresh' => Fresh,
           disk'.mem = m \/ (m = mem[r] /\ disk' = disk /\ overtaken' = overtaken)
    PROVE  RunRetries(r)'
<1>1. ASSUME TriesEnd(r) PROVE TriesEnd(r)'
  <2>1. Closed(mem[r]) \subseteq Closed(mem[r])' /\ mem'[r].tries = mem[r].tries
    BY DEF Closed
  <2>2. ASSUME NEW f \in Files, mem'[r].tries[f] = MaxTries
        PROVE  f \in Closed(mem[r]) \/ \E a \in Agents : Holds(agent[r][a], f)
    BY <1>1, <2>1, <2>2, Zenon DEF TriesEnd
  <2>3. \A f : (\E a \in Agents : Holds(agent[r][a], f)) => \E a \in Agents : Holds(agent[r][a], f)'
    BY Zenon DEF Holds
  <2> QED
    BY <2>1, <2>2, <2>3, Zenon DEF TriesEnd
<1>2. SnapTries(r) => SnapTries(r)'
  BY Zenon DEF SnapTries
<1>3. CASE disk'.mem = m
  <2>1. DiskTries(r)' /\ DiskKnows(r)'
    BY <1>3, Zenon DEF DiskTries, DiskKnows, Closed
  <2> QED
    BY <1>1, <1>2, <2>1, Zenon DEF RunRetries
<1>4. CASE m = mem[r] /\ disk' = disk /\ overtaken' = overtaken
  <2>1. DiskTries(r) => DiskTries(r)'
    BY <1>4, Zenon DEF DiskTries
  <2>2. DiskKnows(r) => DiskKnows(r)'
    <3> SUFFICES ASSUME DiskKnows(r), NEW f \in Closed(m)
                 PROVE  f \in Closed(disk'.mem) \/ \E a \in Agents : Carries(agent'[r][a], f)
      BY Zenon DEF DiskKnows, Closed, Carries
    <3> QED
      BY <1>4, Zenon DEF DiskKnows
  <2> QED
    BY <1>1, <1>2, <1>4, <2>1, <2>2, Zenon DEF RunRetries
<1> QED
  BY <1>3, <1>4

\* When nobody works, a run has closed what cannot be tried any more, and the
\* checkpoint knows, if no save was overtaken.
LEMMA EndsClosed ==
    ASSUME KeptInv, NEW r \in Runs, RunRetries(r), PoolEmpty(r), Fresh
    PROVE  /\ \A f \in Files : mem[r].tries[f] = MaxTries => f \in Closed(mem[r])
           /\ overtaken = "no" => DiskClosed
<1>1. \A f \in Files : mem[r].tries[f] = MaxTries => f \in Closed(mem[r])
  BY KeptIdle, Zenon DEF RunRetries, TriesEnd
<1>2. ASSUME overtaken = "no", NEW f \in Files, disk.mem.tries[f] = MaxTries
      PROVE  f \in Closed(disk.mem)
  <2>1. f \in Closed(disk.mem) \/ mem[r].tries[f] = MaxTries
    BY <1>2 DEF RunRetries, DiskTries
  <2>2. ASSUME f \in Closed(mem[r]) PROVE f \in Closed(disk.mem)
    BY <1>2, <2>2, KeptIdle, Zenon DEF RunRetries, DiskKnows
  <2> QED
    BY <1>1, <2>1, <2>2
<1> QED
  BY <1>1, <1>2 DEF DiskClosed

LEMMA PlanKeeps ==
    ASSUME NEW m \in States
    PROVE  WithPlan(m).tries = m.tries /\ Closed(m) \subseteq Closed(WithPlan(m))
<1>1. CASE m.files # {}
  BY <1>1, Zenon DEF WithPlan
<1>2. CASE m.files = {}
  <2> DEFINE n == [m EXCEPT !.files = Planned, !.done = @ \cup Fixed]
  <2>1. WithPlan(m) = n
    BY <1>2, Zenon DEF WithPlan
  <2>2. n.tries = m.tries /\ n.failed = m.failed /\ n.done = m.done \cup Fixed
    BY SMT DEF States
  <2> HIDE DEF n
  <2> QED
    BY <2>1, <2>2, SMT DEF Closed
<1> QED
  BY <1>1, <1>2

LEMMA MainRetries ==
    ASSUME RetryInv, KeptInv', NEW r \in Runs, MainStep(r)
    PROVE  RetryInv'
<1>t. /\ pc \in [Runs -> PCs] /\ mem \in [Runs -> States] /\ mem[r] \in States
      /\ agent \in [Runs -> [Agents -> Tasks]] /\ KeptInv
  BY SMT DEF RetryInv, KeptInv, TInv, TypeOK, PCs
<1>p. pc[r] \in {"plan", "schedule", "deliver"}
  BY Zenon DEF MainStep, Plan, PlanFails, Dispatch, Collect, PauseOnError, FillMissing,
               PauseOnFailed, Complete, Deliver, ScheduleDone
<1>a. Active(r) /\ RunRetries(r)
  BY <1>p, SMT DEF Active, Ended, RetryInv
<1>i. pc[r] # "schedule" => PoolEmpty(r)
  BY Zenon DEF RetryInv, KeptInv, SlotKept, PoolEmpty
<1>s. ASSUME NEW m, SaveNow(m)
      PROVE  disk'.mem = m /\ (overtaken = "before" => overtaken' = "before")
  <2>1. disk' = [kind |-> "state", mem |-> m]
    BY <1>s, Zenon DEF SaveNow, Checkpoint
  <2>2. overtaken = "before" => overtaken' = "before"
    BY <1>s, Zenon DEF SaveNow, Overtaken
  <2> QED
    BY <2>1, <2>2
\* The run goes on.
<1>g. ASSUME NEW st \in {"schedule", "deliver"}, pc' = [pc EXCEPT ![r] = st], agent' = agent,
             NEW m, mem' = [mem EXCEPT ![r] = m], m.tries = mem[r].tries,
             Closed(mem[r]) \subseteq Closed(m), overtaken = "before" => overtaken' = "before",
             disk'.mem = m \/ (m = mem[r] /\ disk' = disk /\ overtaken' = overtaken)
      PROVE  RetryInv'
  <2>1. pc'[r] = st /\ mem'[r] = m /\ \A q \in Runs \ {r} : pc'[q] = pc[q]
    BY <1>g, <1>t
  <2>2. Fresh' => Fresh
    BY <1>a, <1>g, <2>1, FreshBack
  <2>3. RunRetries(r)'
    BY <1>a, <1>g, <1>t, <2>1, <2>2, StillRetries
  <2>4. Active(r)' /\ pc'[r] # "plan"
    BY <1>g, <2>1, SMT DEF Active, Ended
  <2> QED
    BY <1>a, <2>1, <2>3, <2>4, RunAssembles
\* It ends.
<1>e. ASSUME NEW st \in Ended, pc' = [pc EXCEPT ![r] = st], PoolEmpty(r),
             overtaken = "before" => overtaken' = "before",
             disk'.mem = mem[r] \/ (disk' = disk /\ overtaken' = overtaken)
      PROVE  RetryInv'
  <2>1. pc'[r] = st /\ \A q \in Runs \ {r} : pc'[q] = pc[q]
    BY <1>e, <1>t
  <2>2. ASSUME Fresh', overtaken' = "no" PROVE DiskClosed'
    <3>1. Fresh
      BY <1>a, <1>e, <2>1, <2>2, FreshBack
    <3>2. /\ \A f \in Files : mem[r].tries[f] = MaxTries => f \in Closed(mem[r])
          /\ overtaken = "no" => DiskClosed
      BY <1>a, <1>e, <1>t, <3>1, EndsClosed
    <3>3. CASE disk'.mem = mem[r]
      BY <3>2, <3>3, Zenon DEF DiskClosed, Closed
    <3>4. CASE disk' = disk /\ overtaken' = overtaken
      BY <2>2, <3>2, <3>4, Zenon DEF DiskClosed, Closed
    <3> QED
      BY <1>e, <3>3, <3>4
  <2>3. ~Active(r)' /\ pc'[r] # "plan"
    BY <1>e, <2>1, SMT DEF Active, Ended
  <2> QED
    BY <1>a, <2>1, <2>2, <2>3, RunAssembles
\* A slot is taken or freed.
<1>w. ASSUME NEW a \in Agents, NEW rec, agent' = [agent EXCEPT ![r][a] = rec],
             rec.st \in {"free", "begin"},
             agent[r][a].st \in {"free", "begin", "ended", "raised"}, pc[r] = "schedule",
             pc' = pc, mem' = mem, disk' = disk, overtaken' = overtaken
      PROVE  RetryInv'
  <2>1. mem' = [mem EXCEPT ![r] = mem[r]]
    BY <1>w, <1>t
  <2>2. \A f : ~Holds(agent[r][a], f) /\ ~Carries(agent[r][a], f)
    BY <1>w DEF Holds, Carries
  <2>3. TriesKept(r, a, rec, mem[r]) /\ ClosedKept(r, a, rec, mem[r])
    BY <1>w, <2>2 DEF TriesKept, ClosedKept
  <2>4. RunRetries(r)'
    BY <1>a, <1>t, <1>w, <2>1, <2>3, TaskRetries
  <2>5. Active(r)' /\ pc'[r] # "plan"
    BY <1>a, <1>w, Zenon DEF Active
  <2> QED
    BY <1>a, <1>w, <2>4, <2>5, RunAssembles
<1>1. CASE Plan(r)
  <2> DEFINE m == WithPlan(mem[r])
  <2>1. m.tries = mem[r].tries /\ Closed(mem[r]) \subseteq Closed(m)
    BY <1>t, PlanKeeps
  <2>2. /\ mem' = [mem EXCEPT ![r] = m] /\ pc' = [pc EXCEPT ![r] = "schedule"]
        /\ agent' = agent
        /\ IF m = mem[r] THEN UNCHANGED <<disk, overtaken>> ELSE SaveNow(m)
    BY <1>1, Zenon DEF Plan
  <2> HIDE DEF m
  <2>3. /\ overtaken = "before" => overtaken' = "before"
        /\ disk'.mem = m \/ (m = mem[r] /\ disk' = disk /\ overtaken' = overtaken)
    BY <1>s, <2>2
  <2> QED
    BY <1>g, <2>1, <2>2, <2>3
<1>2. CASE FillMissing(r)
  <2>1. PICK new : LET m == [mem[r] EXCEPT !.files = @ \cup new] IN
          mem' = [mem EXCEPT ![r] = m] /\ SaveNow(m)
    BY <1>2, Zenon DEF FillMissing
  <2> DEFINE m == [mem[r] EXCEPT !.files = @ \cup new]
  <2>2. mem' = [mem EXCEPT ![r] = m] /\ SaveNow(m)
    BY <2>1
  <2>3. m.tries = mem[r].tries /\ Closed(m) = Closed(mem[r])
    BY <1>t, SMT DEF States, Closed
  <2>4. pc' = pc /\ pc[r] = "schedule" /\ agent' = agent
    BY <1>2 DEF FillMissing, ScheduleDone
  <2>5. pc' = [pc EXCEPT ![r] = "schedule"]
    BY <1>t, <2>4
  <2> HIDE DEF m
  <2> QED
    BY <1>g, <1>s, <2>2, <2>3, <2>4, <2>5
<1>3. CASE Dispatch(r)
  <2>1. PICK a \in Agents : \E batch :
          /\ agent[r][a].st = "free"
          /\ agent' = [agent EXCEPT ![r][a] =
                 [Free EXCEPT !.st = "begin", !.batch = batch, !.todo = batch]]
    BY <1>3, Zenon DEF Dispatch
  <2>2. PICK batch :
          agent' = [agent EXCEPT ![r][a] =
                 [Free EXCEPT !.st = "begin", !.batch = batch, !.todo = batch]]
    BY <2>1, Zenon
  <2> DEFINE rec == [Free EXCEPT !.st = "begin", !.batch = batch, !.todo = batch]
  <2>3. rec.st = "begin"
    BY SMT DEF Free
  <2>4. agent' = [agent EXCEPT ![r][a] = rec] /\ agent[r][a].st = "free"
    BY <2>1, <2>2
  <2>5. pc' = pc /\ pc[r] = "schedule" /\ mem' = mem /\ disk' = disk /\ overtaken' = overtaken
    BY <1>3 DEF Dispatch
  <2> HIDE DEF rec
  <2> QED
    BY <1>w, <2>3, <2>4, <2>5
<1>4. CASE Collect(r)
  <2>1. PICK a \in Agents : /\ agent[r][a].st \in {"begin", "ended", "raised"}
                            /\ agent' = [agent EXCEPT ![r][a] = Free]
    BY <1>4, Zenon DEF Collect
  <2>2. pc' = pc /\ pc[r] = "schedule" /\ mem' = mem /\ disk' = disk /\ overtaken' = overtaken
    BY <1>4 DEF Collect
  <2>3. Free.st = "free"
    BY DEF Free
  <2> QED
    BY <1>w, <2>1, <2>2, <2>3
<1>5. CASE PlanFails(r) \/ PauseOnError(r)
  <2>1. PICK st \in {"failed", "paused", "broken"} :
            /\ pc' = [pc EXCEPT ![r] = st]
            /\ SaveNow(mem[r]) \/ (disk' = disk /\ overtaken' = overtaken)
    BY <1>5, Zenon DEF PlanFails, PauseOnError, Break
  <2>2. PoolEmpty(r)
    BY <1>5, <1>i, SMT DEF PlanFails, PauseOnError
  <2>3. st \in Ended
    BY <2>1, SMT DEF Ended
  <2>4. /\ overtaken = "before" => overtaken' = "before"
        /\ disk'.mem = mem[r] \/ (disk' = disk /\ overtaken' = overtaken)
    BY <1>s, <2>1
  <2> QED
    BY <1>e, <2>1, <2>2, <2>3, <2>4
<1>6. CASE PauseOnFailed(r) \/ Complete(r)
  <2>1. PoolEmpty(r) /\ agent' = agent /\ mem' = mem /\ disk' = disk /\ overtaken' = overtaken
    BY <1>6, Zenon DEF PauseOnFailed, Complete, ScheduleDone
  <2>2. PICK st \in {"failed", "paused", "deliver"} : pc' = [pc EXCEPT ![r] = st]
    BY <1>6, Zenon DEF PauseOnFailed, Complete
  <2>3. CASE st = "deliver"
    <3>1. mem' = [mem EXCEPT ![r] = mem[r]]
      BY <1>t, <2>1
    <3> QED
      BY <1>g, <2>1, <2>2, <2>3, <3>1
  <2>4. CASE st # "deliver"
    <3>1. st \in Ended
      BY <2>2, <2>4, SMT DEF Ended
    <3> QED
      BY <1>e, <2>1, <2>2, <3>1
  <2> QED
    BY <2>3, <2>4
<1>7. CASE Deliver(r)
  <2>1. /\ pc' = [pc EXCEPT ![r] = "done"] /\ disk'.mem = mem[r] /\ overtaken' = overtaken
        /\ PoolEmpty(r)
    BY <1>7, <1>i, SMT DEF Deliver, Checkpoint
  <2>2. "done" \in Ended
    BY SMT DEF Ended
  <2> QED
    BY <1>e, <2>1, <2>2
<1> QED
  BY <1>1, <1>2, <1>3, <1>4, <1>5, <1>6, <1>7, Zenon DEF MainStep

\* What is resumed has a try left for every file, if the checkpoint has closed
\* the others.
LEMMA ResumedRetries ==
    ASSUME NEW m \in States, NEW sk \in BOOLEAN
    PROVE  /\ Closed(Resumed(m, sk)) \subseteq Closed(m)
           /\ ~sk => Resumed(m, sk).failed = {}
           /\ (\A f \in Files : m.tries[f] = MaxTries => f \in Closed(m)) =>
                  \A f \in Files : Resumed(m, sk).tries[f] = MaxTries => f \in Closed(Resumed(m, sk))
<1>1. CASE sk
  BY <1>1 DEF Resumed
<1>2. CASE ~sk
  <2> DEFINE n == [m EXCEPT !.failed = {},
                            !.tries = [f \in Files |-> IF f \in m.failed THEN MaxTries - 1
                                                       ELSE m.tries[f]]]
  <2>1. Resumed(m, sk) = n
    BY <1>2, Zenon DEF Resumed
  <2>2. /\ n.done = m.done /\ n.failed = {}
        /\ \A f \in Files : n.tries[f] = IF f \in m.failed THEN MaxTries - 1 ELSE m.tries[f]
    BY SMT DEF States
  <2> HIDE DEF n
  <2>3. ASSUME \A f \in Files : m.tries[f] = MaxTries => f \in Closed(m),
               NEW f \in Files, n.tries[f] = MaxTries
        PROVE  f \in Closed(n)
    <3>1. f \notin m.failed
      BY <2>2, <2>3, GenerationAssumption, SMT
    <3> QED
      BY <2>2, <2>3, <3>1 DEF Closed
  <2>4. Closed(n) \subseteq Closed(m)
    BY <2>2 DEF Closed
  <2> QED
    BY <1>2, <2>1, <2>2, <2>3, <2>4
<1> QED
  BY <1>1, <1>2

LEMMA StartRetries ==
    ASSUME RetryInv, KeptInv', NEW r \in Runs, Start(r), \A q \in Runs : ~Active(q)
    PROVE  RetryInv'
<1>t. /\ pc \in [Runs -> PCs] /\ mem \in [Runs -> States] /\ disk.mem \in States
  BY SMT DEF RetryInv, KeptInv, TInv, TypeOK, PCs
<1>1. \A q \in Runs : ~Active(q)
  OBVIOUS
<1>2. PICK sk \in BOOLEAN :
        /\ skip' = [q \in Runs |-> IF q = r THEN sk ELSE Active(q) /\ skip[q]]
        /\ mem' = [q \in Runs |->
               IF q = r THEN IF disk.kind = "result" THEN disk.mem ELSE Resumed(disk.mem, sk)
               ELSE IF Active(q) THEN mem[q] ELSE NoState]
  BY Zenon DEF Start
<1>3. /\ pc'[r] = (IF disk.kind = "result" THEN "done" ELSE "plan")
      /\ \A q \in Runs \ {r} : pc'[q] = pc[q]
  BY <1>t DEF Start
<1>4. disk' = disk /\ agent' = agent /\ overtaken' = IF overtaken = "no" THEN "no" ELSE "before"
  BY <1>1, Zenon DEF Start
<1>5. \A q \in Runs \ {r} : ~Active(q)' /\ pc'[q] # "plan"
  BY <1>1, <1>3, SMT DEF Active, Ended
<1>6. OneRun'
  BY <1>5, Zenon DEF OneRun
<1>7. ASSUME Fresh' PROVE Fresh /\ overtaken = "no" /\ DiskClosed
  <2>1. overtaken = "no"
    BY <1>4, <1>7 DEF Fresh
  <2>2. Fresh
    <3>1. pc[r] # "gone"
      BY DEF Start
    <3> QED
      BY <1>3, <1>7, <2>1, <3>1 DEF Fresh
  <2> QED
    BY <1>1, <2>1, <2>2, Zenon DEF RetryInv
<1>8. CASE disk.kind = "result"
  <2>1. ~Active(r)' /\ pc'[r] # "plan"
    BY <1>3, <1>8, SMT DEF Active, Ended
  <2>2. FirstTry'
    BY <1>5, <2>1, Zenon DEF FirstTry
  <2>3. Fresh' => DiskClosed'
    BY <1>4, <1>7, Zenon DEF DiskClosed, Closed
  <2> QED
    BY <1>5, <1>6, <2>1, <2>2, <2>3, Zenon DEF RetryInv
<1>9. CASE disk.kind # "result"
  <2>1. pc'[r] = "plan" /\ mem'[r] = Resumed(disk.mem, sk) /\ skip'[r] = sk
    BY <1>2, <1>3, <1>9
  <2>2. Active(r)'
    BY <2>1, SMT DEF Active, Ended
  <2>3. /\ Closed(mem'[r]) \subseteq Closed(disk.mem)
        /\ ~sk => mem'[r].failed = {}
    BY <1>t, <2>1, ResumedRetries
  <2>4. FirstTry'
    BY <1>5, <2>1, <2>3, Zenon DEF FirstTry
  <2>5. ASSUME NEW a \in Agents PROVE agent'[r][a].st = "free"
    <3>1. pc[r] # "schedule"
      BY DEF Start
    <3> QED
      BY <1>4, <3>1 DEF RetryInv, KeptInv, SlotKept
  <2>6. SnapTries(r)'
    BY <2>5, Zenon DEF SnapTries
  <2>7. ASSUME Fresh' PROVE TriesEnd(r)' /\ DiskTries(r)'
    <3>1. \A f \in Files : disk.mem.tries[f] = MaxTries => f \in Closed(disk.mem)
      BY <1>7, <2>7 DEF DiskClosed
    <3>2. \A f \in Files : mem'[r].tries[f] = MaxTries => f \in Closed(mem'[r])
      BY <1>t, <2>1, <3>1, ResumedRetries
    <3> QED
      BY <1>4, <3>1, <3>2, Zenon DEF TriesEnd, DiskTries, Closed
  <2>8. DiskKnows(r)'
    BY <1>4, <2>3, Zenon DEF DiskKnows, Closed
  <2>9. RunRetries(r)'
    BY <2>6, <2>7, <2>8, Zenon DEF RunRetries
  <2>10. \A q \in Runs : Active(q)' => RunRetries(q)'
    BY <1>5, <2>9, Zenon
  <2>11. ~(\A q \in Runs : ~Active(q)')
    BY <2>2, Zenon
  <2> QED
    BY <1>6, <2>4, <2>10, <2>11, Zenon DEF RetryInv
<1> QED
  BY <1>8, <1>9

LEMMA InitRetries == Init => RetryInv
<1> SUFFICES ASSUME Init PROVE RetryInv
  OBVIOUS
<1>1. KeptInv
  BY InitSees DEF SeenInv
<1>2. \A r \in Runs : ~Active(r) /\ pc[r] # "plan"
  BY SMT DEF Init, Active
<1>3. OneRun /\ FirstTry
  BY <1>2, Zenon DEF OneRun, FirstTry
<1>4. DiskClosed
  <2>1. \A f \in Files : disk.mem.tries[f] = 0
    BY SMT DEF Init, Checkpoint, NoState
  <2> QED
    BY <2>1, GenerationAssumption, SMT DEF DiskClosed
<1> QED
  BY <1>1, <1>2, <1>3, <1>4, Zenon DEF RetryInv

LEMMA StepRetries ==
    ASSUME MaxTries >= 2, RetryInv, [Next]_vars,
           \A r \in Runs : Start(r) => \A q \in Runs : ~Active(q)
    PROVE  RetryInv'
<1>0. KeptInv'
  BY StepSees DEF KeepsBoth, RetryInv
<1>1. CASE UNCHANGED vars
  <2>1. UNCHANGED <<pc, skip, mem, agent, disk, overtaken>>
    BY <1>1 DEF vars
  <2>2. (OneRun => OneRun') /\ (FirstTry => FirstTry')
    BY <2>1, Zenon DEF OneRun, FirstTry, Active
  <2>3. (Fresh' => Fresh) /\ (DiskClosed => DiskClosed') /\ \A r \in Runs : Active(r)' <=> Active(r)
    BY <2>1, Zenon DEF Fresh, DiskClosed, Closed, Active
  <2>4. ASSUME NEW r \in Runs, RunRetries(r) PROVE RunRetries(r)'
    <3>1. SnapTries(r) => SnapTries(r)'
      BY <2>1, Zenon DEF SnapTries
    <3>2. TriesEnd(r) => TriesEnd(r)'
      BY <2>1, Zenon DEF TriesEnd, Holds, Closed
    <3>3. DiskTries(r) => DiskTries(r)'
      BY <2>1, Zenon DEF DiskTries, Closed
    <3>4. DiskKnows(r) => DiskKnows(r)'
      BY <2>1, Zenon DEF DiskKnows, Carries, Closed
    <3> QED
      BY <2>1, <2>3, <2>4, <3>1, <3>2, <3>3, <3>4, Zenon DEF RunRetries
  <2> QED
    BY <1>0, <2>1, <2>2, <2>3, <2>4, Zenon DEF RetryInv
<1>2. ASSUME NEW r \in Runs, Start(r) PROVE RetryInv'
  BY <1>0, <1>2, StartRetries
<1>3. ASSUME NEW r \in Runs, MainStep(r) PROVE RetryInv'
  BY <1>0, <1>3, MainRetries
<1>4. ASSUME NEW r \in Runs, NEW a \in Agents, AgentStep(r, a) PROVE RetryInv'
  <2>1. Active(r) /\ RunRetries(r)'
    BY <1>4, AgentRetries
  <2>2. pc' = pc
    BY <1>4, Zenon DEF AgentStep, Begin, End, Write, WriteFails, WriteRaises, GiveUp,
                       GateRepairs, Store, Snapshot, SaveSnapshot
  <2>3. pc[r] # "plan"
    <3>1. agent[r][a].st # "free"
      BY <1>4, Zenon DEF AgentStep, Begin, End, Write, WriteFails, WriteRaises, GiveUp,
                         GateRepairs, Store, Snapshot, SaveSnapshot, Current
    <3> QED
      BY <3>1 DEF RetryInv, KeptInv, SlotKept
  <2>4. Active(r)'
    BY <2>1, <2>2, Zenon DEF Active
  <2> QED
    BY <1>0, <2>1, <2>2, <2>3, <2>4, RunAssembles
<1>5. CASE Crash
  <2>t. pc \in [Runs -> PCs]
    BY SMT DEF RetryInv, KeptInv, TInv, TypeOK, PCs
  <2>1. \A r \in Runs : pc'[r] = IF Active(r) THEN "gone" ELSE pc[r]
    BY <1>5 DEF Crash
  <2>2. \A r \in Runs : ~Active(r)' /\ pc'[r] # "plan"
    BY <2>1, SMT DEF Active, Ended
  <2>3. PICK r \in Runs : Active(r)
    BY <1>5, Zenon DEF Crash
  <2>4. ~Fresh'
    BY <2>1, <2>3, Zenon DEF Fresh
  <2>5. OneRun' /\ FirstTry'
    BY <2>2, Zenon DEF OneRun, FirstTry
  <2> QED
    BY <1>0, <2>2, <2>4, <2>5, Zenon DEF RetryInv
<1> QED
  BY <1>1, <1>2, <1>3, <1>4, <1>5, Zenon DEF Next

\* Once it is "before", it stays so.
LEMMA BeforeStays ==
    ASSUME overtaken = "before", [Next]_vars
    PROVE  overtaken' = "before"
<1>1. ASSUME NEW now, Overtaken(now) PROVE overtaken' = "before"
  BY <1>1, Zenon DEF Overtaken
<1>2. ASSUME NEW m, SaveNow(m) PROVE overtaken' = "before"
  BY <1>1, <1>2, Zenon DEF SaveNow
<1>3. ASSUME NEW r \in Runs, Start(r) PROVE overtaken' = "before"
  BY <1>3, SMT DEF Start
<1>4. ASSUME NEW r \in Runs, MainStep(r) PROVE overtaken' = "before"
  BY <1>2, <1>4, Zenon DEF MainStep, Plan, PlanFails, Break, Dispatch, Collect, PauseOnError,
                           FillMissing, PauseOnFailed, Complete, Deliver
<1>5. ASSUME NEW r \in Runs, NEW a \in Agents, AgentStep(r, a) PROVE overtaken' = "before"
  BY <1>1, <1>5, Zenon DEF AgentStep, Begin, End, Write, WriteFails, WriteRaises, GiveUp,
                           GateRepairs, Store, Snapshot, SaveSnapshot
<1>6. Crash \/ UNCHANGED vars => overtaken' = "before"
  BY Zenon DEF Crash, vars
<1> QED
  BY <1>3, <1>4, <1>5, <1>6, Zenon DEF Next

\* A run that is started while another one goes on disturbs it for good.
Retries == KeptInv /\ (overtaken # "before" => RetryInv)

LEMMA StepKeepsRetries ==
    ASSUME MaxTries >= 2, Retries, [Next]_vars
    PROVE  Retries'
<1>1. KeptInv'
  BY StepSees DEF KeepsBoth, Retries
<1>2. CASE overtaken = "before"
  BY <1>1, <1>2, BeforeStays DEF Retries
<1>3. CASE overtaken # "before" /\ \A r \in Runs : Start(r) => \A q \in Runs : ~Active(q)
  BY <1>1, <1>3, StepRetries DEF Retries
<1>4. ASSUME NEW r \in Runs, Start(r), NEW q \in Runs, Active(q) PROVE Retries'
  <2>1. overtaken' = "before"
    BY <1>4, Zenon DEF Start
  <2> QED
    BY <1>1, <2>1 DEF Retries
<1> QED
  BY <1>2, <1>3, <1>4, Zenon

\* A job that is resumed has a try left for every file that is not done
\* (resume_from), unless the Core ended, two runs of the job went on at once, or a
\* run was resumed from a checkpoint that had lost what a newer one knew.  A batch
\* that failed once must have a second try (MAX_FILE_TRIES is 3).
THEOREM ResumeRetriesCorrect ==
    ASSUME MaxTries >= 2
    PROVE  Spec => []ResumeRetries
<1>1. Retries /\ [Next]_vars => Retries'
  BY StepKeepsRetries
<1>2. Init => Retries
  BY InitRetries DEF Retries, RetryInv
<1>3. Spec => []Retries
  BY <1>1, <1>2, PTL DEF Spec
<1>4. Retries => ResumeRetries
  BY RetryImplies, Zenon DEF Retries, ResumeRetries
<1> QED
  BY <1>3, <1>4, PTL

-----------------------------------------------------------------------------
(* A run that goes on can always take a step. *)

\* A task holds files that are not done, and the one it is at is one of them.
AtHand(r, t) ==
    /\ t.todo \cap (pending[r] \cup mem[r].done) = {}
    /\ t.file \in t.todo \cup {None}

\* No file is waiting and done, or in the hands of two tasks.
Apart(r) ==
    /\ pending[r] \cap mem[r].done = {}
    /\ \A a \in Agents : AtHand(r, agent[r][a])
    /\ \A a, b \in Agents : a # b => agent[r][a].todo \cap agent[r][b].todo = {}

ApartInv == KeptInv /\ \A r \in Runs : Apart(r)

\* A task goes on with files it had; what it puts down may be done.
GoesOn(r, a, rec) ==
    /\ agent' = [agent EXCEPT ![r][a] = rec]
    /\ rec.todo \subseteq agent[r][a].todo
    /\ rec.file \in rec.todo \cup {None}
    /\ mem'[r].done \subseteq mem[r].done \cup (agent[r][a].todo \ rec.todo)
    /\ \A q \in Runs \ {r} : mem'[q] = mem[q]
    /\ pending' = pending

LEMMA AgentGoesOn ==
    ASSUME ApartInv, NEW q \in Runs, NEW a \in Agents, AgentStep(q, a)
    PROVE  \E rec : GoesOn(q, a, rec)
<1> DEFINE t == agent[q][a]
<1>t. t \in Tasks /\ mem \in [Runs -> States] /\ mem[q] \in States
  BY DEF ApartInv, KeptInv, TInv, TypeOK
<1>k. (t.st \in {"gate", "store"} => t.file \in t.todo) /\ t.file \in t.todo \cup {None}
  BY DEF ApartInv, Apart, AtHand, KeptInv, SlotKept
<1>w. t.todo \subseteq Files
  BY <1>t, SMT DEF Tasks
<1> HIDE DEF t
<1>g. ASSUME NEW rec, agent' = [agent EXCEPT ![q][a] = rec], rec.todo \subseteq t.todo,
             rec.file \in rec.todo \cup {None}, NEW m, mem' = [mem EXCEPT ![q] = m],
             m.done \subseteq mem[q].done \cup (t.todo \ rec.todo), pending' = pending
      PROVE  \E r : GoesOn(q, a, r)
  <2>1. mem'[q] = m /\ \A r \in Runs \ {q} : mem'[r] = mem[r]
    BY <1>g, <1>t
  <2>2. GoesOn(q, a, rec)
    BY <1>g, <2>1, Zenon DEF GoesOn, t
  <2> QED
    BY <2>2
<1>u. ASSUME NEW rec, agent' = [agent EXCEPT ![q][a] = rec], rec.todo \subseteq t.todo,
             rec.file \in rec.todo \cup {None}, mem' = mem, pending' = pending
      PROVE  \E r : GoesOn(q, a, r)
  <2>1. mem' = [mem EXCEPT ![q] = mem[q]]
    BY <1>u, <1>t
  <2>2. mem[q].done \subseteq mem[q].done \cup (t.todo \ rec.todo)
    OBVIOUS
  <2> QED
    BY <1>u, <1>g, <2>1, <2>2
<1>1. CASE Begin(q, a)
  <2> DEFINE rec == [t EXCEPT !.st = "next", !.context = mem[q].done]
  <2>1. rec.todo = t.todo /\ rec.file = t.file
    BY <1>t, SMT DEF Tasks
  <2>2. agent' = [agent EXCEPT ![q][a] = rec] /\ UNCHANGED <<pending, mem>>
    BY <1>1, Zenon DEF Begin, Step, t
  <2> HIDE DEF rec
  <2> QED
    BY <1>k, <1>u, <2>1, <2>2
<1>2. CASE End(q, a)
  <2> DEFINE rec == [t EXCEPT !.st = "ended", !.todo = {}]
  <2>1. rec.todo = {} /\ rec.file = t.file
    BY <1>t, SMT DEF Tasks
  <2>2. /\ agent' = [agent EXCEPT ![q][a] = rec] /\ UNCHANGED <<pending, mem>>
        /\ t.todo \subseteq mem[q].done
    BY <1>2, Zenon DEF End, AllDone, Step, t
  <2>3. t.file = None
    <3>1. t.todo = {}
      BY <2>2, SMT DEF ApartInv, Apart, AtHand, t
    <3> QED
      BY <1>k, <3>1
  <2> HIDE DEF rec
  <2> QED
    BY <1>u, <2>1, <2>2, <2>3
<1>3. CASE Write(q, a)
  <2>1. PICK f \in Files : Current(q, a, f) /\ Step(q, a, [t EXCEPT !.st = "gate", !.file = f, !.view = mem[q]])
    BY <1>3, Zenon DEF Write, t
  <2> DEFINE rec == [t EXCEPT !.st = "gate", !.file = f, !.view = mem[q]]
  <2>2. rec.todo = t.todo /\ rec.file = f
    BY <1>t, SMT DEF Tasks
  <2>3. agent' = [agent EXCEPT ![q][a] = rec] /\ f \in t.todo
    BY <2>1, Zenon DEF Current, Step, t
  <2>4. UNCHANGED <<pending, mem>>
    BY <1>3 DEF Write
  <2> HIDE DEF rec
  <2> QED
    BY <1>u, <2>2, <2>3, <2>4
<1>4. CASE WriteFails(q, a)
  <2>1. PICK f \in Files :
          /\ Current(q, a, f)
          /\ mem' = [mem EXCEPT ![q].tries[f] = @ + 1]
          /\ \E file \in IF t.batch = {f} \/ mem[q].tries[f] > 0 THEN {f} ELSE {f, None} :
               Step(q, a, [t EXCEPT !.st = "save", !.file = file])
    BY <1>4, Zenon DEF WriteFails, t
  <2>2. PICK file \in {f, None} : Step(q, a, [t EXCEPT !.st = "save", !.file = file])
    BY <2>1, Zenon
  <2> DEFINE rec == [t EXCEPT !.st = "save", !.file = file]
             m == [mem[q] EXCEPT !.tries[f] = @ + 1]
  <2>3. rec.todo = t.todo /\ rec.file = file
    BY <1>t, SMT DEF Tasks
  <2>4. agent' = [agent EXCEPT ![q][a] = rec] /\ f \in t.todo
    BY <2>1, <2>2, Zenon DEF Current, Step, t
  <2>5. m.done = mem[q].done
    BY <1>t, SMT DEF States
  <2>6. mem' = [mem EXCEPT ![q] = m]
    BY <2>1, Zenon
  <2>7. UNCHANGED pending
    BY <1>4 DEF WriteFails
  <2> HIDE DEF rec, m
  <2> QED
    BY <1>g, <2>2, <2>3, <2>4, <2>5, <2>6, <2>7
<1>5. CASE WriteRaises(q, a)
  <2> DEFINE rec == [t EXCEPT !.st = "raised", !.todo = {}, !.file = None, !.view = NoState]
  <2>1. rec.todo = {} /\ rec.file = None
    BY <1>t, SMT DEF Tasks
  <2>2. agent' = [agent EXCEPT ![q][a] = rec] /\ UNCHANGED <<pending, mem>>
    BY <1>5, Zenon DEF WriteRaises, Step, t
  <2> HIDE DEF rec
  <2> QED
    BY <1>u, <2>1, <2>2
<1>6. CASE GiveUp(q, a)
  <2>1. PICK f \in Files :
          /\ Current(q, a, f)
          /\ mem' = [mem EXCEPT ![q] = GivenUp(mem[q], f)]
          /\ Step(q, a, [t EXCEPT !.st = "save", !.file = None, !.todo = @ \ {f}])
    BY <1>6, Zenon DEF GiveUp, t
  <2> DEFINE rec == [t EXCEPT !.st = "save", !.file = None, !.todo = @ \ {f}]
  <2>2. rec.todo = t.todo \ {f} /\ rec.file = None
    BY <1>t, SMT DEF Tasks
  <2>3. agent' = [agent EXCEPT ![q][a] = rec] /\ f \in t.todo
    BY <2>1, Zenon DEF Current, Step, t
  <2>5. GivenUp(mem[q], f).done \subseteq mem[q].done \cup {f}
    BY <1>t, SMT DEF GivenUp, Finished, States
  <2>6. UNCHANGED pending
    BY <1>6 DEF GiveUp
  <2> HIDE DEF rec
  <2>7. GivenUp(mem[q], f).done \subseteq mem[q].done \cup (t.todo \ rec.todo)
    BY <2>2, <2>3, <2>5
  <2> QED
    BY <1>g, <2>1, <2>2, <2>3, <2>6, <2>7
<1>7. CASE GateRepairs(q, a)
  <2>1. PICK fx : mem' = [mem EXCEPT ![q].fixes = fx]
    BY <1>7, Zenon DEF GateRepairs
  <2> DEFINE rec == [t EXCEPT !.st = "store", !.view = NoState]
             m == [mem[q] EXCEPT !.fixes = fx]
  <2>2. rec.todo = t.todo /\ rec.file = t.file
    BY <1>t, SMT DEF Tasks
  <2>3. agent' = [agent EXCEPT ![q][a] = rec]
    BY <1>7, Zenon DEF GateRepairs, Step, t
  <2>4. m.done = mem[q].done
    BY <1>t, SMT DEF States
  <2>5. mem' = [mem EXCEPT ![q] = m]
    BY <2>1, Zenon
  <2>6. UNCHANGED pending
    BY <1>7 DEF GateRepairs
  <2> HIDE DEF rec, m
  <2> QED
    BY <1>g, <1>k, <2>2, <2>3, <2>4, <2>5, <2>6
<1>8. CASE Store(q, a)
  <2> DEFINE f == t.file
             rec == [t EXCEPT !.st = "save", !.file = None, !.todo = @ \ {f}]
  <2>1. f \in t.todo /\ f \in Files
    BY <1>8, <1>k, <1>w DEF Store, t
  <2>2. rec.todo = t.todo \ {f} /\ rec.file = None
    BY <1>t, SMT DEF Tasks
  <2>3. agent' = [agent EXCEPT ![q][a] = rec] /\ mem' = [mem EXCEPT ![q] = Finished(mem[q], f)]
    BY <1>8, Zenon DEF Store, Step, t
  <2> HIDE DEF rec, f
  <2>4. Finished(mem[q], f).done = mem[q].done \cup {f}
    BY <1>t, <2>1, FinishedKeeps
  <2>5. UNCHANGED pending
    BY <1>8 DEF Store
  <2>6. Finished(mem[q], f).done \subseteq mem[q].done \cup (t.todo \ rec.todo)
    BY <2>1, <2>2, <2>4
  <2> QED
    BY <1>g, <2>2, <2>3, <2>5, <2>6
<1>9. CASE Snapshot(q, a)
  <2> DEFINE rec == [t EXCEPT !.st = "write", !.snap = mem[q]]
  <2>1. rec.todo = t.todo /\ rec.file = t.file
    BY <1>t, SMT DEF Tasks
  <2>2. agent' = [agent EXCEPT ![q][a] = rec] /\ UNCHANGED <<pending, mem>>
    BY <1>9, Zenon DEF Snapshot, Step, t
  <2> HIDE DEF rec
  <2> QED
    BY <1>k, <1>u, <2>1, <2>2
<1>10. CASE SaveSnapshot(q, a)
  <2> DEFINE rec == [t EXCEPT !.st = "next", !.snap = NoState]
  <2>1. rec.todo = t.todo /\ rec.file = t.file
    BY <1>t, SMT DEF Tasks
  <2>2. agent' = [agent EXCEPT ![q][a] = rec] /\ UNCHANGED <<pending, mem>>
    BY <1>10, Zenon DEF SaveSnapshot, Step, t
  <2> HIDE DEF rec
  <2> QED
    BY <1>k, <1>u, <2>1, <2>2
<1> QED
  BY <1>1, <1>2, <1>3, <1>4, <1>5, <1>6, <1>7, <1>8, <1>9, <1>10, Zenon DEF AgentStep

LEMMA AgentApart ==
    ASSUME ApartInv, KeptInv', NEW q \in Runs, NEW a \in Agents, AgentStep(q, a)
    PROVE  ApartInv'
<1>t. agent \in [Runs -> [Agents -> Tasks]]
  BY DEF ApartInv, KeptInv, TInv, TypeOK
<1>r. PICK rec : GoesOn(q, a, rec)
  BY AgentGoesOn
<1>1. \A r \in Runs, b \in Agents :
          agent'[r][b] = IF r = q /\ b = a THEN rec ELSE agent[r][b]
  BY <1>r, <1>t, SMT DEF GoesOn
<1> SUFFICES ASSUME NEW r \in Runs PROVE Apart(r)'
  BY DEF ApartInv
<1>2. Apart(r) /\ Apart(q)
  BY DEF ApartInv
<1>3. CASE r # q
  <2>1. (\A b \in Agents : agent'[r][b] = agent[r][b]) /\ mem'[r] = mem[r] /\ pending'[r] = pending[r]
    BY <1>1, <1>3, <1>r DEF GoesOn
  <2> QED
    BY <1>2, <2>1, Zenon DEF Apart, AtHand
<1>4. CASE r = q
  <2> DEFINE t == agent[q][a]
  <2>1. /\ pending'[q] = pending[q] /\ rec.todo \subseteq t.todo
        /\ mem'[q].done \subseteq mem[q].done \cup (t.todo \ rec.todo)
        /\ rec.file \in rec.todo \cup {None}
    BY <1>r DEF GoesOn
  <2>2. agent'[q][a] = rec /\ \A b \in Agents \ {a} : agent'[q][b] = agent[q][b]
    BY <1>1
  <2>3. /\ pending[q] \cap mem[q].done = {}
        /\ t.todo \cap (pending[q] \cup mem[q].done) = {}
        /\ \A b \in Agents \ {a} : /\ AtHand(q, agent[q][b])
                                   /\ agent[q][b].todo \cap t.todo = {}
    BY <1>2 DEF Apart, AtHand
  <2> HIDE DEF t
  <2>4. pending'[q] \cap mem'[q].done = {}
    BY <2>1, <2>3
  <2>5. rec.todo \cap (pending'[q] \cup mem'[q].done) = {}
    BY <2>1, <2>3
  <2>6. AtHand(q, agent[q][a])'
    BY <2>1, <2>2, <2>5 DEF AtHand
  <2>7. ASSUME NEW b \in Agents \ {a}
        PROVE  AtHand(q, agent[q][b])' /\ agent'[q][b].todo \cap rec.todo = {}
    <3>1. agent'[q][b] = agent[q][b]
      BY <2>2
    <3>2. /\ agent[q][b].todo \cap (pending[q] \cup mem[q].done) = {}
          /\ agent[q][b].file \in agent[q][b].todo \cup {None}
          /\ agent[q][b].todo \cap t.todo = {}
      BY <2>3 DEF AtHand
    <3>3. agent[q][b].todo \cap (pending'[q] \cup mem'[q].done) = {}
      BY <2>1, <3>2
    <3>4. agent[q][b].todo \cap rec.todo = {}
      BY <2>1, <3>2
    <3> QED
      BY <3>1, <3>2, <3>3, <3>4, Zenon DEF AtHand
  <2>8. \A b \in Agents : AtHand(q, agent[q][b])'
    BY <2>6, <2>7
  <2>9. ASSUME NEW b \in Agents, NEW c \in Agents, b # c
        PROVE  agent'[q][b].todo \cap agent'[q][c].todo = {}
    <3>1. CASE b = a
      BY <2>2, <2>7, <2>9, <3>1
    <3>2. CASE c = a
      BY <2>2, <2>7, <2>9, <3>2
    <3>3. CASE b # a /\ c # a
      <4>1. agent'[q][b] = agent[q][b] /\ agent'[q][c] = agent[q][c]
        BY <2>2, <3>3
      <4> QED
        BY <1>2, <2>9, <4>1 DEF Apart
    <3> QED
      BY <3>1, <3>2, <3>3
  <2> QED
    BY <1>4, <2>4, <2>8, <2>9 DEF Apart
<1> QED
  BY <1>3, <1>4

\* Tasks that have nothing to do, and files that are not done, keep apart.
LEMMA RestApart ==
    ASSUME ApartInv, NEW q \in Runs, PoolEmpty(q), agent' = agent,
           pending'[q] \cap mem'[q].done = {},
           \A r \in Runs \ {q} : \/ pending'[r] = pending[r] /\ mem'[r] = mem[r]
                                 \/ PoolEmpty(r) /\ pending'[r] = {}
    PROVE  \A r \in Runs : Apart(r)'
<1>1. ASSUME NEW r \in Runs, PoolEmpty(r), pending'[r] \cap mem'[r].done = {} PROVE Apart(r)'
  <2>1. \A a \in Agents : agent[r][a].todo = {}
    BY <1>1, SMT DEF ApartInv, KeptInv, SlotKept, PoolEmpty
  <2>2. \A a \in Agents : agent[r][a].file \in agent[r][a].todo \cup {None}
    BY DEF ApartInv, Apart, AtHand
  <2>3. \A a \in Agents : AtHand(r, agent[r][a])'
    BY <2>1, <2>2 DEF AtHand
  <2> QED
    BY <1>1, <2>1, <2>3 DEF Apart
<1>2. ASSUME NEW r \in Runs \ {q}, pending'[r] = pending[r], mem'[r] = mem[r] PROVE Apart(r)'
  <2>1. Apart(r)
    BY DEF ApartInv
  <2> QED
    BY <1>2, <2>1, Zenon DEF Apart, AtHand
<1> QED
  BY <1>1, <1>2

LEMMA CollectApart ==
    ASSUME ApartInv, NEW q \in Runs, Collect(q)
    PROVE  \A r \in Runs : Apart(r)'
<1>t. agent \in [Runs -> [Agents -> Tasks]]
  BY DEF ApartInv, KeptInv, TInv, TypeOK
<1>0. PICK a \in Agents : agent' = [agent EXCEPT ![q][a] = Free]
  BY Zenon DEF Collect
<1>f. Free.todo = {} /\ Free.file = None
  BY DEF Free
<1>1. \A r \in Runs, b \in Agents :
          agent'[r][b] = IF r = q /\ b = a THEN Free ELSE agent[r][b]
  BY <1>0, <1>t, SMT
<1>2. mem' = mem /\ pending' = pending
  BY DEF Collect
<1> TAKE r \in Runs
<1>3. Apart(r)
  BY DEF ApartInv
<1>4. ASSUME NEW b \in Agents
      PROVE  AtHand(r, agent[r][b])' /\ agent'[r][b].todo \subseteq agent[r][b].todo
  <2>1. CASE r = q /\ b = a
    <3>1. agent'[r][b] = Free
      BY <1>1, <2>1
    <3> QED
      BY <1>f, <3>1 DEF AtHand
  <2>2. CASE ~(r = q /\ b = a)
    <3>1. agent'[r][b] = agent[r][b] /\ AtHand(r, agent[r][b])
      BY <1>1, <1>3, <2>2 DEF Apart
    <3> QED
      BY <1>2, <3>1, Zenon DEF AtHand
  <2> QED
    BY <2>1, <2>2
<1>5. ASSUME NEW b \in Agents, NEW c \in Agents, b # c
      PROVE  agent'[r][b].todo \cap agent'[r][c].todo = {}
  <2>1. agent[r][b].todo \cap agent[r][c].todo = {}
    BY <1>3, <1>5 DEF Apart
  <2> QED
    BY <1>4, <2>1
<1>6. pending'[r] \cap mem'[r].done = {}
  BY <1>2, <1>3 DEF Apart
<1> QED
  BY <1>4, <1>5, <1>6 DEF Apart

\* What is dispatched was waiting: nobody had it.
LEMMA DispatchApart ==
    ASSUME ApartInv, NEW q \in Runs, Dispatch(q)
    PROVE  \A r \in Runs : Apart(r)'
<1>t. /\ agent \in [Runs -> [Agents -> Tasks]] /\ pending \in [Runs -> SUBSET Files]
  BY DEF ApartInv, KeptInv, TInv, TypeOK
<1>a. PICK a \in Agents, f \in Startable(q) : \E batch \in Batches(q, f) :
          /\ pending' = [pending EXCEPT ![q] = @ \ batch]
          /\ agent' = [agent EXCEPT ![q][a] =
                 [Free EXCEPT !.st = "begin", !.batch = batch, !.todo = batch]]
  BY Zenon DEF Dispatch
<1>b. PICK batch \in Batches(q, f) :
          /\ pending' = [pending EXCEPT ![q] = @ \ batch]
          /\ agent' = [agent EXCEPT ![q][a] =
                 [Free EXCEPT !.st = "begin", !.batch = batch, !.todo = batch]]
  BY <1>a, Zenon
<1> DEFINE rec == [Free EXCEPT !.st = "begin", !.batch = batch, !.todo = batch]
<1>1. rec.todo = batch /\ rec.file = None
  BY SMT DEF Free
<1>2. agent' = [agent EXCEPT ![q][a] = rec]
  BY <1>b
<1> HIDE DEF rec
<1>3. \A r \in Runs, b \in Agents :
          agent'[r][b] = IF r = q /\ b = a THEN rec ELSE agent[r][b]
  BY <1>2, <1>t, SMT
<1>4. mem' = mem
  BY DEF Dispatch
<1>5. batch \subseteq pending[q]
  BY BatchType
<1> TAKE r \in Runs
<1>6. Apart(r)
  BY DEF ApartInv
<1>7. CASE r # q
  <2>1. (\A b \in Agents : agent'[r][b] = agent[r][b]) /\ pending'[r] = pending[r]
    BY <1>3, <1>7, <1>b, <1>t
  <2> QED
    BY <1>4, <1>6, <2>1, Zenon DEF Apart, AtHand
<1>8. CASE r = q
  <2>1. pending'[q] = pending[q] \ batch
    BY <1>b, <1>t
  <2>2. agent'[q][a] = rec /\ \A b \in Agents \ {a} : agent'[q][b] = agent[q][b]
    BY <1>3
  <2>3. pending[q] \cap mem[q].done = {}
    BY <1>6, <1>8 DEF Apart
  <2>4. AtHand(q, agent[q][a])'
    <3>1. batch \cap (pending'[q] \cup mem'[q].done) = {}
      BY <1>4, <1>5, <2>1, <2>3
    <3> QED
      BY <1>1, <2>2, <3>1 DEF AtHand
  <2>5. ASSUME NEW b \in Agents \ {a}
        PROVE  AtHand(q, agent[q][b])' /\ agent'[q][b].todo \cap batch = {}
    <3>1. /\ agent[q][b].todo \cap (pending[q] \cup mem[q].done) = {}
          /\ agent[q][b].file \in agent[q][b].todo \cup {None}
      BY <1>6, <1>8 DEF Apart, AtHand
    <3>2. agent[q][b].todo \cap (pending'[q] \cup mem'[q].done) = {}
      BY <1>4, <2>1, <3>1
    <3>3. agent[q][b].todo \cap batch = {}
      BY <1>5, <3>1
    <3> QED
      BY <2>2, <3>1, <3>2, <3>3, Zenon DEF AtHand
  <2>6. \A b \in Agents : AtHand(q, agent[q][b])'
    BY <2>4, <2>5
  <2>7. ASSUME NEW b \in Agents, NEW c \in Agents, b # c
        PROVE  agent'[q][b].todo \cap agent'[q][c].todo = {}
    <3>1. CASE b = a
      BY <1>1, <2>2, <2>5, <2>7, <3>1
    <3>2. CASE c = a
      BY <1>1, <2>2, <2>5, <2>7, <3>2
    <3>3. CASE b # a /\ c # a
      <4>1. agent'[q][b] = agent[q][b] /\ agent'[q][c] = agent[q][c]
        BY <2>2, <3>3
      <4> QED
        BY <1>6, <1>8, <2>7, <4>1 DEF Apart
    <3> QED
      BY <3>1, <3>2, <3>3
  <2>8. pending'[q] \cap mem'[q].done = {}
    BY <1>4, <2>1, <2>3
  <2> QED
    BY <1>8, <2>6, <2>7, <2>8 DEF Apart
<1> QED
  BY <1>7, <1>8

LEMMA MainApart ==
    ASSUME ApartInv, NEW q \in Runs, MainStep(q) \/ Start(q)
    PROVE  \A r \in Runs : Apart(r)'
<1>t. /\ pc \in [Runs -> PCs] /\ mem \in [Runs -> States] /\ pending \in [Runs -> SUBSET Files]
  BY SMT DEF ApartInv, KeptInv, TInv, TypeOK, PCs
<1>p. \A r \in Runs : pc[r] # "schedule" => PoolEmpty(r)
  BY Zenon DEF ApartInv, KeptInv, SlotKept, PoolEmpty
<1>1. CASE Start(q)
  <2>1. PICK sk \in BOOLEAN :
          mem' = [s \in Runs |->
                 IF s = q
                 THEN IF disk.kind = "result" THEN disk.mem ELSE Resumed(disk.mem, sk)
                 ELSE IF Active(s) THEN mem[s] ELSE NoState]
    BY <1>1, Zenon DEF Start
  <2>2. agent' = agent /\ pc[q] = "idle" /\ pending' = [s \in Runs |-> IF Active(s) THEN pending[s] ELSE {}]
    BY <1>1 DEF Start
  <2>3. pending'[q] = {}
    BY <2>2 DEF Active
  <2>4. ASSUME NEW r \in Runs \ {q}
        PROVE  \/ pending'[r] = pending[r] /\ mem'[r] = mem[r]
               \/ PoolEmpty(r) /\ pending'[r] = {}
    <3>1. CASE Active(r)
      BY <2>1, <2>2, <3>1
    <3>2. CASE ~Active(r)
      <4>1. pc[r] # "schedule"
        BY <3>2 DEF Active, Ended
      <4> QED
        BY <1>p, <2>2, <3>2, <4>1
    <3> QED
      BY <3>1, <3>2
  <2>5. pending'[q] \cap mem'[q].done = {} /\ PoolEmpty(q)
    BY <1>p, <2>2, <2>3
  <2> QED
    BY <2>2, <2>4, <2>5, RestApart, Zenon
<1>2. ASSUME NEW m, mem' = [mem EXCEPT ![q] = m], pending' = [pending EXCEPT ![q] = Todo(q, m)],
             PoolEmpty(q), agent' = agent
      PROVE  \A r \in Runs : Apart(r)'
  <2>1. mem'[q] = m /\ pending'[q] = Todo(q, m)
    BY <1>2, <1>t
  <2>2. pending'[q] \cap mem'[q].done = {}
    BY <2>1, SMT DEF Todo
  <2>3. \A r \in Runs \ {q} : pending'[r] = pending[r] /\ mem'[r] = mem[r]
    BY <1>2, <1>t
  <2> QED
    BY <1>2, <2>2, <2>3, RestApart, Zenon
<1>3. CASE Plan(q)
  <2>1. PICK m : mem' = [mem EXCEPT ![q] = m] /\ pending' = [pending EXCEPT ![q] = Todo(q, m)]
    BY <1>3, Zenon DEF Plan
  <2> QED
    BY <1>2, <1>3, <1>p, <2>1 DEF Plan
<1>4. CASE FillMissing(q)
  <2>1. PICK m : mem' = [mem EXCEPT ![q] = m] /\ pending' = [pending EXCEPT ![q] = Todo(q, m)]
    BY <1>4, Zenon DEF FillMissing
  <2> QED
    BY <1>2, <1>4, <2>1 DEF FillMissing, ScheduleDone
<1>5. CASE PlanFails(q) \/ PauseOnError(q) \/ PauseOnFailed(q) \/ Complete(q) \/ Deliver(q)
  <2>1. agent' = agent /\ mem' = mem /\ pending' = pending
    BY <1>5, Zenon DEF PlanFails, PauseOnError, PauseOnFailed, Complete, Deliver
  <2> QED
    BY <2>1, Zenon DEF ApartInv, Apart, AtHand
<1> QED
  BY <1>1, <1>3, <1>4, <1>5, CollectApart, DispatchApart, Zenon DEF MainStep

LEMMA InitApart == Init => ApartInv
<1> SUFFICES ASSUME Init, NEW r \in Runs PROVE Apart(r)
  BY InitSees DEF ApartInv, SeenInv
<1>1. \A a \in Agents : agent[r][a] = Free
  BY DEF Init
<1>2. pending[r] = {} /\ Free.todo = {} /\ Free.file = None
  BY DEF Init, Free
<1> QED
  BY <1>1, <1>2 DEF Apart, AtHand

LEMMA StepApart == ApartInv /\ [Next]_vars => ApartInv'
<1> SUFFICES ASSUME ApartInv, [Next]_vars PROVE ApartInv'
  OBVIOUS
<1>0. KeptInv'
  BY StepSees DEF KeepsBoth, ApartInv
<1>1. CASE UNCHANGED vars
  <2>1. \A r \in Runs : Apart(r)'
    BY <1>1, Zenon DEF vars, ApartInv, Apart, AtHand
  <2> QED
    BY <1>0, <2>1 DEF ApartInv
<1>2. ASSUME NEW r \in Runs, Start(r) \/ MainStep(r) PROVE ApartInv'
  BY <1>0, <1>2, MainApart DEF ApartInv
<1>3. ASSUME NEW r \in Runs, NEW a \in Agents, AgentStep(r, a) PROVE ApartInv'
  BY <1>0, <1>3, AgentApart
<1>4. CASE Crash
  <2>1. ASSUME NEW r \in Runs PROVE Apart(r)'
    <3>1. \A a \in Agents : agent'[r][a] = Free
      BY <1>4 DEF Crash
    <3>2. Free.todo = {} /\ Free.file = None
      BY DEF Free
    <3>3. pending'[r] \cap mem'[r].done = {}
      <4>1. Apart(r)
        BY DEF ApartInv
      <4>2. pending'[r] = {} \/ (pending'[r] = pending[r] /\ mem'[r] = mem[r])
        BY <1>4 DEF Crash
      <4> QED
        BY <4>1, <4>2 DEF Apart
    <3> QED
      BY <3>1, <3>2, <3>3 DEF Apart, AtHand
  <2> QED
    BY <1>0, <2>1 DEF ApartInv
<1> QED
  BY <1>1, <1>2, <1>3, <1>4, Zenon DEF Next

\* Some element of a set has the least of the numbers that v gives them.
LEMMA LeastExists ==
    ASSUME NEW S, S # {}, NEW v, \A x \in S : v[x] \in Nat
    PROVE  \E x \in S : \A y \in S : v[x] <= v[y]
<1> DEFINE T == {v[x] : x \in S}
           R == OpToRel(<, Nat)
<1>1. T \subseteq Nat /\ T # {}
  OBVIOUS
<1>2. IsWellFoundedOn(R, Nat)
  BY NatLessThanWellFounded, Zenon
<1>3. \A i, j \in Nat : i < j => <<i, j>> \in R
  BY DEF OpToRel
<1> HIDE DEF R
<1>4. PICK i \in T : \A j \in T : ~(<<j, i>> \in R)
  <2> HIDE DEF T
  <2> QED
    BY <1>1, <1>2, WFMin
<1>5. \A j \in T : i <= j
  <2> TAKE j \in T
  <2>1. i \in Nat /\ j \in Nat
    BY <1>1
  <2>2. ~(j < i)
    BY <1>3, <1>4, <2>1
  <2> QED
    BY <2>1, <2>2
<1>6. PICK x \in S : v[x] = i
  OBVIOUS
<1>7. \A y \in S : v[x] <= v[y]
  BY <1>5, <1>6
<1> QED
  BY <1>7

LEMMA RanksAreNumbers == \A f \in Files : Rank[f] \in Nat
BY GenerationAssumption, SMT

\* When nobody works and files wait, one of them is told to start.
LEMMA StuckStarts ==
    ASSUME ApartInv, NEW r \in Runs, pending[r] # {}
    PROVE  Stuck(r) # {}
<1> DEFINE soft == {f \in pending[r] : UnmetStrong(r, f) = {}}
           pool == IF soft # {} THEN soft ELSE pending[r]
           lowest == {f \in pool : \A g \in pool : Rank[f] <= Rank[g]}
           missing == [f \in Files |-> Cardinality(Unmet(r, f))]
<1>1. pending[r] \subseteq Files
  BY DEF ApartInv, KeptInv, TInv, TypeOK
<1>2. pool # {} /\ pool \subseteq Files
  BY <1>1
<1>3. lowest # {} /\ lowest \subseteq Files
  <2> HIDE DEF pool
  <2>1. \E f \in pool : \A g \in pool : Rank[f] <= Rank[g]
    <3>1. \A f \in pool : Rank[f] \in Nat
      BY <1>2, RanksAreNumbers
    <3> QED
      BY <1>2, <3>1, LeastExists
  <2> QED
    BY <1>2, <2>1
<1>4. \A f \in Files : Cardinality(Unmet(r, f)) \in Nat
  <2> TAKE f \in Files
  <2>1. mem[r] \in States
    BY DEF ApartInv, KeptInv, TInv, TypeOK
  <2>2. mem[r].files \subseteq Files
    BY <2>1 DEF States
  <2>3. Unmet(r, f) \in SUBSET Files
    BY <2>2, SMT DEF Unmet, Strong, Weak
  <2>4. IsFiniteSet(Files)
    BY GenerationAssumption
  <2>5. IsFiniteSet(Unmet(r, f))
    BY <2>3, <2>4, FS_Subset
  <2> QED
    BY <2>5, FS_CardinalityType
<1> HIDE DEF lowest
<1>5. PICK f \in lowest : \A g \in lowest : missing[f] <= missing[g]
  <2>1. \A f \in lowest : missing[f] \in Nat
    BY <1>3, <1>4
  <2> HIDE DEF missing
  <2> QED
    BY <1>3, <2>1, LeastExists
<1>6. \A g \in lowest : Cardinality(Unmet(r, f)) <= Cardinality(Unmet(r, g))
  BY <1>3, <1>5
<1>7. f \in {h \in lowest : \A g \in lowest : Cardinality(Unmet(r, h)) <= Cardinality(Unmet(r, g))}
  BY <1>6
<1> QED
  BY <1>7, Zenon DEF Stuck, lowest

LEMMA SomethingStarts ==
    ASSUME ApartInv, NEW r \in Runs, pending[r] # {}, PoolEmpty(r)
    PROVE  \E f \in Startable(r) : Batches(r, f) # {}
<1>1. Startable(r) # {}
  <2>1. CASE Ready(r) = {}
    BY <2>1, StuckStarts, Zenon DEF Startable, PoolEmpty
  <2>2. CASE Ready(r) # {}
    <3>1. \A f \in Ready(r) : Rank[f] \in Nat
      BY RanksAreNumbers, SMT DEF Ready, ApartInv, KeptInv, TInv, TypeOK
    <3>2. \E f \in Ready(r) : \A g \in Ready(r) : Rank[f] <= Rank[g]
      BY <2>2, <3>1, LeastExists
    <3> QED
      BY <2>2, <3>2, Zenon DEF Startable
  <2> QED
    BY <2>1, <2>2
<1>2. ASSUME NEW f PROVE Batches(r, f) # {}
  <2> DEFINE mates == {g \in Ready(r) \ {f} : /\ Small(r, f) /\ Small(r, g)
                                              /\ Side[g] = Side[f] /\ Rank[g] = Rank[f]}
  <2>1. Batches(r, f) = IF f \notin Ready(r) \/ mates = {} THEN {{f}} ELSE {{f, g} : g \in mates}
    BY Zenon DEF Batches
  <2> HIDE DEF mates
  <2> QED
    BY <2>1
<1> QED
  BY <1>1, <1>2

\* A task in a slot goes on, or has ended and is collected.
LEMMA TaskMoves ==
    ASSUME ApartInv, NEW r \in Runs, NEW a \in Agents, agent[r][a].st # "free",
           pc[r] = "schedule"
    PROVE  CanMove(r)
<1> DEFINE t == agent[r][a]
<1>1. t \in Tasks /\ mem[r] \in States
  BY DEF ApartInv, KeptInv, TInv, TypeOK
<1>2. CASE t.st \in {"ended", "raised"}
  BY <1>2 DEF CanMove, MainCanMove
<1>3. CASE t.st \in {"begin", "gate", "store", "save", "write"}
  BY <1>3 DEF CanMove, AgentCanMove
<1>4. CASE t.st = "next"
  <2>1. t.todo \cap mem[r].done = {} /\ t.file \in t.todo \cup {None} /\ t.todo \subseteq Files
    BY <1>1 DEF ApartInv, Apart, AtHand, Tasks
  <2>2. CASE t.todo = {}
    BY <1>4, <2>2 DEF CanMove, AgentCanMove, AllDone
  <2>3. CASE t.todo # {}
    <3>1. PICK f \in t.todo : t.file \in {f, None}
      BY <2>1, <2>3
    <3>2. Current(r, a, f)
      BY <1>4, <2>1, <3>1 DEF Current
    <3>3. mem[r].tries[f] \in 0 .. MaxTries
      BY <1>1, <2>1, <3>1, SMT DEF States
    <3>4. mem[r].tries[f] <= MaxTries
      BY <3>3, GenerationAssumption
    <3> QED
      BY <2>1, <3>1, <3>2, <3>4 DEF CanMove, AgentCanMove
  <2> QED
    BY <2>2, <2>3
<1> QED
  BY <1>1, <1>2, <1>3, <1>4 DEF Tasks

LEMMA ApartMoves == ApartInv => RunNeverStuck
<1> SUFFICES ASSUME ApartInv, NEW r \in Runs, Active(r) PROVE CanMove(r)
  BY DEF RunNeverStuck
<1>1. pc[r] \in {"plan", "schedule", "deliver"}
  BY SMT DEF ApartInv, KeptInv, TInv, TypeOK, Active
<1>2. CASE pc[r] \in {"plan", "deliver"}
  BY <1>2 DEF CanMove, MainCanMove
<1>3. CASE pc[r] = "schedule" /\ ~PoolEmpty(r)
  BY <1>3, TaskMoves DEF PoolEmpty
<1>4. CASE pc[r] = "schedule" /\ PoolEmpty(r) /\ (erred[r] \/ pending[r] = {})
  BY <1>4 DEF CanMove, MainCanMove, ScheduleDone
<1>5. CASE pc[r] = "schedule" /\ PoolEmpty(r) /\ ~erred[r] /\ pending[r] # {}
  <2>1. \E f \in Startable(r) : Batches(r, f) # {}
    BY <1>5, SomethingStarts
  <2>2. \E a \in Agents : agent[r][a].st = "free"
    BY <1>5, GenerationAssumption DEF PoolEmpty
  <2> QED
    BY <1>5, <2>1, <2>2 DEF CanMove, MainCanMove
<1> QED
  BY <1>1, <1>2, <1>3, <1>4, <1>5

\* A run that goes on has a step to take, whatever its files wait for: uses that
\* form a cycle or run against the order by path (_schedule), and whatever the
\* tasks have in hand (_run_batch).
THEOREM RunNeverStuckCorrect == Spec => []RunNeverStuck
BY InitApart, StepApart, ApartMoves, PTL DEF Spec
=============================================================================
