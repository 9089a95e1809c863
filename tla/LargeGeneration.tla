--------------------------- MODULE LargeGeneration ---------------------------
(***************************************************************************)
(* A large code generation (core/gen_engine.py, class LargeGeneration): an *)
(* engine plans a list of files, and a pool of agents (threads) writes     *)
(* them in the order of their dependencies.  After every file the state is *)
(* saved under the job's id (core/generation_jobs.py), so that a run that  *)
(* stops can be resumed; the result of a run that ends is saved there too. *)
(*                                                                         *)
(* A member of Runs is one call of generate_code for one job.  A run goes  *)
(* on when the window that watches it loses the connection, and the window *)
(* offers to resume the job meanwhile (extension/src/core/codeStream.ts):  *)
(* two runs of one job may go on at once.                                  *)
(*                                                                         *)
(* What a file contains is abstracted to the repairs made to it: the gate  *)
(* of a file (_gate) may repair other files that are done already.  The    *)
(* parts of a file that is being written, the board and the events are     *)
(* left out.                                                               *)
(***************************************************************************)
EXTENDS Naturals, FiniteSets

CONSTANTS
    Files,       \* the files of the job
    Planned,     \* those in the plan; the others are found missing later on
    Uses,        \* Uses[f]: the files f imports, according to the plan
    Imports,     \* Imports[f]: the files it may import when it is written
    Serves,      \* Serves[f]: the server's routes an API file of the screens waits for
    Fixed,       \* the files that come with the plan, ready (plan_hook)
    Side,        \* Side[f]: the part of the project that is built with f
    Rank,        \* Rank[f]: _rank, from 0 (settings) to 7 (documents)
    Large,       \* the files that are never asked for together with another
    Documents,   \* the files that tell about the project and are not part of it
    Ungated,     \* the files the gate does not look at: all but JavaScript
    Agents,      \* the slots of the thread pool
    MaxRuns,     \* bound: calls of generate_code for the job
    MaxAtOnce,   \* bound: those that go on at the same time
    MaxTries,    \* MAX_FILE_TRIES
    MaxFaults,   \* bound: errors of the model that stop a run, and ends of the
                 \* Core's process
    None

ASSUME GenerationAssumption ==
    /\ Planned \subseteq Files /\ Planned # {} /\ IsFiniteSet(Files)
    /\ Fixed \subseteq Planned /\ Serves \in [Files -> SUBSET Files]
    /\ Agents # {}
    /\ Uses \in [Files -> SUBSET Files] /\ Imports \in [Files -> SUBSET Files]
    /\ Rank \in [Files -> 0 .. 7]
    /\ Large \subseteq Files /\ Documents \subseteq Ungated /\ Ungated \subseteq Files
    /\ MaxTries \in Nat \ {0}
    /\ MaxRuns \in Nat /\ MaxAtOnce \in Nat /\ MaxFaults \in Nat
    /\ None \notin Files

Runs == 1 .. MaxRuns

VARIABLES
    pc,         \* pc[r]: where the main thread of a run is
    skip,       \* skip[r]: skip_failed, the user takes what there is
    mem,        \* mem[r]: self.state
    pending,    \* pending[r]: the files no agent has taken yet
    agent,      \* agent[r][a]: the task in a slot of the pool
    erred,      \* erred[r]: first_error is set
    disk,       \* the checkpoint of the job
    faults,
    overtaken   \* history: "now", a snapshot was saved after a newer one;
                \* "before", a run was resumed from such a checkpoint, or
                \* while another run of the job went on; or "no"

vars == <<pc, skip, mem, pending, agent, erred, disk, faults, overtaken>>

\* files: the plan; done and fixes: ops, with the repairs each file received;
\* failed, tries: what could not be written, and how often it was tried.
NoState == [files |-> {}, done |-> {}, fixes |-> [f \in Files |-> {}],
            failed |-> {}, tries |-> [f \in Files |-> 0]]

Checkpoint(kind, m) == [kind |-> kind, mem |-> m]

\* batch: the files of the task; todo: those left; context: what was done when
\* the task began; view, snap: the copy of the state a gate or a save works on.
Free == [st |-> "free", batch |-> {}, todo |-> {}, file |-> None, context |-> {},
         view |-> NoState, snap |-> NoState]

Ended == {"paused", "failed", "broken", "done", "gone"}
Active(r) == pc[r] \notin Ended \cup {"idle"}

Init ==
    /\ pc = [r \in Runs |-> "idle"]
    /\ skip = [r \in Runs |-> FALSE]
    /\ mem = [r \in Runs |-> NoState]
    /\ pending = [r \in Runs |-> {}]
    /\ agent = [r \in Runs |-> [a \in Agents |-> Free]]
    /\ erred = [r \in Runs |-> FALSE]
    /\ disk = Checkpoint("none", NoState)
    /\ faults = 0
    /\ overtaken = "no"

-----------------------------------------------------------------------------
(* Which file waits for which (_deps), and which may start (_schedule). *)

Strong(f, files) == (Uses[f] \cap files) \ {f}

\* g is of the same side and comes earlier by its path.  A file whose uses are
\* known waits for common types and helpers (rank 1) only.
Earlier(f, g, files) ==
    /\ Side[g] = Side[f] /\ Rank[f] < 7
    /\ 0 < Rank[g] /\ Rank[g] < Rank[f]
    /\ Strong(f, files) # {} => Rank[g] = 1

\* Files that f waits for without using them.
Weak(f, files) == {g \in files \ {f} : g \in Serves[f] \/ Earlier(f, g, files)}

Running(r) == UNION {agent[r][a].batch : a \in Agents}
Open(r) == pending[r] \cup Running(r)
UnmetStrong(r, f) == Strong(f, mem[r].files) \cap Open(r)
Unmet(r, f) == (Strong(f, mem[r].files) \cup Weak(f, mem[r].files)) \cap Open(r)

Ready(r) == {f \in pending[r] : Unmet(r, f) = {}}

\* Variant: files that wait for each other are not told apart.
AnyStuck(r) == {f \in pending[r] : \A g \in pending[r] : Rank[f] <= Rank[g]}

\* Variant: files that wait for each other wait for ever.
NoneStuck(r) == {}

\* Files that wait for each other, and nobody works: one starts that waits for
\* no file it uses, or else any; the lowest rank, then the fewest missing.
Stuck(r) ==
    LET soft == {f \in pending[r] : UnmetStrong(r, f) = {}}
        pool == IF soft # {} THEN soft ELSE pending[r]
        lowest == {f \in pool : \A g \in pool : Rank[f] <= Rank[g]}
    IN {f \in lowest : \A g \in lowest :
            Cardinality(Unmet(r, f)) <= Cardinality(Unmet(r, g))}

Startable(r) ==
    IF Ready(r) # {} THEN {f \in Ready(r) : \A g \in Ready(r) : Rank[f] <= Rank[g]}
    ELSE IF \A a \in Agents : agent[r][a].st = "free" THEN Stuck(r)
    ELSE {}

Small(r, f) == f \notin Large /\ mem[r].tries[f] = 0

\* A small file takes a second one of its side and rank with it.
Batches(r, f) ==
    LET mates == {g \in Ready(r) \ {f} : /\ Small(r, f) /\ Small(r, g)
                                         /\ Side[g] = Side[f] /\ Rank[g] = Rank[f]}
    IN IF f \notin Ready(r) \/ mates = {} THEN {{f}} ELSE {{f, g} : g \in mates}

\* What a schedule still has to write.
Todo(r, m) == {f \in m.files : f \notin m.done /\ ~(skip[r] /\ f \in m.failed)}

-----------------------------------------------------------------------------
(* The main thread of a run. *)

Fault == faults < MaxFaults /\ faults' = faults + 1

Overtaken(now) ==
    overtaken' = IF overtaken = "before" THEN "before" ELSE IF now THEN "now" ELSE "no"

SaveNow(m) == disk' = Checkpoint("state", m) /\ Overtaken(FALSE)

\* Variant: what failed before fails at once when the job is resumed.
ResumedTired(m, sk) ==
    IF sk \/ m.failed = {} THEN m ELSE [m EXCEPT !.failed = {}]

\* resume_from: what failed gets one more try, unless the user skips it.
Resumed(m, sk) ==
    IF sk THEN m
    ELSE [m EXCEPT !.failed = {},
                   !.tries = [f \in Files |-> IF f \in m.failed THEN MaxTries - 1
                                              ELSE m.tries[f]]]

\* generate_code: a result on disk is handed out, a state is resumed.  Only a
\* job that is resumed may skip files.  What an ended run knew is gone.
Start(r) ==
    /\ pc[r] = "idle" /\ \A q \in Runs : q < r => pc[q] # "idle"
    /\ Cardinality({q \in Runs : Active(q)}) < MaxAtOnce
    /\ \E sk \in IF disk.kind = "state" THEN BOOLEAN ELSE {FALSE} :
         /\ skip' = [q \in Runs |-> IF q = r THEN sk ELSE Active(q) /\ skip[q]]
         /\ mem' = [q \in Runs |->
                IF q = r
                THEN IF disk.kind = "result" THEN disk.mem ELSE Resumed(disk.mem, sk)
                ELSE IF Active(q) THEN mem[q] ELSE NoState]
    /\ pc' = [pc EXCEPT ![r] = IF disk.kind = "result" THEN "done" ELSE "plan"]
    /\ erred' = [q \in Runs |-> Active(q) /\ erred[q]]
    /\ pending' = [q \in Runs |-> IF Active(q) THEN pending[q] ELSE {}]
    /\ overtaken' = IF overtaken = "no" /\ ~\E q \in Runs : Active(q) THEN "no" ELSE "before"
    /\ UNCHANGED <<disk, agent, faults>>

\* The files that plan_hook brings along are done.
WithPlan(m) ==
    IF m.files # {} THEN m ELSE [m EXCEPT !.files = Planned, !.done = @ \cup Fixed]

\* plan, unless the state has one already; then the schedule begins.
Plan(r) ==
    /\ pc[r] = "plan"
    /\ LET m == WithPlan(mem[r]) IN
       /\ mem' = [mem EXCEPT ![r] = m]
       /\ pending' = [pending EXCEPT ![r] = Todo(r, m)]
       /\ IF m = mem[r] THEN UNCHANGED <<disk, overtaken>> ELSE SaveNow(m)
    /\ pc' = [pc EXCEPT ![r] = "schedule"]
    /\ UNCHANGED <<skip, erred, agent, faults>>

\* An exception nobody expects is raised as it is, and nothing is saved.
Break(r) == pc' = [pc EXCEPT ![r] = "broken"] /\ UNCHANGED <<disk, overtaken>>

\* The quota or the line to the model is gone: the run pauses.  Another error
\* without a plan is raised, there is nothing to resume.
PlanFails(r) ==
    /\ pc[r] = "plan" /\ mem[r].files = {} /\ Fault
    /\ \/ Break(r)
       \/ \E end \in {"paused", "failed"} : pc' = [pc EXCEPT ![r] = end] /\ SaveNow(mem[r])
    /\ UNCHANGED <<skip, mem, pending, erred, agent>>

\* A file that may start goes to a free slot, with a small one like it.
Dispatch(r) ==
    /\ pc[r] = "schedule" /\ ~erred[r]
    /\ \E a \in Agents, f \in Startable(r) :
         /\ agent[r][a].st = "free"
         /\ \E batch \in Batches(r, f) :
              /\ pending' = [pending EXCEPT ![r] = @ \ batch]
              /\ agent' = [agent EXCEPT ![r][a] =
                     [Free EXCEPT !.st = "begin", !.batch = batch, !.todo = batch]]
    /\ UNCHANGED <<pc, skip, mem, erred, disk, overtaken, faults>>

\* A task has ended; its slot is free again.  After an error, one that has not
\* begun is cancelled.
Collect(r) ==
    /\ pc[r] = "schedule"
    /\ \E a \in Agents :
         /\ \/ agent[r][a].st \in {"ended", "raised"}
            \/ agent[r][a].st = "begin" /\ erred[r]
         /\ agent' = [agent EXCEPT ![r][a] = Free]
         /\ erred' = [erred EXCEPT ![r] = @ \/ agent[r][a].st = "raised"]
    /\ UNCHANGED <<pc, skip, mem, pending, disk, overtaken, faults>>

PoolEmpty(r) == \A a \in Agents : agent[r][a].st = "free"

\* An error stops the run once every task has ended; what there is is saved, if
\* it is one of those that run() catches.
PauseOnError(r) ==
    /\ pc[r] = "schedule" /\ erred[r] /\ PoolEmpty(r)
    /\ Break(r) \/ (pc' = [pc EXCEPT ![r] = "paused"] /\ SaveNow(mem[r]))
    /\ UNCHANGED <<skip, mem, pending, erred, agent, faults>>

ScheduleDone(r) ==
    pc[r] = "schedule" /\ ~erred[r] /\ pending[r] = {} /\ PoolEmpty(r)

\* _fill_missing_imports: the code imports files that nobody planned.
FillMissing(r) ==
    /\ ScheduleDone(r)
    /\ \E new \in (SUBSET (UNION {Imports[f] : f \in mem[r].done} \ mem[r].files)) \ {{}} :
         LET m == [mem[r] EXCEPT !.files = @ \cup new] IN
         /\ mem' = [mem EXCEPT ![r] = m]
         /\ pending' = [pending EXCEPT ![r] = Todo(r, m)]
         /\ SaveNow(m)
    /\ UNCHANGED <<pc, skip, erred, agent, faults>>

\* Some files could not be written: the run pauses, and says what it saved.
PauseOnFailed(r) ==
    /\ ScheduleDone(r) /\ mem[r].failed # {} /\ ~skip[r]
    /\ pc' = [pc EXCEPT ![r] = "paused"]
    /\ UNCHANGED <<skip, mem, pending, erred, disk, overtaken, agent, faults>>

\* Everything is there, or skipped; checks and tests of the result follow.
Complete(r) ==
    /\ ScheduleDone(r) /\ (mem[r].failed = {} \/ skip[r])
    /\ pc' = [pc EXCEPT ![r] = IF mem[r].files \subseteq mem[r].done \cup mem[r].failed
                               THEN "deliver" ELSE "failed"]
    /\ UNCHANGED <<skip, mem, pending, erred, disk, overtaken, agent, faults>>

\* The result replaces the checkpoint.
Deliver(r) ==
    /\ pc[r] = "deliver"
    /\ pc' = [pc EXCEPT ![r] = "done"]
    /\ disk' = Checkpoint("result", mem[r])
    /\ UNCHANGED <<skip, mem, pending, erred, overtaken, agent, faults>>

-----------------------------------------------------------------------------
(* An agent at work (task, _run_batch, _run_single). *)

Step(r, a, rec) == agent' = [agent EXCEPT ![r][a] = rec]

\* The task copies what is done: the files its writer may see.
Begin(r, a) ==
    /\ agent[r][a].st = "begin"
    /\ Step(r, a, [agent[r][a] EXCEPT !.st = "next", !.context = mem[r].done])
    /\ UNCHANGED <<pc, skip, mem, pending, erred, disk, overtaken, faults>>

\* Variant: a task ends with the first file of its batch.
FirstDone(r, a) == agent[r][a].todo # agent[r][a].batch

AllDone(r, a) == agent[r][a].todo \subseteq mem[r].done

End(r, a) ==
    /\ agent[r][a].st = "next" /\ AllDone(r, a)
    /\ Step(r, a, [agent[r][a] EXCEPT !.st = "ended", !.todo = {}])
    /\ UNCHANGED <<pc, skip, mem, pending, erred, disk, overtaken, faults>>

\* The file that is worked on: one after the other, until it is done or given up.
Current(r, a, f) ==
    /\ agent[r][a].st = "next" /\ f \in agent[r][a].todo \ mem[r].done
    /\ agent[r][a].file \in {f, None}

\* The model answers with the file, and its gate (_gate) takes a copy of
\* everything that is done.
Write(r, a) ==
    /\ \E f \in Files :
         /\ Current(r, a, f) /\ mem[r].tries[f] < MaxTries
         /\ Step(r, a, [agent[r][a] EXCEPT !.st = "gate", !.file = f, !.view = mem[r]])
    /\ UNCHANGED <<pc, skip, mem, pending, erred, disk, overtaken, faults>>

\* It answers with something else (cut off, not the format): _note_failure.  What
\* fails when both files of a batch are asked for at once is tried again later.
WriteFails(r, a) ==
    /\ \E f \in Files :
         /\ Current(r, a, f) /\ mem[r].tries[f] < MaxTries
         /\ mem' = [mem EXCEPT ![r].tries[f] = @ + 1]
         /\ \E file \in IF agent[r][a].batch = {f} \/ mem[r].tries[f] > 0 THEN {f}
                        ELSE {f, None} :
              Step(r, a, [agent[r][a] EXCEPT !.st = "save", !.file = file])
    /\ UNCHANGED <<pc, skip, pending, erred, disk, overtaken, faults>>

\* It does not answer, or the quota is used up: the task ends with an error.
WriteRaises(r, a) ==
    /\ Fault
    /\ \/ agent[r][a].st = "gate"
       \/ \E f \in Files : Current(r, a, f) /\ mem[r].tries[f] < MaxTries
    /\ Step(r, a, [agent[r][a] EXCEPT !.st = "raised", !.todo = {}, !.file = None,
                                     !.view = NoState])
    /\ UNCHANGED <<pc, skip, mem, pending, erred, disk, overtaken>>

Finished(m, f) == [m EXCEPT !.done = @ \cup {f}, !.failed = @ \ {f}]

\* A document that cannot be had is composed from the plan instead.
GivenUp(m, f) ==
    IF f \in Documents THEN Finished(m, f) ELSE [m EXCEPT !.failed = @ \cup {f}]

\* The tries are used up.
GiveUp(r, a) ==
    /\ \E f \in Files :
         /\ Current(r, a, f) /\ mem[r].tries[f] = MaxTries
         /\ mem' = [mem EXCEPT ![r] = GivenUp(mem[r], f)]
         /\ Step(r, a, [agent[r][a] EXCEPT !.st = "save", !.file = None, !.todo = @ \ {f}])
    /\ UNCHANGED <<pc, skip, pending, erred, disk, overtaken, faults>>

\* Variant: the repaired copies replace what is there.
RepairedBlindly(m, view, targets, f) ==
    [t \in Files |-> IF t \in targets THEN view.fixes[t] \cup {f} ELSE m.fixes[t]]

\* The gate writes the repaired files that nobody else changed meanwhile.
Repaired(m, view, targets, f) ==
    [t \in Files |-> IF t \in targets /\ m.fixes[t] = view.fixes[t]
                     THEN view.fixes[t] \cup {f} ELSE m.fixes[t]]

\* The files of which the gate of f may repair some: those it imports, and those
\* that import it.
Repairable(view, f) ==
    {t \in view.done \ {f} : /\ {f, t} \cap Ungated = {}
                             /\ t \in Imports[f] \/ f \in Imports[t]}

GateRepairs(r, a) ==
    /\ agent[r][a].st = "gate"
    /\ \E targets \in SUBSET Repairable(agent[r][a].view, agent[r][a].file) :
         mem' = [mem EXCEPT ![r].fixes =
                     Repaired(mem[r], agent[r][a].view, targets, agent[r][a].file)]
    /\ Step(r, a, [agent[r][a] EXCEPT !.st = "store", !.view = NoState])
    /\ UNCHANGED <<pc, skip, pending, erred, disk, overtaken, faults>>

\* _finish: the file is done.
Store(r, a) ==
    /\ agent[r][a].st = "store"
    /\ LET f == agent[r][a].file IN
       /\ mem' = [mem EXCEPT ![r] = Finished(mem[r], f)]
       /\ Step(r, a, [agent[r][a] EXCEPT !.st = "save", !.file = None, !.todo = @ \ {f}])
    /\ UNCHANGED <<pc, skip, pending, erred, disk, overtaken, faults>>

\* _save copies the state under the engine's lock ...
Snapshot(r, a) ==
    /\ agent[r][a].st = "save"
    /\ Step(r, a, [agent[r][a] EXCEPT !.st = "write", !.snap = mem[r]])
    /\ UNCHANGED <<pc, skip, mem, pending, erred, disk, overtaken, faults>>

\* What one state of a run knows, a later one knows as well.
Knows(m, n) ==
    /\ n.done \subseteq m.done /\ n.failed \subseteq m.failed \cup m.done
    /\ \A f \in Files : n.tries[f] <= m.tries[f] /\ n.fixes[f] \subseteq m.fixes[f]

\* ... and writes the copy after it let go of it, in any order with others.
SaveSnapshot(r, a) ==
    /\ agent[r][a].st = "write"
    /\ disk' = Checkpoint("state", agent[r][a].snap)
    /\ Overtaken(/\ agent[r][a].snap # mem[r]
                 /\ overtaken = "now" \/ ~Knows(agent[r][a].snap, disk.mem))
    /\ Step(r, a, [agent[r][a] EXCEPT !.st = "next", !.snap = NoState])
    /\ UNCHANGED <<pc, skip, mem, pending, erred, faults>>

-----------------------------------------------------------------------------
\* The process of the Core ends, and with it every run.
Crash ==
    /\ Fault /\ \E r \in Runs : Active(r)
    /\ pc' = [r \in Runs |-> IF Active(r) THEN "gone" ELSE pc[r]]
    /\ agent' = [r \in Runs |-> [a \in Agents |-> Free]]
    /\ mem' = [r \in Runs |-> IF Active(r) THEN NoState ELSE mem[r]]
    /\ pending' = [r \in Runs |-> IF Active(r) THEN {} ELSE pending[r]]
    /\ erred' = [r \in Runs |-> erred[r] /\ ~Active(r)]
    /\ UNCHANGED <<skip, disk, overtaken>>

MainStep(r) ==
    \/ Plan(r) \/ PlanFails(r) \/ Dispatch(r) \/ Collect(r)
    \/ PauseOnError(r) \/ FillMissing(r) \/ PauseOnFailed(r)
    \/ Complete(r) \/ Deliver(r)

AgentStep(r, a) ==
    \/ Begin(r, a) \/ End(r, a)
    \/ Write(r, a) \/ WriteFails(r, a) \/ WriteRaises(r, a) \/ GiveUp(r, a)
    \/ GateRepairs(r, a) \/ Store(r, a)
    \/ Snapshot(r, a) \/ SaveSnapshot(r, a)

Next ==
    \/ \E r \in Runs : Start(r) \/ MainStep(r) \/ \E a \in Agents : AgentStep(r, a)
    \/ Crash

Spec == Init /\ [][Next]_vars

-----------------------------------------------------------------------------
(* Properties. *)

States == [files : SUBSET Files, done : SUBSET Files, fixes : [Files -> SUBSET Files],
           failed : SUBSET Files, tries : [Files -> 0 .. MaxTries]]

Tasks == [st : {"free", "begin", "next", "gate", "store", "save", "write",
                "ended", "raised"},
          batch : SUBSET Files, todo : SUBSET Files, file : Files \cup {None},
          context : SUBSET Files, view : States, snap : States]

\* The variables have the types the comments above give them.
TypeOK ==
    /\ pc \in [Runs -> {"idle", "plan", "schedule", "deliver"} \cup Ended]
    /\ skip \in [Runs -> BOOLEAN] /\ erred \in [Runs -> BOOLEAN]
    /\ mem \in [Runs -> States]
    /\ pending \in [Runs -> SUBSET Files]
    /\ agent \in [Runs -> [Agents -> Tasks]]
    /\ disk \in [kind : {"none", "state", "result"}, mem : States]
    /\ faults \in 0 .. MaxFaults
    /\ overtaken \in {"no", "now", "before"}

\* The gates of several files run at once, each on its own copy of what is
\* done: none of them takes back the repair another one made to a file.
FixKept ==
    [][\A r \in Runs : pc[r] = "schedule" /\ pc'[r] # "gone" =>
           \A f \in Files : mem[r].fixes[f] \subseteq mem'[r].fixes[f]]_vars

\* Every file that is still to come uses another one of them.
InCircle(r) == \A f \in Open(r) : UnmetStrong(r, f) # {}

\* A file is written with the files it uses in sight: while it is written none of
\* them is still to come, and those that are done were there when its task began.
\* Only where the uses in the plan form a cycle does the schedule break this rule
\* (gen_engine.py:1684), and then not before every file that waits for none it
\* uses has been written: there is no other file it could have started.
UsedFileSeen ==
    \A r \in Runs, a \in Agents :
        agent[r][a].st \in {"next", "gate", "store", "save", "write"} =>
            \A f \in agent[r][a].todo :
                \/ /\ UnmetStrong(r, f) = {}
                   /\ Strong(f, mem[r].files) \cap mem[r].done \subseteq agent[r][a].context
                \/ InCircle(r)

\* No file of the plan is forgotten: a run that has one ends with its result, or
\* pauses and can be resumed, or is ended by an exception nobody expects; "some
\* files could not be made" (1597) is never raised.
NothingForgotten == \A r \in Runs : pc[r] = "failed" => mem[r].files = {}

\* A file that failed is tried again when the job is resumed: no file of a run
\* that goes on has used up its tries at the start.  What may lose that a file has
\* failed is excused: a crash, a save that was overtaken and then resumed from, and
\* two runs of the job at once (codeStream.ts:78), where the second one starts from
\* a checkpoint that the first has not finished.
ResumeRetries ==
    \A r \in Runs :
        pc[r] = "plan" /\ ~skip[r] /\ overtaken = "no" /\ (\A q \in Runs : pc[q] # "gone") =>
            \A f \in mem[r].files \ mem[r].done : mem[r].tries[f] < MaxTries

\* "The rest is saved" (run's message when some files failed): what a run that
\* pauses has made is in the checkpoint.
PausedFilesAreSaved ==
    \A r \in Runs :
        pc[r] = "paused" /\ (\A q \in Runs : q > r => pc[q] = "idle") =>
            mem[r].done \subseteq disk.mem.done

\* Where the main thread of a run, or one of its agents, has a step to take: the
\* guards of MainStep and of AgentStep.
MainCanMove(r) ==
    \/ pc[r] \in {"plan", "deliver"}
    \/ /\ pc[r] = "schedule"
       /\ \/ \E a \in Agents : agent[r][a].st \in {"ended", "raised"}
          \/ erred[r] /\ PoolEmpty(r)
          \/ ScheduleDone(r)
          \/ /\ ~erred[r] /\ \E a \in Agents : agent[r][a].st = "free"
             /\ \E f \in Startable(r) : Batches(r, f) # {}

AgentCanMove(r, a) ==
    \/ agent[r][a].st \in {"begin", "gate", "store", "save", "write"}
    \/ agent[r][a].st = "next" /\ AllDone(r, a)
    \/ \E f \in Files : Current(r, a, f) /\ mem[r].tries[f] <= MaxTries

CanMove(r) == (\E a \in Agents : AgentCanMove(r, a)) \/ MainCanMove(r)

\* Files that wait for each other, by their uses and by the order of their
\* paths, do not stop a run, nor does a task whose file somebody else has
\* written: there is always a step for it to take.
RunNeverStuck == \A r \in Runs : Active(r) => CanMove(r)
=============================================================================
