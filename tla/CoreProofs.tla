----------------------------- MODULE CoreProofs -----------------------------
(***************************************************************************)
(* Proofs about what Core processes of one user share: the relay queue     *)
(* their pollers empty (RelayQueue) and the files that say which Core      *)
(* serves (CoreSingleton).  The two have no state in common.               *)
(*                                                                         *)
(* RelayQueue, for any commands, workers, Limit and number of faults: a    *)
(* command in a batch has been claimed by that worker alone and has not    *)
(* been handled, and a stored outcome is never replaced.                   *)
(*                                                                         *)
(* CoreSingleton, for any number of processes and windows: a process       *)
(* between its look at the two files and its write of core.lock holds the  *)
(* flock, so nobody else can take the lock, and a pid that is dead stays   *)
(* dead.  The lock it saw free is still free when it writes, and every     *)
(* Core that serves is the one core.lock names.                            *)
(***************************************************************************)
EXTENDS RelayQueue, CoreSingleton, TLAPS

WorkerStates ==
    [pc : {"idle", "claim", "dispatch", "run", "report"},
     page : SUBSET Commands, batch : SUBSET Commands, current : SUBSET Commands,
     outcome : {"done", "failed"}, kept : BOOLEAN]

\* A command in a batch has been claimed, by this worker alone, and its handler
\* has not been started.
BatchIsClaimed ==
    \A w \in Workers : \A c \in worker[w].batch :
        /\ status[c] \notin {"unsent", "pending"}
        /\ runs[c] = 0
        /\ \A v \in Workers : c \in worker[v].batch => v = w

\* A command that nobody has claimed has not been handled.
UnclaimedIsUnhandled ==
    \A c \in Commands : status[c] \in {"unsent", "pending"} => runs[c] = 0

QueueInv == QueueTypeOK /\ BatchIsClaimed /\ UnclaimedIsUnhandled /\ HandledOnce

LEMMA QueueTypeInit == QueueInit => QueueTypeOK
  BY QueueAssumption DEF QueueInit, QueueTypeOK, Idle, Statuses, Terminal

\* The worker that a step leaves behind, when its batch shrinks or stays.
LEMMA NextOfBatchType ==
    ASSUME QueueTypeOK, NEW w \in Workers, NextOfBatch(w)
    PROVE  /\ worker' \in [Workers -> WorkerStates]
           /\ \A v \in Workers : worker'[v].batch \subseteq worker[v].batch
  <1>1. worker \in [Workers -> WorkerStates]
    BY DEF QueueTypeOK, WorkerStates
  <1>2. worker[w] \in WorkerStates
    BY <1>1
  <1>3. /\ Idle \in WorkerStates
        /\ Idle.batch = {}
    BY DEF Idle, WorkerStates
  <1>4. /\ [worker[w] EXCEPT !.pc = "dispatch", !.current = {}] \in WorkerStates
        /\ [worker[w] EXCEPT !.pc = "dispatch", !.current = {}].batch = worker[w].batch
    BY <1>2 DEF WorkerStates
  <1>5. PICK s \in WorkerStates : /\ worker' = [worker EXCEPT ![w] = s]
                                  /\ s.batch \subseteq worker[w].batch
    BY <1>3, <1>4 DEF NextOfBatch
  <1> QED
    BY <1>1, <1>5

LEMMA QueueTypeStep == QueueTypeOK /\ [QueueNext]_queueVars => QueueTypeOK'
  <1> SUFFICES ASSUME QueueTypeOK, [QueueNext]_queueVars PROVE QueueTypeOK'
    OBVIOUS
  <1> USE QueueAssumption DEF QueueTypeOK
  <1> worker \in [Workers -> WorkerStates]
    BY DEF WorkerStates
  <1>1. ASSUME NEW c \in Commands, Enqueue(c) PROVE QueueTypeOK'
    BY <1>1 DEF Enqueue, Statuses
  <1>2. ASSUME NEW c \in Commands, Replicate(c) PROVE QueueTypeOK'
    BY <1>2 DEF Replicate, Seen
  <1>3. ASSUME NEW c \in Commands, Expire(c) PROVE QueueTypeOK'
    BY <1>3 DEF Expire, Statuses, Terminal
  <1>4. ASSUME NEW w \in Workers, Query(w) PROVE QueueTypeOK'
    BY <1>4 DEF Query, Idle, Page, First, Stored
  <1>5. ASSUME NEW w \in Workers, Claim(w) PROVE QueueTypeOK'
    <2>1. PICK c \in worker[w].page :
            /\ status' = status \/ status' = [status EXCEPT ![c] = "processing"]
            /\ UNCHANGED <<replica, runs, faults, refused>>
            /\ \/ worker' = [worker EXCEPT ![w] = [worker[w] EXCEPT !.page = @ \ {c},
                                                                !.batch = @ \cup {c}]]
               \/ worker' = [worker EXCEPT ![w] = [worker[w] EXCEPT !.page = @ \ {c}]]
      BY <1>5 DEF Claim
    <2>2. /\ [worker[w] EXCEPT !.page = @ \ {c}, !.batch = @ \cup {c}] \in WorkerStates
          /\ [worker[w] EXCEPT !.page = @ \ {c}] \in WorkerStates
      BY DEF WorkerStates
    <2>3. worker' \in [Workers -> WorkerStates]
      BY <2>1, <2>2
    <2> QED
      BY <2>1, <2>3 DEF Statuses, WorkerStates
  <1>6. ASSUME NEW w \in Workers, Dequeued(w) PROVE QueueTypeOK'
    BY <1>6 DEF Dequeued, Idle
  <1>7. ASSUME NEW w \in Workers, Dispatch(w) PROVE QueueTypeOK'
    <2>1. PICK c \in worker[w].batch :
            /\ UNCHANGED <<status, replica, faults, refused>>
            /\ runs' = [runs EXCEPT ![c] = @ + 1]
            /\ worker' = [worker EXCEPT ![w] = [worker[w] EXCEPT !.pc = "run",
                                                                 !.batch = @ \ {c},
                                                                 !.current = {c}]]
      BY <1>7 DEF Dispatch
    <2>2. [worker[w] EXCEPT !.pc = "run", !.batch = @ \ {c}, !.current = {c}] \in WorkerStates
      BY DEF WorkerStates
    <2>3. worker' \in [Workers -> WorkerStates]
      BY <2>1, <2>2
    <2> QED
      BY <2>1, <2>3 DEF WorkerStates
  <1>8. ASSUME NEW w \in Workers, HandlerEnds(w) PROVE QueueTypeOK'
    <2>1. PICK outcome \in {"done", "failed"} :
              worker' = [worker EXCEPT ![w] = [@ EXCEPT !.pc = "report", !.outcome = outcome]]
      BY <1>8 DEF HandlerEnds
    <2>2. [worker[w] EXCEPT !.pc = "report", !.outcome = outcome] \in WorkerStates
      BY DEF WorkerStates
    <2>3. worker' \in [Workers -> WorkerStates]
      BY <2>1, <2>2
    <2> QED
      BY <1>8, <2>3 DEF HandlerEnds, WorkerStates
  <1>9. ASSUME NEW w \in Workers, Report(w) PROVE QueueTypeOK'
    <2>1. NextOfBatch(w)
      BY <1>9 DEF Report
    <2> QED
      BY <1>9, <2>1, NextOfBatchType DEF Report, TerminalUpdate, Statuses, Terminal, WorkerStates
  <1>10. ASSUME NEW w \in Workers, ClaimFails(w) PROVE QueueTypeOK'
    BY <1>10 DEF ClaimFails
  <1>11. ASSUME NEW w \in Workers, ClaimAnswerLost(w) PROVE QueueTypeOK'
    BY <1>11 DEF ClaimAnswerLost, Statuses
  <1>12. ASSUME NEW w \in Workers, ReportFails(w) PROVE QueueTypeOK'
    BY <1>12, NextOfBatchType DEF ReportFails, WorkerStates
  <1>13. ASSUME NEW w \in Workers, Cancel(w) PROVE QueueTypeOK'
    <2>1. Idle \in WorkerStates /\ [worker[w] EXCEPT !.kept = FALSE] \in WorkerStates
      BY DEF WorkerStates, Idle
    <2>2. worker' \in [Workers -> WorkerStates]
      BY <1>13, <2>1 DEF Cancel
    <2> QED
      BY <1>13, <2>2 DEF Cancel, WorkerStates
  <1>14. ASSUME NEW w \in Workers, Crash(w) PROVE QueueTypeOK'
    BY <1>14 DEF Crash, Idle
  <1>15. ASSUME NEW c \in Commands, Complete(c) PROVE QueueTypeOK'
    BY <1>15 DEF Complete, TerminalUpdate, Statuses, Terminal
  <1>16. CASE UNCHANGED queueVars
    BY <1>16 DEF queueVars
  <1> QED
    BY <1>1, <1>2, <1>3, <1>4, <1>5, <1>6, <1>7, <1>8, <1>9, <1>10, <1>11, <1>12, <1>13, <1>14,
       <1>15, <1>16
       DEF QueueNext, Work, Fault

\* A step that starts no handler, claims nothing and takes nothing back to
\* pending keeps the invariant.
LEMMA Shrinks ==
    ASSUME QueueInv,
           \A v \in Workers : worker'[v].batch \subseteq worker[v].batch,
           \A c \in Commands :
               status'[c] \in {"unsent", "pending"} => status[c] \in {"unsent", "pending"},
           runs' = runs
    PROVE  BatchIsClaimed' /\ UnclaimedIsUnhandled' /\ HandledOnce'
  <1>1. \A v \in Workers : worker[v].batch \subseteq Commands
    BY DEF QueueInv, QueueTypeOK
  <1>2. BatchIsClaimed'
    BY <1>1 DEF QueueInv, BatchIsClaimed
  <1> QED
    BY <1>2 DEF QueueInv, UnclaimedIsUnhandled, HandledOnce

\* Claiming a pending command puts it into one batch.
LEMMA Claims ==
    ASSUME QueueInv, QueueTypeOK', NEW w \in Workers, NEW c \in Commands, status[c] = "pending",
           status' = [status EXCEPT ![c] = "processing"],
           \A v \in Workers \ {w} : worker'[v].batch = worker[v].batch,
           worker'[w].batch \subseteq worker[w].batch \cup {c},
           runs' = runs
    PROVE  BatchIsClaimed' /\ UnclaimedIsUnhandled' /\ HandledOnce'
  <1>1. /\ \A v \in Workers : worker[v].batch \subseteq Commands
        /\ status \in [Commands -> Statuses]
    BY DEF QueueInv, QueueTypeOK
  <1>2. \A v \in Workers : c \notin worker[v].batch
    BY DEF QueueInv, BatchIsClaimed
  <1>3. runs[c] = 0
    BY DEF QueueInv, UnclaimedIsUnhandled
  <1>4. BatchIsClaimed'
    <2> SUFFICES ASSUME NEW v \in Workers, NEW d \in worker'[v].batch
                 PROVE  /\ status'[d] \notin {"unsent", "pending"}
                        /\ runs'[d] = 0
                        /\ \A u \in Workers : d \in worker'[u].batch => u = v
      BY DEF BatchIsClaimed
    <2>1. CASE d = c
      BY <1>1, <1>2, <1>3, <2>1
    <2>2. CASE d # c
      <3>1. d \in worker[v].batch /\ d \in Commands
        BY <1>1, <2>2
      <3> QED
        BY <1>1, <2>2, <3>1 DEF QueueInv, BatchIsClaimed
    <2> QED
      BY <2>1, <2>2
  <1>5. UnclaimedIsUnhandled'
    BY <1>1 DEF QueueInv, UnclaimedIsUnhandled
  <1>6. HandledOnce'
    BY DEF QueueInv, HandledOnce
  <1> QED
    BY <1>4, <1>5, <1>6

THEOREM Inductive == QueueSpec => []QueueInv
  <1>1. QueueInit => QueueInv
    <2> SUFFICES ASSUME QueueInit PROVE QueueInv
      OBVIOUS
    <2>1. QueueTypeOK
      BY QueueTypeInit
    <2> QED
      BY <2>1 DEF QueueInit, QueueInv, BatchIsClaimed, UnclaimedIsUnhandled, HandledOnce, Idle
  <1>2. QueueInv /\ [QueueNext]_queueVars => QueueInv'
    <2> SUFFICES ASSUME QueueInv, [QueueNext]_queueVars PROVE QueueInv'
      OBVIOUS
    <2> QueueTypeOK /\ QueueTypeOK'
      BY QueueTypeStep DEF QueueInv
    <2> /\ worker \in [Workers -> WorkerStates]
        /\ status \in [Commands -> Statuses]
        /\ runs \in [Commands -> Nat]
      BY DEF QueueTypeOK, WorkerStates
    <2> SUFFICES BatchIsClaimed' /\ UnclaimedIsUnhandled' /\ HandledOnce'
      BY DEF QueueInv
    <2> Idle \in WorkerStates /\ Idle.batch = {}
      BY DEF WorkerStates, Idle
    <2>1. ASSUME NEW c \in Commands, Enqueue(c) \/ Replicate(c) \/ Expire(c) \/ Complete(c)
          PROVE  BatchIsClaimed' /\ UnclaimedIsUnhandled' /\ HandledOnce'
      <3>1. /\ worker' = worker /\ runs' = runs
            /\ \A d \in Commands :
                 status'[d] \in {"unsent", "pending"} => status[d] \in {"unsent", "pending"}
        BY <2>1 DEF Enqueue, Replicate, Expire, Complete, TerminalUpdate
      <3> QED
        BY <3>1, Shrinks
    <2>2. ASSUME NEW w \in Workers, Query(w)
          PROVE  BatchIsClaimed' /\ UnclaimedIsUnhandled' /\ HandledOnce'
      <3>1. \A v \in Workers : worker'[v].batch \subseteq worker[v].batch
        BY <2>2 DEF Query, Idle
      <3> QED
        BY <2>2, <3>1, Shrinks DEF Query
    <2>3. ASSUME NEW w \in Workers, Claim(w)
          PROVE  BatchIsClaimed' /\ UnclaimedIsUnhandled' /\ HandledOnce'
      <3>1. PICK c \in Commands :
              /\ runs' = runs
              /\ \/ /\ status[c] = "pending"
                    /\ status' = [status EXCEPT ![c] = "processing"]
                    /\ worker' = [worker EXCEPT ![w] = [worker[w] EXCEPT !.page = @ \ {c},
                                                                 !.batch = @ \cup {c}]]
                 \/ /\ status' = status
                    /\ worker' = [worker EXCEPT ![w].page = @ \ {c}]
        BY <2>3 DEF Claim, WorkerStates
      <3>2. CASE status' = status /\ worker' = [worker EXCEPT ![w].page = @ \ {c}]
        <4>1. \A v \in Workers : worker'[v].batch \subseteq worker[v].batch
          BY <3>2 DEF WorkerStates
        <4> QED
          BY <3>1, <3>2, <4>1, Shrinks
      <3>3. CASE /\ status[c] = "pending"
                 /\ status' = [status EXCEPT ![c] = "processing"]
                 /\ worker' = [worker EXCEPT ![w] = [worker[w] EXCEPT !.page = @ \ {c},
                                                              !.batch = @ \cup {c}]]
        <4>1. /\ \A v \in Workers \ {w} : worker'[v].batch = worker[v].batch
              /\ worker'[w].batch \subseteq worker[w].batch \cup {c}
          BY <3>3 DEF WorkerStates
        <4> QED
          BY <3>1, <3>3, <4>1, Claims
      <3> QED
        BY <3>1, <3>2, <3>3
    <2>4. ASSUME NEW w \in Workers, Dispatch(w)
          PROVE  BatchIsClaimed' /\ UnclaimedIsUnhandled' /\ HandledOnce'
      <3>1. PICK c \in worker[w].batch :
              /\ status' = status
              /\ runs' = [runs EXCEPT ![c] = @ + 1]
              /\ worker' = [worker EXCEPT ![w] = [worker[w] EXCEPT !.pc = "run",
                                                           !.batch = @ \ {c},
                                                           !.current = {c}]]
        BY <2>4 DEF Dispatch
      <3>2. /\ c \in Commands /\ runs[c] = 0 /\ status[c] \notin {"unsent", "pending"}
            /\ \A v \in Workers : c \in worker[v].batch => v = w
        BY DEF QueueInv, BatchIsClaimed, WorkerStates
      <3>3. /\ \A v \in Workers : /\ worker'[v].batch \subseteq worker[v].batch
                                 /\ worker[v].batch \subseteq Commands
                                 /\ c \notin worker'[v].batch
        BY <3>1, <3>2 DEF WorkerStates
      <3>4. BatchIsClaimed'
        BY <3>1, <3>2, <3>3 DEF QueueInv, BatchIsClaimed
      <3>5. UnclaimedIsUnhandled' /\ HandledOnce'
        BY <3>1, <3>2 DEF QueueInv, UnclaimedIsUnhandled, HandledOnce
      <3> QED
        BY <3>4, <3>5
    <2>5. ASSUME NEW w \in Workers, ClaimAnswerLost(w)
          PROVE  BatchIsClaimed' /\ UnclaimedIsUnhandled' /\ HandledOnce'
      <3>1. PICK c \in Commands :
              /\ runs' = runs
              /\ status[c] = "pending"
              /\ status' = [status EXCEPT ![c] = "processing"]
              /\ worker' = [worker EXCEPT ![w].page = @ \ {c}]
        BY <2>5 DEF ClaimAnswerLost, WorkerStates
      <3>2. \A v \in Workers : worker'[v].batch = worker[v].batch
        BY <3>1 DEF WorkerStates
      <3> QED
        BY <3>1, <3>2, Claims
    <2>6. ASSUME NEW w \in Workers,
                 Dequeued(w) \/ HandlerEnds(w) \/ ClaimFails(w) \/ Cancel(w) \/ Crash(w)
          PROVE  BatchIsClaimed' /\ UnclaimedIsUnhandled' /\ HandledOnce'
      <3>1. status' = status /\ runs' = runs
        BY <2>6 DEF Dequeued, HandlerEnds, ClaimFails, Cancel, Crash
      <3>2. \A v \in Workers : worker'[v].batch \subseteq worker[v].batch
        <4>1. CASE Dequeued(w)
          BY <4>1 DEF Dequeued, WorkerStates
        <4>2. CASE HandlerEnds(w)
          BY <4>2 DEF HandlerEnds, WorkerStates
        <4>3. CASE ClaimFails(w)
          BY <4>3 DEF ClaimFails, WorkerStates
        <4>4. CASE Cancel(w)
          BY <4>4 DEF Cancel, WorkerStates
        <4>5. CASE Crash(w)
          BY <4>5 DEF Crash
        <4> QED
          BY <2>6, <4>1, <4>2, <4>3, <4>4, <4>5
      <3> QED
        BY <3>1, <3>2, Shrinks
    <2>7. ASSUME NEW w \in Workers, Report(w) \/ ReportFails(w)
          PROVE  BatchIsClaimed' /\ UnclaimedIsUnhandled' /\ HandledOnce'
      <3>1. NextOfBatch(w) /\ runs' = runs
        BY <2>7 DEF Report, ReportFails
      <3>2. \A d \in Commands :
                 status'[d] \in {"unsent", "pending"} => status[d] \in {"unsent", "pending"}
        BY <2>7 DEF Report, TerminalUpdate, ReportFails, WorkerStates
      <3> QED
        BY <3>1, <3>2, NextOfBatchType, Shrinks
    <2>8. CASE UNCHANGED queueVars
      BY <2>8, Shrinks DEF queueVars
    <2> QED
      BY <2>1, <2>2, <2>3, <2>4, <2>5, <2>6, <2>7, <2>8 DEF QueueNext, Work, Fault
  <1> QED
    BY <1>1, <1>2, PTL DEF QueueSpec

\* Every variable keeps its type.
THEOREM QueueTypeCorrect == QueueSpec => []QueueTypeOK
  BY Inductive, PTL DEF QueueInv

\* Whichever pollers claim from stale pages, crash or lose answers, the handler
\* of a command is started once at most (dequeue_pending's condition).
THEOREM HandledOnceCorrect == QueueSpec => []HandledOnce
  BY Inductive, PTL DEF QueueInv

\* No step of any worker, and no report of any client of the REST route, late,
\* repeated or about a command of others, changes an outcome that is recorded or
\* brings an expired command back (_terminal_update's condition).
THEOREM OutcomeIsFinalCorrect == QueueSpec => OutcomeIsFinal
  <1> DEFINE Final == \A c \in Commands :
                        status[c] \in Terminal => status'[c] \in {status[c], "gone"}
  <1>1. QueueTypeOK /\ [QueueNext]_queueVars => [Final]_queueVars
    <2> SUFFICES ASSUME QueueTypeOK, [QueueNext]_queueVars PROVE Final
      OBVIOUS
    <2> /\ status \in [Commands -> Statuses]
        /\ \A w \in Workers : worker[w].page \subseteq Commands /\ worker[w].current \subseteq Commands
      BY DEF QueueTypeOK
    <2>1. ASSUME NEW c \in Commands, Enqueue(c) \/ Replicate(c) \/ Expire(c) \/ Complete(c)
          PROVE  Final
      BY <2>1 DEF Enqueue, Replicate, Expire, Complete, TerminalUpdate, Terminal
    <2>2. ASSUME NEW w \in Workers, Claim(w) \/ ClaimAnswerLost(w) PROVE Final
      BY <2>2 DEF Claim, ClaimAnswerLost, Terminal
    <2>3. ASSUME NEW w \in Workers, Report(w) PROVE Final
      BY <2>3 DEF Report, TerminalUpdate, Terminal
    <2>4. ASSUME NEW w \in Workers,
                 \/ Query(w) \/ Dequeued(w) \/ Dispatch(w) \/ HandlerEnds(w)
                 \/ ClaimFails(w) \/ ReportFails(w) \/ Cancel(w) \/ Crash(w)
          PROVE  Final
      BY <2>4 DEF Query, Dequeued, Dispatch, HandlerEnds, ClaimFails, ReportFails, Cancel, Crash
    <2>5. CASE UNCHANGED queueVars
      BY <2>5 DEF queueVars
    <2> QED
      BY <2>1, <2>2, <2>3, <2>4, <2>5 DEF QueueNext, Work, Fault
  <1>2. QueueSpec => [][QueueNext]_queueVars
    BY DEF QueueSpec
  <1> QED
    BY <1>1, <1>2, QueueTypeCorrect, PTL DEF OutcomeIsFinal

-----------------------------------------------------------------------------
(* CoreSingleton *)

\* A Core that holds the service is the one in core.lock.
OwnerHasLock == cut \/ \A c \in Cores : Holds(c) => lock = c

\* While a process is about to take the lock, nobody alive has it.
TakingSeesNoOwner == \A c \in Cores : core[c] = "taking" => ~Alive(lock)

\* A process in core.lock has been started: no other will start as it.
LockIsStarted == lock # None => core[lock] # "unborn"

OneOwner == TypeOK /\ OwnerHasLock /\ TakingSeesNoOwner /\ LockIsStarted

LEMMA OwnerInit == Init => OneOwner
  BY CoreAssumption DEF Init, OneOwner, TypeOK, OwnerHasLock,
         TakingSeesNoOwner, LockIsStarted, Holds

LEMMA CoreTypeStep == TypeOK /\ [Next]_vars => TypeOK'
  <1> SUFFICES ASSUME TypeOK, [Next]_vars PROVE TypeOK'
    OBVIOUS
  <1> USE CoreAssumption DEF TypeOK, Goto, CoreStep, Holds, Live
  <1>1. ASSUME NEW c \in Cores, Start(c) PROVE TypeOK'
    BY <1>1 DEF Start
  <1>2. ASSUME NEW c \in Cores, Acquire(c) PROVE TypeOK'
    BY <1>2 DEF Acquire
  <1>3. ASSUME NEW c \in Cores, TakeLock(c) PROVE TypeOK'
    BY <1>3 DEF TakeLock
  <1>4. ASSUME NEW c \in Cores, WriteRuntime(c) PROVE TypeOK'
    BY <1>4 DEF WriteRuntime
  <1>5. ASSUME NEW c \in Cores, GuardTick(c) PROVE TypeOK'
    BY <1>5 DEF GuardTick
  <1>6. ASSUME NEW c \in Cores, Stop(c) PROVE TypeOK'
    BY <1>6 DEF Stop
  <1>7. ASSUME NEW c \in Cores, ReleaseLock(c) PROVE TypeOK'
    BY <1>7 DEF ReleaseLock
  <1>8. ASSUME NEW c \in Cores, ReleaseRuntime(c) PROVE TypeOK'
    BY <1>8 DEF ReleaseRuntime
  <1>9. ASSUME NEW c \in Cores, Exit(c) PROVE TypeOK'
    BY <1>9 DEF Exit
  <1>10. ASSUME NEW w \in Windows, SeesStale(w) PROVE TypeOK'
    BY <1>10 DEF SeesStale
  <1>11. ASSUME NEW w \in Windows, SeesLeftover(w) PROVE TypeOK'
    BY <1>11 DEF SeesLeftover
  <1>12. ASSUME NEW w \in Windows, UnlinkRuntime(w) PROVE TypeOK'
    BY <1>12 DEF UnlinkRuntime
  <1>13. ASSUME NEW w \in Windows, SeesOrphan(w) PROVE TypeOK'
    BY <1>13 DEF SeesOrphan, Alive
  <1>14. ASSUME NEW w \in Windows, UnlinkLock(w) PROVE TypeOK'
    BY <1>14 DEF UnlinkLock
  <1>15. ASSUME NEW w \in Windows, GivesUp(w) PROVE TypeOK'
    BY <1>15 DEF GivesUp
  <1>16. CASE UNCHANGED vars
    BY <1>16 DEF vars
  <1> QED
    BY <1>1, <1>2, <1>3, <1>4, <1>5, <1>6, <1>7, <1>8, <1>9, <1>10, <1>11, <1>12,
       <1>13, <1>14, <1>15, <1>16
       DEF Next, CoreNext, WindowNext

\* A step that leaves core.lock alone, makes nobody an owner and lets nobody
\* reach the write of the lock keeps all of them.
LEMMA LockUntouched ==
    ASSUME OneOwner, TypeOK', lock' = lock, cut' = cut,
           \A c \in Cores : Holds(c)' => Holds(c),
           \A c \in Cores : core[c] # "unborn" =>
               core'[c] # "unborn" /\ (Live(c)' => Live(c)),
           \A c \in Cores : core'[c] = "taking" => core[c] = "taking"
    PROVE  OneOwner'
  <1>1. OwnerHasLock'
    BY DEF OneOwner, OwnerHasLock
  <1>2. TakingSeesNoOwner' /\ LockIsStarted'
    BY DEF OneOwner, TypeOK, TakingSeesNoOwner, LockIsStarted, Alive,
           Live
  <1> QED
    BY <1>1, <1>2 DEF OneOwner

LEMMA OwnerStep == OneOwner /\ [Next]_vars => OneOwner'
  <1> SUFFICES ASSUME OneOwner, [Next]_vars PROVE OneOwner'
    OBVIOUS
  <1> TypeOK /\ TypeOK'
    BY CoreTypeStep DEF OneOwner
  <1> USE CoreAssumption DEF Goto, CoreStep
  <1>1. ASSUME NEW c \in Cores, Start(c) PROVE OneOwner'
    BY <1>1, LockUntouched DEF Start, TypeOK, Holds, Live
  <1>2. ASSUME NEW c \in Cores, Acquire(c) PROVE OneOwner'
    <2>1. CASE Alive(lock) \/ Alive(runtime)
      BY <1>2, <2>1, LockUntouched DEF Acquire, TypeOK, Holds, Live
    <2>2. CASE ~Alive(lock)
      <3>1. OwnerHasLock'
        BY <1>2 DEF OneOwner, Acquire, OwnerHasLock, TypeOK, Holds
      <3>2. TakingSeesNoOwner' /\ LockIsStarted'
        BY <1>2, <2>2
           DEF OneOwner, Acquire, TakingSeesNoOwner, LockIsStarted, TypeOK,
               Alive, Live
      <3> QED
        BY <3>1, <3>2 DEF OneOwner
    <2> QED
      BY <2>1, <2>2
  <1>3. ASSUME NEW c \in Cores, TakeLock(c) PROVE OneOwner'
    <2>1. guard = c /\ lock' = c /\ cut' = cut /\ core' = [core EXCEPT ![c] = "owner"]
      BY <1>3 DEF TakeLock, TypeOK
    <2>2. ~cut => \A d \in Cores : ~Holds(d)
      BY <1>3
         DEF TakeLock, OneOwner, OwnerHasLock, TakingSeesNoOwner, Alive,
             Holds, Live
    <2>3. OwnerHasLock'
      BY <2>1, <2>2 DEF OwnerHasLock, TypeOK, Holds
    <2>4. TakingSeesNoOwner' /\ LockIsStarted'
      BY <2>1 DEF TakingSeesNoOwner, LockIsStarted, TypeOK
    <2> QED
      BY <2>3, <2>4 DEF OneOwner
  <1>4. ASSUME NEW c \in Cores, WriteRuntime(c) PROVE OneOwner'
    BY <1>4, LockUntouched DEF WriteRuntime, TypeOK, Holds, Live
  <1>5. ASSUME NEW c \in Cores, GuardTick(c) PROVE OneOwner'
    BY <1>5, LockUntouched DEF GuardTick, TypeOK, Holds, Live
  <1>6. ASSUME NEW c \in Cores, Stop(c) PROVE OneOwner'
    BY <1>6, LockUntouched DEF Stop, TypeOK, Holds, Live
  <1>7. ASSUME NEW c \in Cores, ReleaseLock(c) PROVE OneOwner'
    <2>1. ~Holds(c) /\ core' = [core EXCEPT ![c] = "releasing"] /\ cut' = cut
          /\ lock' = (IF lock = c THEN None ELSE lock) /\ guard = None
      BY <1>7 DEF ReleaseLock, Holds
    <2>2. OwnerHasLock'
      BY <2>1 DEF OneOwner, OwnerHasLock, TypeOK, Holds
    <2>3. TakingSeesNoOwner' /\ LockIsStarted'
      BY <2>1 DEF OneOwner, TakingSeesNoOwner, LockIsStarted, TypeOK, Alive
    <2> QED
      BY <2>2, <2>3 DEF OneOwner
  <1>8. ASSUME NEW c \in Cores, ReleaseRuntime(c) PROVE OneOwner'
    BY <1>8, LockUntouched DEF ReleaseRuntime, TypeOK, Holds, Live
  <1>9. ASSUME NEW c \in Cores, Exit(c) PROVE OneOwner'
    BY <1>9, LockUntouched DEF Exit, TypeOK, Holds, Live
  <1>10. ASSUME NEW w \in Windows,
                \/ SeesStale(w) \/ SeesLeftover(w) \/ UnlinkRuntime(w)
                \/ SeesOrphan(w) \/ GivesUp(w)
         PROVE  OneOwner'
    <2>1. lock' = lock /\ core' = core /\ cut' = cut
      BY <1>10
         DEF SeesStale, SeesLeftover, UnlinkRuntime, SeesOrphan,
             GivesUp
    <2> QED
      BY <2>1, LockUntouched DEF Holds, Live
  <1>11. ASSUME NEW w \in Windows, UnlinkLock(w) PROVE OneOwner'
    <2>1. lock' = None /\ core' = core /\ (~cut' => ~cut /\ ~(lock # None /\ Holds(lock)))
      BY <1>11 DEF UnlinkLock, TypeOK
    <2>2. OwnerHasLock'
      BY <2>1 DEF OneOwner, OwnerHasLock, TypeOK, Holds
    <2>3. TakingSeesNoOwner' /\ LockIsStarted'
      BY <2>1 DEF TakingSeesNoOwner, LockIsStarted, Alive
    <2> QED
      BY <2>2, <2>3 DEF OneOwner
  <1>12. CASE UNCHANGED vars
    BY <1>12, LockUntouched DEF vars, Holds, Live
  <1> QED
    BY <1>1, <1>2, <1>3, <1>4, <1>5, <1>6, <1>7, <1>8, <1>9, <1>10, <1>11, <1>12
       DEF Next, CoreNext, WindowNext

\* The invariant of the proofs holds in every reachable state.
THEOREM OwnerInductive == Spec => []OneOwner
  BY OwnerInit, OwnerStep, PTL DEF Spec

\* core.lock, runtime.json, the flock and the windows stay well typed, and the
\* flock is held exactly while a process is inside a critical section.
THEOREM CoreTypeCorrect == Spec => []TypeOK
  <1>1. OneOwner => TypeOK
    BY DEF OneOwner
  <1> QED
    BY <1>1, OwnerInductive, PTL

\* Only one Core serves (acquire_lock), whatever windows unlink and whoever
\* dies, unless a window unlinked the lock a live Core had taken over.
THEOREM OneCoreServesCorrect == Spec => []OneCoreServes
  <1>1. OneOwner => OneCoreServes
    BY DEF OneOwner, OwnerHasLock, OneCoreServes
  <1> QED
    BY <1>1, OwnerInductive, PTL

\* No other process removes or replaces the lock of a Core that holds it
\* (release_lock, acquire_lock).
THEOREM HeldLockKeptCorrect == Spec => HeldLockKept
  <1>1. OneOwner /\ [Next]_vars =>
            [\A c \in Cores : lock = c /\ Holds(c) => lock' = c \/ cut']_vars
    <2> SUFFICES ASSUME OneOwner, [Next]_vars,
                        NEW c \in Cores, lock = c, Holds(c)
                 PROVE  lock' = c \/ cut'
      OBVIOUS
    <2> USE CoreAssumption DEF Goto, CoreStep
    <2>1. ASSUME NEW d \in Cores, CoreNext(d) PROVE lock' = c
      <3>1. CASE TakeLock(d)
        BY <3>1
           DEF TakeLock, OneOwner, TakingSeesNoOwner, Alive, Live,
               Holds
      <3>2. CASE ReleaseLock(d)
        BY <3>2 DEF ReleaseLock, Holds
      <3> QED
        BY <2>1, <3>1, <3>2
           DEF CoreNext, Start, Acquire, WriteRuntime,
               GuardTick, Stop, ReleaseRuntime, Exit
    <2>2. ASSUME NEW w \in Windows, WindowNext(w) PROVE lock' = c \/ cut'
      BY <2>2
         DEF WindowNext, SeesStale, SeesLeftover, UnlinkRuntime,
             SeesOrphan, UnlinkLock, GivesUp
    <2>3. CASE UNCHANGED vars
      BY <2>3 DEF vars
    <2> QED
      BY <2>1, <2>2, <2>3 DEF Next
  <1> QED
    BY <1>1, OwnerInductive, PTL DEF Spec, HeldLockKept
=============================================================================
