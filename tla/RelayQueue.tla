----------------------------- MODULE RelayQueue -----------------------------
(***************************************************************************)
(* The relay queue of one user: core/relay/dynamo_queue.py (a DynamoDB     *)
(* table), its REST routes, and the workers that empty it: the RelayPoller *)
(* of a PC (core/relay/poller.py), or a client of api/routes/relay.py.     *)
(*                                                                         *)
(* Commands are numbered in the order of their command_id.  Every call to  *)
(* the table is a step of its own; a conditional update is atomic, a query *)
(* reads a replica that may lag behind.                                    *)
(*                                                                         *)
(* The names of the specification start with Queue, so that CoreProofs     *)
(* can extend this module next to CoreSingleton.                           *)
(***************************************************************************)
EXTENDS Naturals, FiniteSets

CONSTANTS Commands,   \* command_ids, ordered as the sort key orders them
          Workers,    \* pollers and REST clients of this user
          Limit,      \* per_user_limit of a query
          MaxFaults,  \* bound on crashes, cancellations and lost answers
          MaxRefused  \* bound on throttled claims

ASSUME QueueAssumption ==
    /\ Commands \subseteq Nat
    /\ Limit \in Nat \ {0}
    /\ MaxFaults \in Nat /\ MaxRefused \in Nat

VARIABLES status,   \* of each item; "unsent" and "gone" items are not in the table
          replica,  \* what an eventually consistent query makes of each item
          worker,
          runs,     \* how often the handler of each command has been started
          faults, refused

queueVars == <<status, replica, worker, runs, faults, refused>>

Terminal == {"done", "failed", "gone"}
Statuses == {"unsent", "pending", "processing"} \cup Terminal

\* page: returned by the query, still to be claimed; batch: claimed, still to
\* be dispatched; current: the command at its handler; kept: the task that
\* waits for the thread still exists.
Idle == [pc |-> "idle", page |-> {}, batch |-> {}, current |-> {},
         outcome |-> "done", kept |-> TRUE]

QueueInit ==
    /\ status = [c \in Commands |-> "unsent"]
    /\ replica = [c \in Commands |-> "absent"]
    /\ worker = [w \in Workers |-> Idle]
    /\ runs = [c \in Commands |-> 0]
    /\ faults = 0 /\ refused = 0

-----------------------------------------------------------------------------
(* The table *)

\* put_item of a fresh command_id.
Enqueue(c) ==
    /\ status[c] = "unsent"
    /\ status' = [status EXCEPT ![c] = "pending"]
    /\ UNCHANGED <<replica, worker, runs, faults, refused>>

\* All a query tells apart.
Seen(s) == CASE s \in {"unsent", "gone"} -> "absent" [] s = "pending" -> "pending"
             [] OTHER -> "taken"

Replicate(c) ==
    /\ replica[c] # Seen(status[c])
    /\ replica' = [replica EXCEPT ![c] = Seen(status[c])]
    /\ UNCHANGED <<status, worker, runs, faults, refused>>

\* DynamoDB removes the item once its ttl of 24 h has passed.
Expire(c) ==
    /\ status[c] \notin {"unsent", "gone"}
    /\ status' = [status EXCEPT ![c] = "gone"]
    /\ UNCHANGED <<replica, worker, runs, faults, refused>>

Stored == {c \in Commands : replica[c] # "absent"}
Waiting == {c \in Commands : replica[c] = "pending"}

\* The first n of a set of commands.
First(n, S) == {c \in S : Cardinality({d \in S : d < c}) < n}

\* What a query returns: Limit counts the items DynamoDB reads, and the filter
\* on status applies to those.
Page == First(Limit, Stored) \cap Waiting

-----------------------------------------------------------------------------
(* dequeue_pending *)

Oldest(c, S) == c \in S /\ \A d \in S : c <= d

Query(w) ==
    /\ worker[w].pc = "idle"
    /\ Page # {}
    /\ worker' = [worker EXCEPT ![w] = [Idle EXCEPT !.pc = "claim", !.page = Page]]
    /\ UNCHANGED <<status, replica, runs, faults, refused>>

\* Variant: an unconditional update of whatever the query returned.
ClaimBlindly(w) ==
    \E c \in worker[w].page :
        /\ worker[w].pc = "claim" /\ Oldest(c, worker[w].page)
        /\ status' = [status EXCEPT ![c] = "processing"]
        /\ worker' = [worker EXCEPT ![w] = [worker[w] EXCEPT !.page = @ \ {c},
                                                            !.batch = @ \cup {c}]]
        /\ UNCHANGED <<replica, runs, faults, refused>>

\* Variant: the claim of a command that is taken is tried again.
ClaimInsists(w) ==
    \E c \in worker[w].page :
        /\ worker[w].pc = "claim" /\ Oldest(c, worker[w].page)
        /\ status[c] = "pending"
        /\ status' = [status EXCEPT ![c] = "processing"]
        /\ worker' = [worker EXCEPT ![w] = [worker[w] EXCEPT !.page = @ \ {c},
                                                            !.batch = @ \cup {c}]]
        /\ UNCHANGED <<replica, runs, faults, refused>>

\* pending -> processing if it still is pending, otherwise somebody else has it.
Claim(w) ==
    \E c \in worker[w].page :
        /\ worker[w].pc = "claim" /\ Oldest(c, worker[w].page)
        /\ IF status[c] = "pending"
           THEN /\ status' = [status EXCEPT ![c] = "processing"]
                /\ worker' = [worker EXCEPT ![w] = [worker[w] EXCEPT !.page = @ \ {c},
                                                                     !.batch = @ \cup {c}]]
           ELSE /\ worker' = [worker EXCEPT ![w].page = @ \ {c}]
                /\ UNCHANGED status
        /\ UNCHANGED <<replica, runs, faults, refused>>

\* The update is throttled or refused: this command stays pending, the next
\* one is claimed.
ClaimFails(w) ==
    \E c \in worker[w].page :
        /\ worker[w].pc = "claim" /\ Oldest(c, worker[w].page)
        /\ refused < MaxRefused
        /\ refused' = refused + 1
        /\ worker' = [worker EXCEPT ![w].page = @ \ {c}]
        /\ UNCHANGED <<status, replica, runs, faults>>

\* The update is applied and its answer lost; the client library sends it again
\* and gets a failed condition.
ClaimAnswerLost(w) ==
    \E c \in worker[w].page :
        /\ worker[w].pc = "claim" /\ Oldest(c, worker[w].page)
        /\ status[c] = "pending" /\ faults < MaxFaults
        /\ status' = [status EXCEPT ![c] = "processing"]
        /\ worker' = [worker EXCEPT ![w].page = @ \ {c}]
        /\ faults' = faults + 1
        /\ UNCHANGED <<replica, runs, refused>>

\* The call returns its items; nobody receives them when the task is cancelled.
Dequeued(w) ==
    /\ worker[w].pc = "claim" /\ worker[w].page = {}
    /\ worker' = [worker EXCEPT ![w] =
         IF worker[w].kept /\ worker[w].batch # {} THEN [@ EXCEPT !.pc = "dispatch"] ELSE Idle]
    /\ UNCHANGED <<status, replica, runs, faults, refused>>

-----------------------------------------------------------------------------
(* _poll_user, _dispatch_one *)

\* The commands of a batch are handled one after the other, oldest first.
Dispatch(w) ==
    \E c \in worker[w].batch :
        /\ worker[w].pc = "dispatch" /\ Oldest(c, worker[w].batch)
        /\ runs' = [runs EXCEPT ![c] = @ + 1]
        /\ worker' = [worker EXCEPT ![w] = [worker[w] EXCEPT !.pc = "run",
                                                             !.batch = @ \ {c},
                                                             !.current = {c}]]
        /\ UNCHANGED <<status, replica, faults, refused>>

\* _run_handler returns, returns an error or raises.
HandlerEnds(w) ==
    \E outcome \in {"done", "failed"} :
        /\ worker[w].pc = "run"
        /\ worker' = [worker EXCEPT ![w] = [@ EXCEPT !.pc = "report", !.outcome = outcome]]
        /\ UNCHANGED <<status, replica, runs, faults, refused>>

NextOfBatch(w) ==
    worker' = [worker EXCEPT ![w] =
        IF worker[w].kept /\ worker[w].batch # {}
        THEN [@ EXCEPT !.pc = "dispatch", !.current = {}] ELSE Idle]

\* Variant: an update without the condition; DynamoDB creates a missing item.
UpdateBlindly(c, outcome) == status' = [status EXCEPT ![c] = outcome]

\* Only a command that is processing is done or failed.
TerminalUpdate(c, outcome) ==
    status' = [status EXCEPT ![c] = IF @ = "processing" THEN outcome ELSE @]

\* mark_done, mark_failed by the poller, which does not look at their results.
Report(w) ==
    \E c \in worker[w].current :
        /\ worker[w].pc = "report"
        /\ TerminalUpdate(c, worker[w].outcome)
        /\ NextOfBatch(w)
        /\ UNCHANGED <<replica, runs, faults, refused>>

\* The REST route: any client reports any command, with any outcome, at any time
\* and as often as it likes, whoever has claimed the command.
Complete(c) ==
    \E outcome \in {"done", "failed"} :
        /\ TerminalUpdate(c, outcome)
        /\ UNCHANGED <<replica, worker, runs, faults, refused>>

ReportFails(w) ==
    /\ worker[w].pc = "report" /\ faults < MaxFaults
    /\ faults' = faults + 1
    /\ NextOfBatch(w)
    /\ UNCHANGED <<status, replica, runs, refused>>

-----------------------------------------------------------------------------
(* Stopping *)

\* stop() gives the task five seconds and cancels it.  A thread that claims or
\* reports goes on; the handler and the rest of the batch are dropped.
Cancel(w) ==
    /\ worker[w].pc # "idle" /\ worker[w].kept
    /\ faults < MaxFaults
    /\ faults' = faults + 1
    /\ worker' = [worker EXCEPT ![w] =
         IF worker[w].pc \in {"dispatch", "run"} THEN Idle ELSE [@ EXCEPT !.kept = FALSE]]
    /\ UNCHANGED <<status, replica, runs, refused>>

\* The PC goes off, or the answer of a REST dequeue is lost.
Crash(w) ==
    /\ worker[w].pc # "idle" /\ faults < MaxFaults
    /\ faults' = faults + 1
    /\ worker' = [worker EXCEPT ![w] = Idle]
    /\ UNCHANGED <<status, replica, runs, refused>>

-----------------------------------------------------------------------------
Work(w) ==
    \/ Query(w) \/ Claim(w) \/ Dequeued(w) \/ Dispatch(w) \/ HandlerEnds(w) \/ Report(w)

Fault(w) ==
    \/ ClaimFails(w) \/ ClaimAnswerLost(w) \/ ReportFails(w) \/ Cancel(w) \/ Crash(w)

QueueNext ==
    \/ \E c \in Commands : Enqueue(c) \/ Replicate(c) \/ Expire(c) \/ Complete(c)
    \/ \E w \in Workers : Work(w) \/ Fault(w)

QueueSpec == QueueInit /\ [][QueueNext]_queueVars

\* A poller that is not stopped polls again after its interval, the PC comes
\* back, and the replica catches up.
FairQueueSpec ==
    /\ QueueSpec
    /\ \A w \in Workers : WF_queueVars(Work(w))
    /\ \A c \in Commands : WF_queueVars(Replicate(c))

-----------------------------------------------------------------------------
(* Properties *)

QueueTypeOK ==
    /\ status \in [Commands -> Statuses]
    /\ replica \in [Commands -> {"absent", "pending", "taken"}]
    /\ worker \in [Workers ->
         [pc : {"idle", "claim", "dispatch", "run", "report"},
          page : SUBSET Commands, batch : SUBSET Commands, current : SUBSET Commands,
          outcome : {"done", "failed"}, kept : BOOLEAN]]
    /\ runs \in [Commands -> Nat]
    /\ faults \in 0..MaxFaults
    /\ refused \in 0..MaxRefused

\* dynamo_queue.py:244: concurrent pollers are safe.  Whatever the replicas
\* show and whichever calls fail, a command is handled once at most.
HandledOnce == \A c \in Commands : runs[c] <= 1

\* A report that comes late, or twice, from the poller that claimed the command
\* or from any client of the REST route, changes no outcome and does not bring an
\* expired command back (dynamo_queue.py:369-370).
OutcomeIsFinal ==
    [][\A c \in Commands :
          status[c] \in Terminal => status'[c] \in {status[c], "gone"}]_queueVars

\* Limit older commands that have not expired fill the page: it does not matter
\* that they are finished, for Limit counts what is read (dynamo_queue.py:262).
CrowdedOut(c) ==
    Cardinality({d \in Commands : d < c /\ status[d] \notin {"unsent", "gone"}}) >= Limit

\* A queued command does not wait for ever while the page has room for it: it is
\* taken or expires, whatever stale pages, throttled claims, lost answers,
\* crashes and foreign reports there are in between.  Only Limit older commands,
\* finished or not, may keep it waiting until they expire.
EveryCommandTaken ==
    \A c \in Commands : []<>(status[c] # "pending" \/ CrowdedOut(c))
=============================================================================
