---------------------------- MODULE GatewayEnroll ----------------------------
(***************************************************************************)
(* Self-service enrollment at the gateway: gateway/src/enroll.py and       *)
(* enroll_student of gateway/src/common.py, next to the administrator's    *)
(* revocation and the removal of expired items by DynamoDB.                *)
(*                                                                         *)
(* Every element of Requests is one invocation of enroll.handler with a    *)
(* correct enroll code; every DynamoDB call is a step of its own.          *)
(***************************************************************************)
EXTENDS Naturals, FiniteSets

CONSTANTS Requests,
          Accounts,    \* discord_user_ids
          AccountOf,   \* the account of each request; NoAccount: none was given
          Ids,         \* values of token_hex
          EnrollMax,   \* ENROLL_MAX
          Attempts     \* tries to find a fresh student_id

NoAccount == "no account"
NoId == "no id"

ASSUME EnrollAssumption ==
    /\ AccountOf \in [Requests -> Accounts \cup {NoAccount}]
    /\ NoAccount \notin Accounts /\ NoId \notin Ids
    /\ EnrollMax \in Nat \ {0}
    /\ Attempts \in Nat \ {0}

VARIABLES student,  \* STUDENT#id items
          binding,  \* DISCORD#account items: the student_id, or NoId
          lapsed,   \* ids whose ttl has passed
          seats,    \* enrolled_count of the POOL item
          req

vars == <<student, binding, lapsed, seats, req>>

Missing == [exists |-> FALSE, active |-> FALSE]

Init ==
    /\ student = [i \in Ids |-> Missing]
    /\ binding = [a \in Accounts |-> NoId]
    /\ lapsed = {}
    /\ seats = 0
    /\ req = [r \in Requests |-> [pc |-> "idle", id |-> NoId, tries |-> 0]]

At(r, pc) == req[r].pc = pc
Goto(r, pc) == req' = [req EXCEPT ![r].pc = pc]
HasAccount(r) == AccountOf[r] # NoAccount

-----------------------------------------------------------------------------
(* enroll_student *)

\* get_student_by_discord: the DISCORD item first; without one nobody is enrolled.
Lookup(r) ==
    /\ At(r, "idle")
    /\ IF HasAccount(r) /\ binding[AccountOf[r]] # NoId
       THEN req' = [req EXCEPT ![r] = [req[r] EXCEPT !.pc = "lookup",
                                                  !.id = binding[AccountOf[r]]]]
       ELSE Goto(r, "seat")
    /\ UNCHANGED <<student, binding, lapsed, seats>>

\* ... and then the student it names, which may have gone.
LookupStudent(r) ==
    /\ At(r, "lookup")
    /\ req' = [req EXCEPT ![r] =
         [pc |-> IF student[req[r].id].exists THEN "refused" ELSE "seat",
          id |-> NoId, tries |-> 0]]
    /\ UNCHANGED <<student, binding, lapsed, seats>>

\* Variant: read the counter first, count afterwards.
TakeSeatAfterCheck(r) ==
    \/ /\ At(r, "seat")
       /\ Goto(r, IF seats < EnrollMax THEN "count" ELSE "refused")
       /\ UNCHANGED <<student, binding, lapsed, seats>>
    \/ /\ At(r, "count")
       /\ seats' = seats + 1
       /\ Goto(r, "student")
       /\ UNCHANGED <<student, binding, lapsed>>

\* ADD enrolled_count 1, and look at the result.
TakeSeat(r) ==
    /\ At(r, "seat")
    /\ seats' = seats + 1
    /\ Goto(r, IF seats + 1 > EnrollMax THEN "giveback" ELSE "student")
    /\ UNCHANGED <<student, binding, lapsed>>

GiveBack(r) ==
    /\ At(r, "giveback")
    /\ seats' = seats - 1
    /\ Goto(r, "refused")
    /\ UNCHANGED <<student, binding, lapsed>>

\* token_hex does not draw the id of a removed student again.
Removed == {i \in lapsed : ~student[i].exists}

\* This collision was the last one of the loop.
GivesUp(r) == req[r].tries + 1 = Attempts

\* _put_unique of the STUDENT item; a collision draws another id.
PutStudent(r) ==
    /\ At(r, "student")
    /\ \E i \in Ids \ Removed :
         IF student[i].exists
         THEN /\ req' = [req EXCEPT ![r] =
                   [pc |-> IF GivesUp(r) THEN "giveback" ELSE "student",
                    id |-> NoId, tries |-> req[r].tries + 1]]
              /\ UNCHANGED student
         ELSE /\ student' = [student EXCEPT ![i] = [exists |-> TRUE, active |-> TRUE]]
              /\ req' = [req EXCEPT ![r] = [req[r] EXCEPT !.id = i,
                                                          !.pc = IF HasAccount(r) THEN "bind" ELSE "done"]]
    /\ UNCHANGED <<binding, lapsed, seats>>

\* Variant: put_item without the condition, as put_student does.
PutBindingAlways(r) ==
    /\ At(r, "bind")
    /\ binding' = [binding EXCEPT ![AccountOf[r]] = req[r].id]
    /\ Goto(r, "done")
    /\ UNCHANGED <<student, lapsed, seats>>

\* _put_unique of the DISCORD item: of concurrent requests of an account one wins.
PutBinding(r) ==
    /\ At(r, "bind")
    /\ IF binding[AccountOf[r]] = NoId
       THEN binding' = [binding EXCEPT ![AccountOf[r]] = req[r].id] /\ Goto(r, "done")
       ELSE Goto(r, "deactivate") /\ UNCHANGED binding
    /\ UNCHANGED <<student, lapsed, seats>>

\* set_student_active(i, False), of an existing student.
SwitchOff(i) ==
    student' = [student EXCEPT ![i].active = FALSE]

\* The loser's student is switched off if it still exists; its seat stays taken.
Deactivate(r) ==
    /\ At(r, "deactivate")
    /\ SwitchOff(req[r].id)
    /\ Goto(r, "refused")
    /\ UNCHANGED <<binding, lapsed, seats>>

\* A DynamoDB call fails or the invocation times out: nothing is undone.
Fail(r) ==
    /\ req[r].pc \notin {"idle", "refused", "done", "failed"}
    /\ Goto(r, "failed")
    /\ UNCHANGED <<student, binding, lapsed, seats>>

-----------------------------------------------------------------------------
(* Administration and expiry *)

\* admin.handler, action "revoke".
Revoke(i) ==
    /\ student[i].active
    /\ SwitchOff(i)
    /\ UNCHANGED <<binding, lapsed, seats, req>>

\* The ttl of a student, and of the DISCORD item written with it, passes.
Lapse(i) ==
    /\ student[i].exists /\ i \notin lapsed
    /\ lapsed' = lapsed \cup {i}
    /\ UNCHANGED <<student, binding, seats, req>>

\* DynamoDB removes lapsed items, each when it gets to it.
RemoveStudent(i) ==
    /\ student[i].exists /\ i \in lapsed
    /\ student' = [student EXCEPT ![i] = Missing]
    /\ UNCHANGED <<binding, lapsed, seats, req>>

RemoveBinding(a) ==
    /\ binding[a] \in lapsed
    /\ binding' = [binding EXCEPT ![a] = NoId]
    /\ UNCHANGED <<student, lapsed, seats, req>>

-----------------------------------------------------------------------------
Enroll(r) ==
    \/ Lookup(r) \/ LookupStudent(r) \/ TakeSeat(r) \/ GiveBack(r)
    \/ PutStudent(r) \/ PutBinding(r) \/ Deactivate(r) \/ Fail(r)

Next ==
    \/ \E r \in Requests : Enroll(r)
    \/ \E i \in Ids : Revoke(i) \/ Lapse(i) \/ RemoveStudent(i)
    \/ \E a \in Accounts : RemoveBinding(a)

Spec == Init /\ [][Next]_vars

-----------------------------------------------------------------------------
(* Properties *)

TypeOK ==
    /\ student \in [Ids -> [exists : BOOLEAN, active : BOOLEAN]]
    /\ binding \in [Accounts -> Ids \cup {NoId}]
    /\ lapsed \subseteq Ids
    /\ seats \in Nat
    /\ req \in [Requests ->
         [pc : {"idle", "lookup", "seat", "giveback", "student", "bind", "deactivate",
                "done", "refused", "failed"},
          id : Ids \cup {NoId}, tries : 0..Attempts]]

\* Requests that delivered a token, and tokens that authenticate accepts.
Delivered == {r \in Requests : At(r, "done")}
Valid(i) == student[i].exists /\ student[i].active /\ i \notin lapsed

\* common.py:162: one Discord account never holds two valid tokens, however its
\* requests overlap and in whatever order expired items are removed.
OneTokenPerAccount ==
    \A q, r \in Delivered :
        /\ q # r /\ HasAccount(q) /\ AccountOf[q] = AccountOf[r]
        => ~(Valid(req[q].id) /\ Valid(req[r].id))

\* The account of a valid token leads back to its student: the relay acts for
\* the right one (get_student_by_discord).
AccountFindsStudent ==
    \A r \in Delivered :
        HasAccount(r) /\ Valid(req[r].id) => binding[AccountOf[r]] = req[r].id

\* common.py:162: ENROLL_MAX bounds the tokens given out, with seats given back
\* in between.
SeatLimit == Cardinality(Delivered) <= EnrollMax
=============================================================================
