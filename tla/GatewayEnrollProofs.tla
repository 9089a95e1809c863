------------------------ MODULE GatewayEnrollProofs ------------------------
(***************************************************************************)
(* Proofs about GatewayEnroll: for any requests, accounts and ids, two     *)
(* valid tokens never belong to one Discord account, the account of a      *)
(* valid token leads back to its student, and no more tokens are delivered *)
(* than there are seats.                                                   *)
(***************************************************************************)
EXTENDS GatewayEnroll, FiniteSetTheorems, TLAPS

\* The types this part needs; the rest of TypeOK takes counting, see SeatInv.
Typed ==
    /\ student \in [Ids -> [exists : BOOLEAN, active : BOOLEAN]]
    /\ binding \in [Accounts -> Ids \cup {NoId}]
    /\ req \in [Requests ->
         [pc : {"idle", "lookup", "seat", "giveback", "student", "bind", "deactivate",
                "done", "refused", "failed"},
          id : Ids \cup {NoId}, tries : Nat]]

Owns(r) == req[r].pc \in {"bind", "deactivate", "done"}

\* A request that has created a student knows its id, and the student exists or
\* has lapsed.
StudentCreated ==
    \A r \in Requests : Owns(r) =>
        /\ req[r].id \in Ids
        /\ student[req[r].id].exists \/ req[r].id \in lapsed

\* No two requests have created the same student.
StudentsDiffer ==
    \A q, r \in Requests : Owns(q) /\ Owns(r) /\ req[q].id = req[r].id => q = r

IInv == Typed /\ StudentCreated /\ StudentsDiffer /\ AccountFindsStudent

\* Steps of requests that own nothing before or after and change no item.
LEMMA Quiet ==
    ASSUME IInv, NEW r \in Requests, Typed',
           UNCHANGED <<student, binding, lapsed>>,
           \A q \in Requests \ {r} : req'[q] = req[q],
           Owns(r)' => Owns(r) /\ req'[r].id = req[r].id /\ (req'[r].pc = "done" => req[r].pc = "done")
    PROVE  IInv'
  <1>1. StudentCreated'
    BY DEF IInv, StudentCreated, Owns
  <1>2. StudentsDiffer'
    BY DEF IInv, StudentsDiffer, Owns
  <1>3. AccountFindsStudent'
    BY DEF IInv, AccountFindsStudent, Delivered, At, Valid, HasAccount, Owns
  <1> QED
    BY <1>1, <1>2, <1>3 DEF IInv

\* Items only lose validity, and bindings go only with a lapsed student.
LEMMA Fades ==
    ASSUME IInv, Typed', req' = req, lapsed \subseteq lapsed',
           \A i \in Ids : /\ student[i].exists /\ ~student'[i].exists => i \in lapsed
                          /\ student'[i].exists => student[i].exists
                          /\ student'[i].active => student[i].active,
           \A a \in Accounts : binding'[a] = binding[a] \/ binding[a] \in lapsed
    PROVE  IInv'
  <1>1. StudentCreated'
    <2> SUFFICES ASSUME NEW r \in Requests, Owns(r)
                 PROVE  req[r].id \in Ids /\ (student'[req[r].id].exists \/ req[r].id \in lapsed')
      BY DEF StudentCreated, Owns
    <2>1. req[r].id \in Ids /\ (student[req[r].id].exists \/ req[r].id \in lapsed)
      BY DEF IInv, StudentCreated
    <2>2. lapsed \subseteq lapsed' /\ req' = req
      OBVIOUS
    <2> QED
      BY <2>1, <2>2
  <1>2. StudentsDiffer'
    BY DEF IInv, StudentsDiffer, Owns
  <1>3. AccountFindsStudent'
    <2> SUFFICES ASSUME NEW r \in Requests, req[r].pc = "done", HasAccount(r), Valid(req[r].id)'
                 PROVE  binding'[AccountOf[r]] = req[r].id
      BY DEF AccountFindsStudent, Delivered, At, HasAccount
    <2>1. req[r].id \in Ids /\ AccountOf[r] \in Accounts
      BY EnrollAssumption DEF IInv, StudentCreated, Owns, HasAccount
    <2>2. Valid(req[r].id) /\ req[r].id \notin lapsed
      <3>1. student'[req[r].id].exists /\ student'[req[r].id].active /\ req[r].id \notin lapsed'
        BY DEF Valid
      <3>2. student[req[r].id].exists
        BY <2>1, <3>1
      <3>3. student[req[r].id].active
        BY <2>1, <3>1
      <3> QED
        BY <3>1, <3>2, <3>3 DEF Valid
    <2>3. binding[AccountOf[r]] = req[r].id
      BY <2>2 DEF IInv, AccountFindsStudent, Delivered, At
    <2> QED
      BY <2>1, <2>2, <2>3
  <1> QED
    BY <1>1, <1>2, <1>3 DEF IInv

\* Where the steps that set several fields at once take the request.
ReqStates ==
    [pc : {"idle", "lookup", "seat", "giveback", "student", "bind", "deactivate",
           "done", "refused", "failed"},
     id : Ids \cup {NoId}, tries : Nat]

LEMMA LookupMoves ==
    ASSUME Typed, NEW r \in Requests, Lookup(r)
    PROVE  \E s \in ReqStates :
               /\ req' = [req EXCEPT ![r] = s] /\ req[r].pc = "idle"
               /\ s.pc \in {"lookup", "seat"} /\ s.tries = req[r].tries
<1> req[r] \in ReqStates
  BY DEF Typed, ReqStates
<1>1. CASE HasAccount(r) /\ binding[AccountOf[r]] # NoId
  <2> DEFINE i == binding[AccountOf[r]]
             s == [req[r] EXCEPT !.pc = "lookup", !.id = i]
  <2>1. i \in Ids \cup {NoId}
    BY <1>1, EnrollAssumption DEF Typed, HasAccount
  <2>2. req' = [req EXCEPT ![r] = s] /\ req[r].pc = "idle"
    BY <1>1 DEF Lookup, At
  <2> HIDE DEF i
  <2>3. s \in ReqStates /\ s.pc = "lookup" /\ s.tries = req[r].tries
    BY <2>1 DEF ReqStates
  <2> HIDE DEF s
  <2> QED
    BY <2>2, <2>3
<1>2. CASE ~(HasAccount(r) /\ binding[AccountOf[r]] # NoId)
  <2> DEFINE s == [req[r] EXCEPT !.pc = "seat"]
  <2>1. req' = [req EXCEPT ![r] = s] /\ req[r].pc = "idle"
    BY <1>2 DEF Lookup, At, Goto
  <2>2. s \in ReqStates /\ s.pc = "seat" /\ s.tries = req[r].tries
    BY DEF ReqStates
  <2> HIDE DEF s
  <2> QED
    BY <2>1, <2>2
<1> QED
  BY <1>1, <1>2

LEMMA PutMoves ==
    ASSUME Typed, NEW r \in Requests, PutStudent(r)
    PROVE  /\ req[r].pc = "student" /\ UNCHANGED <<binding, lapsed, seats>>
           /\ \E i \in Ids \ Removed, s \in ReqStates :
                 /\ req' = [req EXCEPT ![r] = s]
                 /\ \/ /\ student[i].exists /\ student' = student
                       /\ s.pc = (IF GivesUp(r) THEN "giveback" ELSE "student")
                       /\ s.tries = req[r].tries + 1
                    \/ /\ ~student[i].exists
                       /\ student' = [student EXCEPT ![i] = [exists |-> TRUE, active |-> TRUE]]
                       /\ s.pc = (IF HasAccount(r) THEN "bind" ELSE "done")
                       /\ s.id = i /\ s.tries = req[r].tries
<1> req[r] \in ReqStates
  BY DEF Typed, ReqStates
<1>1. req[r].pc = "student" /\ UNCHANGED <<binding, lapsed, seats>>
  BY DEF PutStudent, At
<1>2. PICK i \in Ids \ Removed :
        IF student[i].exists
        THEN /\ req' = [req EXCEPT ![r] =
                 [pc |-> IF GivesUp(r) THEN "giveback" ELSE "student",
                  id |-> NoId, tries |-> req[r].tries + 1]]
             /\ UNCHANGED student
        ELSE /\ student' = [student EXCEPT ![i] = [exists |-> TRUE, active |-> TRUE]]
             /\ req' = [req EXCEPT ![r] =
                 [req[r] EXCEPT !.id = i, !.pc = IF HasAccount(r) THEN "bind" ELSE "done"]]
  BY DEF PutStudent
<1>3. CASE student[i].exists
  <2> DEFINE s == [pc |-> IF GivesUp(r) THEN "giveback" ELSE "student",
                   id |-> NoId, tries |-> req[r].tries + 1]
  <2>1. req' = [req EXCEPT ![r] = s] /\ student' = student
    BY <1>2, <1>3
  <2>2. req[r].tries + 1 \in Nat
    BY DEF ReqStates
  <2>3. /\ s \in ReqStates
        /\ s.pc = (IF GivesUp(r) THEN "giveback" ELSE "student")
        /\ s.tries = req[r].tries + 1
    BY <2>2 DEF ReqStates
  <2> HIDE DEF s
  <2> QED
    BY <1>1, <1>3, <2>1, <2>3
<1>4. CASE ~student[i].exists
  <2> DEFINE pc == IF HasAccount(r) THEN "bind" ELSE "done"
             s == [req[r] EXCEPT !.id = i, !.pc = pc]
  <2>1. /\ req' = [req EXCEPT ![r] = s]
        /\ student' = [student EXCEPT ![i] = [exists |-> TRUE, active |-> TRUE]]
    BY <1>2, <1>4
  <2>2. pc \in {"bind", "done"}
    OBVIOUS
  <2> HIDE DEF pc
  <2>3. s \in ReqStates /\ s.pc = pc /\ s.id = i /\ s.tries = req[r].tries
    BY <2>2 DEF ReqStates
  <2> HIDE DEF s
  <2> QED
    BY <1>1, <1>4, <2>1, <2>3 DEF pc
<1> QED
  BY <1>3, <1>4

LEMMA TypedStep == Typed /\ [Next]_vars => Typed'
  <1> SUFFICES ASSUME Typed, [Next]_vars PROVE Typed'
    OBVIOUS
  <1> USE EnrollAssumption DEF Typed
  <1>0. req \in [Requests -> ReqStates]
    BY DEF ReqStates
  <1>1. ASSUME NEW r \in Requests, Lookup(r) PROVE Typed'
    <2>1. PICK s \in ReqStates : req' = [req EXCEPT ![r] = s]
      BY <1>1, LookupMoves
    <2>2. req' \in [Requests -> ReqStates] /\ UNCHANGED <<student, binding>>
      BY <1>0, <1>1, <2>1 DEF Lookup
    <2> QED
      BY <2>2 DEF ReqStates
  <1>2. ASSUME NEW r \in Requests, LookupStudent(r) PROVE Typed'
    BY <1>2 DEF LookupStudent, Goto
  <1>3. ASSUME NEW r \in Requests, TakeSeat(r) PROVE Typed'
    BY <1>3 DEF TakeSeat, Goto
  <1>4. ASSUME NEW r \in Requests, GiveBack(r) PROVE Typed'
    BY <1>4 DEF GiveBack, Goto
  <1>5. ASSUME NEW r \in Requests, PutStudent(r) PROVE Typed'
    <2>1. PICK i \in Ids, s \in ReqStates :
            /\ req' = [req EXCEPT ![r] = s] /\ binding' = binding
            /\ \/ student' = student
               \/ student' = [student EXCEPT ![i] = [exists |-> TRUE, active |-> TRUE]]
      BY <1>5, PutMoves
    <2>2. req' \in [Requests -> ReqStates]
      BY <1>0, <2>1
    <2>3. student' \in [Ids -> [exists : BOOLEAN, active : BOOLEAN]]
      <3> DEFINE new == [exists |-> TRUE, active |-> TRUE]
      <3>1. new \in [exists : BOOLEAN, active : BOOLEAN]
        OBVIOUS
      <3>2. student' = student \/ student' = [student EXCEPT ![i] = new]
        BY <2>1
      <3> HIDE DEF new
      <3> QED
        BY <3>1, <3>2
    <2> QED
      BY <2>1, <2>2, <2>3 DEF ReqStates
  <1>6. ASSUME NEW r \in Requests, PutBinding(r) PROVE Typed'
    BY <1>6 DEF PutBinding, Goto
  <1>7. ASSUME NEW r \in Requests, Deactivate(r) PROVE Typed'
    BY <1>7 DEF Deactivate, Goto, SwitchOff
  <1>8. ASSUME NEW r \in Requests, Fail(r) PROVE Typed'
    BY <1>8 DEF Fail, Goto
  <1>9. ASSUME NEW i \in Ids, Revoke(i) \/ Lapse(i) \/ RemoveStudent(i) PROVE Typed'
    <2>1. CASE Revoke(i)
      BY <2>1 DEF Revoke, SwitchOff
    <2>2. CASE Lapse(i)
      BY <2>2 DEF Lapse
    <2>3. CASE RemoveStudent(i)
      BY <2>3 DEF RemoveStudent, Missing
    <2> QED
      BY <1>9, <2>1, <2>2, <2>3
  <1>10. ASSUME NEW a \in Accounts, RemoveBinding(a) PROVE Typed'
    BY <1>10 DEF RemoveBinding
  <1>11. CASE UNCHANGED vars
    BY <1>11 DEF vars
  <1> QED
    BY <1>1, <1>2, <1>3, <1>4, <1>5, <1>6, <1>7, <1>8, <1>9, <1>10, <1>11 DEF Next, Enroll

THEOREM Inductive == Spec => []IInv
  <1>1. Init => IInv
    BY EnrollAssumption DEF Init, IInv, Typed, StudentCreated, StudentsDiffer, AccountFindsStudent,
       Owns, Delivered, At, Missing
  <1>2. IInv /\ [Next]_vars => IInv'
    <2> SUFFICES ASSUME IInv, [Next]_vars PROVE IInv'
      OBVIOUS
    <2> /\ Typed' /\ Typed
      BY TypedStep DEF IInv
    <2>1. ASSUME NEW r \in Requests,
                 Lookup(r) \/ LookupStudent(r) \/ TakeSeat(r) \/ GiveBack(r) \/ Fail(r)
          PROVE  IInv'
      <3>1. /\ UNCHANGED <<student, binding, lapsed>>
            /\ \A q \in Requests \ {r} : req'[q] = req[q]
            /\ req'[r].pc \in {"lookup", "seat", "refused", "giveback", "student", "failed"}
        <4>1. CASE Lookup(r)
          <5>1. PICK s \in ReqStates :
                  req' = [req EXCEPT ![r] = s] /\ s.pc \in {"lookup", "seat"}
            BY <4>1, LookupMoves
          <5>2. UNCHANGED <<student, binding, lapsed>>
            BY <4>1 DEF Lookup
          <5> QED
            BY <5>1, <5>2 DEF Typed
        <4>2. CASE ~Lookup(r)
          BY <2>1, <4>2 DEF LookupStudent, TakeSeat, GiveBack, Fail, Goto, Typed
        <4> QED
          BY <4>1, <4>2
      <3> QED
        BY <3>1, Quiet DEF Owns
    <2>2. ASSUME NEW r \in Requests, PutStudent(r) PROVE IInv'
      <3>1. PICK i \in Ids \ Removed, s \in ReqStates :
              /\ req' = [req EXCEPT ![r] = s]
              /\ \/ /\ student[i].exists /\ student' = student
                    /\ s.pc \in {"giveback", "student"}
                 \/ /\ ~student[i].exists
                    /\ student' = [student EXCEPT ![i] = [exists |-> TRUE, active |-> TRUE]]
                    /\ s.pc = (IF HasAccount(r) THEN "bind" ELSE "done")
                    /\ s.id = i
        BY <2>2, PutMoves
      <3>2. UNCHANGED <<binding, lapsed>> /\ req[r].pc = "student"
        BY <2>2, PutMoves
      <3>3. CASE student[i].exists
        <4>1. /\ UNCHANGED <<student, binding, lapsed>>
              /\ \A q \in Requests \ {r} : req'[q] = req[q]
              /\ req'[r].pc \in {"giveback", "student"}
          BY <3>1, <3>2, <3>3 DEF Typed
        <4> QED
          BY <4>1, Quiet DEF Owns
      <3>4. CASE ~student[i].exists
        <4>1. i \notin lapsed
          BY <3>4 DEF Removed
        <4>2. /\ \A q \in Requests \ {r} : req'[q] = req[q]
              /\ req'[r].id = i
              /\ req'[r].pc = "done" => ~HasAccount(r)
              /\ student'[i] = [exists |-> TRUE, active |-> TRUE]
              /\ \A j \in Ids \ {i} : student'[j] = student[j]
          BY <3>1, <3>4 DEF Typed
        <4>3. \A q \in Requests : Owns(q) => req[q].id # i
          BY <3>4, <4>1 DEF IInv, StudentCreated
        <4>4. StudentCreated'
          BY <3>2, <4>2 DEF IInv, StudentCreated, Owns
        <4>5. StudentsDiffer'
          BY <3>2, <4>2, <4>3 DEF IInv, StudentsDiffer, Owns
        <4>6. AccountFindsStudent'
          <5> SUFFICES ASSUME NEW q \in Requests, req'[q].pc = "done", HasAccount(q), Valid(req[q].id)'
                       PROVE  binding[AccountOf[q]] = req'[q].id
            BY <3>2 DEF AccountFindsStudent, Delivered, At, HasAccount
          <5>1. q # r /\ req'[q] = req[q] /\ req[q].id # i /\ req[q].id \in Ids
            BY <4>2, <4>3 DEF IInv, StudentCreated, Owns
          <5>2. Valid(req[q].id)
            BY <3>2, <4>2, <5>1 DEF Valid
          <5> QED
            BY <5>1, <5>2 DEF IInv, AccountFindsStudent, Delivered, At
        <4> QED
          BY <4>4, <4>5, <4>6 DEF IInv
      <3> QED
        BY <3>3, <3>4
    <2>3. ASSUME NEW r \in Requests, PutBinding(r) PROVE IInv'
      <3>1. /\ UNCHANGED <<student, lapsed>> /\ req[r].pc = "bind"
            /\ \A q \in Requests \ {r} : req'[q] = req[q]
            /\ req'[r].id = req[r].id /\ req'[r].pc \in {"done", "deactivate"}
        BY <2>3 DEF PutBinding, Goto, At, Typed
      <3>2. StudentCreated' /\ StudentsDiffer'
        BY <3>1 DEF IInv, StudentCreated, StudentsDiffer, Owns
      <3>3. AccountFindsStudent'
        <4> SUFFICES ASSUME NEW q \in Requests, req'[q].pc = "done", HasAccount(q), Valid(req[q].id)'
                     PROVE  binding'[AccountOf[q]] = req'[q].id
          BY DEF AccountFindsStudent, Delivered, At, HasAccount
        <4>1. CASE q = r
          <5>1. binding' = [binding EXCEPT ![AccountOf[r]] = req[r].id]
            BY <2>3, <3>1, <4>1 DEF PutBinding, Goto, Typed
          <5>2. AccountOf[r] \in Accounts
            BY <4>1, EnrollAssumption DEF HasAccount
          <5> QED
            BY <3>1, <4>1, <5>1, <5>2 DEF Typed
        <4>2. CASE q # r
          <5>1. /\ req'[q] = req[q] /\ Valid(req[q].id) /\ AccountOf[q] \in Accounts
                /\ req[q].id \in Ids
            BY <3>1, <4>2, EnrollAssumption DEF Valid, HasAccount, IInv, StudentCreated, Owns
          <5>2. binding[AccountOf[q]] = req[q].id
            BY <5>1 DEF IInv, AccountFindsStudent, Delivered, At
          <5>3. binding' = binding \/ (binding[AccountOf[r]] = NoId /\
                                       binding' = [binding EXCEPT ![AccountOf[r]] = req[r].id])
            BY <2>3 DEF PutBinding
          <5>4. NoId \notin Ids
            BY EnrollAssumption
          <5> QED
            BY <5>1, <5>2, <5>3, <5>4 DEF Typed
        <4> QED
          BY <4>1, <4>2
      <3> QED
        BY <3>2, <3>3 DEF IInv
    <2>4. ASSUME NEW r \in Requests, Deactivate(r) PROVE IInv'
      <3>1. /\ UNCHANGED <<binding, lapsed>>
            /\ \A q \in Requests \ {r} : req'[q] = req[q]
            /\ req'[r].pc = "refused"
        BY <2>4 DEF Deactivate, Goto, Typed
      <3>2. \A i \in Ids : /\ student'[i].exists = student[i].exists
                           /\ student'[i].active => student[i].active
        BY <2>4 DEF Deactivate, SwitchOff, Typed
      <3>3. StudentCreated' /\ StudentsDiffer'
        BY <3>1, <3>2 DEF IInv, StudentCreated, StudentsDiffer, Owns
      <3>4. AccountFindsStudent'
        <4> SUFFICES ASSUME NEW q \in Requests, req'[q].pc = "done", HasAccount(q), Valid(req[q].id)'
                     PROVE  binding'[AccountOf[q]] = req'[q].id
          BY DEF AccountFindsStudent, Delivered, At, HasAccount
        <4>1. req'[q] = req[q] /\ req[q].id \in Ids
          BY <3>1 DEF IInv, StudentCreated, Owns
        <4>2. Valid(req[q].id)
          BY <3>1, <3>2, <4>1 DEF Valid
        <4> QED
          BY <3>1, <4>1, <4>2 DEF IInv, AccountFindsStudent, Delivered, At
      <3> QED
        BY <3>3, <3>4 DEF IInv
    <2>5. ASSUME NEW i \in Ids, Revoke(i) \/ Lapse(i) \/ RemoveStudent(i) PROVE IInv'
      <3>1. req' = req /\ binding' = binding /\ lapsed \subseteq lapsed'
        BY <2>5 DEF Revoke, Lapse, RemoveStudent
      <3>2. \A j \in Ids : /\ student[j].exists /\ ~student'[j].exists => j \in lapsed
                           /\ student'[j].exists => student[j].exists
                           /\ student'[j].active => student[j].active
        <4>1. CASE Revoke(i)
          BY <4>1 DEF Revoke, SwitchOff, Typed
        <4>2. CASE Lapse(i)
          BY <4>2 DEF Lapse
        <4>3. CASE RemoveStudent(i)
          BY <4>3 DEF RemoveStudent, Missing, Typed
        <4> QED
          BY <2>5, <4>1, <4>2, <4>3
      <3> QED
        BY <3>1, <3>2, Fades
    <2>6. ASSUME NEW a \in Accounts, RemoveBinding(a) PROVE IInv'
      <3>1. /\ req' = req /\ student' = student /\ lapsed' = lapsed
            /\ \A b \in Accounts : binding'[b] = binding[b] \/ binding[b] \in lapsed
        BY <2>6 DEF RemoveBinding, Typed
      <3> QED
        BY <3>1, Fades
    <2>7. CASE UNCHANGED vars
      BY <2>7, Fades DEF vars
    <2> QED
      BY <2>1, <2>2, <2>3, <2>4, <2>5, <2>6, <2>7 DEF Next, Enroll
  <1> QED
    BY <1>1, <1>2, PTL DEF Spec

\* The DISCORD item of a valid token's account names the token's student, in
\* every interleaving of enrollments, revocations and removals.
THEOREM AccountFindsStudentCorrect == Spec => []AccountFindsStudent
  BY Inductive, PTL DEF IInv

\* No Discord account ever has two valid tokens: the conditional put of its
\* DISCORD item lets one enrollment through until the token has lapsed.
THEOREM OneTokenPerAccountCorrect == Spec => []OneTokenPerAccount
  <1>1. IInv => OneTokenPerAccount
    BY DEF IInv, AccountFindsStudent, StudentsDiffer, OneTokenPerAccount, Delivered, At, Owns, HasAccount
  <1> QED
    BY <1>1, Inductive, PTL
-----------------------------------------------------------------------------
(* Counting seats. *)

Inside == {r \in Requests : req[r].pc \in {"student", "bind", "deactivate", "done"}}
Holding == Inside \cup {r \in Requests : At(r, "giveback")}

\* The counter covers every request that holds a seat, those that are about to
\* give theirs back included; who got past the counter did so below the limit.
SeatInv ==
    /\ seats \in Nat
    /\ IsFiniteSet(Holding)
    /\ Cardinality(Holding) <= seats
    /\ Cardinality(Inside) <= EnrollMax

\* A request that may still collide has a try left.
TriesLeft ==
    \A r \in Requests :
        /\ req[r].tries \in 0 .. Attempts
        /\ req[r].pc \in {"idle", "lookup", "seat", "student"} => req[r].tries < Attempts

SeatIInv == Typed /\ lapsed \subseteq Ids /\ TriesLeft /\ SeatInv

\* Nobody takes a seat.
LEMMA NoneTaken ==
    ASSUME SeatInv, seats' = seats, Holding' \subseteq Holding, Inside' \subseteq Inside
    PROVE  SeatInv'
<1>1. IsFiniteSet(Holding') /\ Cardinality(Holding') <= Cardinality(Holding)
  BY FS_Subset DEF SeatInv
<1>2. IsFiniteSet(Inside)
  BY FS_Subset DEF SeatInv, Holding
<1>3. IsFiniteSet(Inside') /\ Cardinality(Inside') <= Cardinality(Inside)
  BY <1>2, FS_Subset
<1>4. /\ Cardinality(Holding') \in Nat /\ Cardinality(Holding) \in Nat
      /\ Cardinality(Inside') \in Nat /\ Cardinality(Inside) \in Nat
  BY <1>1, <1>2, <1>3, FS_CardinalityType DEF SeatInv
<1> QED
  BY <1>1, <1>3, <1>4, EnrollAssumption DEF SeatInv

\* ADD enrolled_count 1: the request is inside only when the result allows it.
LEMMA SeatTaken ==
    ASSUME Typed, SeatInv, NEW r \in Requests, TakeSeat(r)
    PROVE  SeatInv'
<1>1. /\ req[r].pc = "seat" /\ seats' = seats + 1
      /\ \A q \in Requests \ {r} : req'[q] = req[q]
      /\ req'[r].pc = IF seats + 1 > EnrollMax THEN "giveback" ELSE "student"
  BY DEF TakeSeat, At, Goto, Typed
<1>2. r \notin Holding /\ Holding' = Holding \cup {r}
  BY <1>1 DEF Holding, Inside, At
<1>3. IsFiniteSet(Holding') /\ Cardinality(Holding') = Cardinality(Holding) + 1
  BY <1>2, FS_AddElement DEF SeatInv
<1>4. Cardinality(Holding) \in Nat /\ seats \in Nat /\ Cardinality(Holding) <= seats
  BY FS_CardinalityType DEF SeatInv
<1>5. Cardinality(Inside') <= EnrollMax
  <2>1. CASE seats + 1 > EnrollMax
    BY <1>1, <2>1 DEF Inside, SeatInv
  <2>2. CASE seats + 1 <= EnrollMax
    <3>1. Inside' \subseteq Holding'
      BY DEF Holding
    <3>2. Cardinality(Inside') <= Cardinality(Holding') /\ Cardinality(Inside') \in Nat
      BY <1>3, <3>1, FS_Subset, FS_CardinalityType
    <3> QED
      BY <1>3, <1>4, <2>2, <3>2, EnrollAssumption
  <2> QED
    BY <1>4, <2>1, <2>2, EnrollAssumption
<1> QED
  BY <1>1, <1>3, <1>4, <1>5 DEF SeatInv

\* ADD enrolled_count -1, by a request that is counted.
LEMMA SeatReturned ==
    ASSUME Typed, SeatInv, NEW r \in Requests, GiveBack(r)
    PROVE  SeatInv'
<1>1. /\ req[r].pc = "giveback" /\ seats' = seats - 1
      /\ \A q \in Requests \ {r} : req'[q] = req[q]
      /\ req'[r].pc = "refused"
  BY DEF GiveBack, At, Goto, Typed
<1>2. r \in Holding /\ Holding' = Holding \ {r} /\ Inside' = Inside
  BY <1>1 DEF Holding, Inside, At
<1>3. IsFiniteSet(Holding') /\ Cardinality(Holding') = Cardinality(Holding) - 1
  BY <1>2, FS_RemoveElement DEF SeatInv
<1>4. Cardinality(Holding) \in Nat /\ Cardinality(Holding') \in Nat
  BY <1>3, FS_CardinalityType DEF SeatInv
<1> QED
  BY <1>1, <1>2, <1>3, <1>4 DEF SeatInv

LEMMA SeatsStep == SeatIInv /\ [Next]_vars => SeatIInv'
<1> SUFFICES ASSUME SeatIInv, [Next]_vars PROVE SeatIInv'
  OBVIOUS
<1> /\ Typed /\ Typed'
  BY TypedStep DEF SeatIInv
<1>1. ASSUME NEW r \in Requests, Enroll(r)
      PROVE  lapsed' \subseteq Ids /\ TriesLeft' /\ SeatInv'
  <2>1. lapsed' \subseteq Ids
    BY <1>1 DEF SeatIInv, Enroll, Lookup, LookupStudent, TakeSeat, GiveBack, PutStudent,
       PutBinding, Deactivate, Fail
  <2>2. \A q \in Requests \ {r} : req'[q] = req[q]
    BY <1>1 DEF Typed, Enroll, Lookup, LookupStudent, TakeSeat, GiveBack, PutStudent,
       PutBinding, Deactivate, Fail, Goto
  <2>3. /\ req'[r].tries \in 0 .. Attempts
        /\ req'[r].pc \in {"idle", "lookup", "seat", "student"} => req'[r].tries < Attempts
    <3> req[r].tries \in 0 .. Attempts /\ Attempts \in Nat \ {0}
      BY EnrollAssumption DEF SeatIInv, TriesLeft
    <3>1. CASE Lookup(r) \/ LookupStudent(r) \/ TakeSeat(r) \/ GiveBack(r)
      <4>1. CASE Lookup(r)
        BY <4>1, LookupMoves DEF SeatIInv, TriesLeft, Typed
      <4>2. CASE ~Lookup(r)
        BY <3>1, <4>2 DEF SeatIInv, TriesLeft, Typed, LookupStudent, TakeSeat, GiveBack, At, Goto
      <4> QED
        BY <4>1, <4>2
    <3>2. CASE PutBinding(r) \/ Deactivate(r) \/ Fail(r)
      BY <3>2 DEF SeatIInv, TriesLeft, Typed, PutBinding, Deactivate, Fail, At, Goto
    <3>3. CASE PutStudent(r)
      <4>1. req[r].tries < Attempts /\ req[r].pc = "student"
        BY <3>3 DEF SeatIInv, TriesLeft, PutStudent, At
      <4>2. \/ req'[r].tries = req[r].tries
            \/ /\ req'[r].tries = req[r].tries + 1
               /\ req'[r].pc = "student" => ~GivesUp(r)
        BY <3>3, PutMoves DEF Typed
      <4>3. req'[r].pc \in {"giveback", "student", "bind", "done"}
        BY <3>3, PutMoves DEF Typed
      <4> QED
        BY <4>1, <4>2, <4>3 DEF GivesUp
    <3> QED
      BY <1>1, <3>1, <3>2, <3>3 DEF Enroll
  <2>4. TriesLeft'
    BY <2>2, <2>3 DEF SeatIInv, TriesLeft
  <2>5. SeatInv'
    <3>1. CASE TakeSeat(r)
      BY <3>1, SeatTaken DEF SeatIInv
    <3>2. CASE GiveBack(r)
      BY <3>2, SeatReturned DEF SeatIInv
    <3>3. CASE Lookup(r) \/ LookupStudent(r) \/ PutStudent(r) \/ PutBinding(r)
               \/ Deactivate(r) \/ Fail(r)
      <4>1. seats' = seats
        BY <3>3 DEF Lookup, LookupStudent, PutStudent, PutBinding, Deactivate, Fail
      <4>2. /\ req'[r].pc \in {"student", "bind", "deactivate", "done"}
                => req[r].pc \in {"student", "bind", "deactivate", "done"}
            /\ req'[r].pc = "giveback" => req[r].pc = "student"
        <5>1. CASE PutStudent(r)
          BY <5>1, PutMoves DEF Typed
        <5>2. CASE Lookup(r)
          BY <5>2, LookupMoves DEF Typed
        <5>3. CASE LookupStudent(r) \/ PutBinding(r) \/ Deactivate(r) \/ Fail(r)
          BY <5>3 DEF LookupStudent, PutBinding, Deactivate, Fail, Typed, At, Goto
        <5> QED
          BY <3>3, <5>1, <5>2, <5>3
      <4>3. Holding' \subseteq Holding /\ Inside' \subseteq Inside
        BY <2>2, <4>2 DEF Holding, Inside, At
      <4> QED
        BY <4>1, <4>3, NoneTaken DEF SeatIInv
    <3> QED
      BY <1>1, <3>1, <3>2, <3>3 DEF Enroll
  <2> QED
    BY <2>1, <2>4, <2>5
<1>2. ASSUME req' = req, seats' = seats, lapsed' \subseteq Ids
      PROVE  lapsed' \subseteq Ids /\ TriesLeft' /\ SeatInv'
  <2>1. TriesLeft'
    BY <1>2 DEF SeatIInv, TriesLeft
  <2>2. Holding' = Holding /\ Inside' = Inside
    BY <1>2 DEF Holding, Inside, At
  <2> QED
    BY <1>2, <2>1, <2>2, NoneTaken DEF SeatIInv
<1>3. ASSUME ~\E r \in Requests : Enroll(r)
      PROVE  req' = req /\ seats' = seats /\ lapsed' \subseteq Ids
  BY <1>3 DEF SeatIInv, Next, vars, Revoke, Lapse, RemoveStudent, RemoveBinding
<1> QED
  BY <1>1, <1>2, <1>3 DEF SeatIInv

LEMMA SeatsInvariant == Spec => []SeatIInv
<1>1. Init => SeatIInv
  <2> SUFFICES ASSUME Init PROVE SeatIInv
    OBVIOUS
  <2>1. Typed /\ lapsed \subseteq Ids /\ TriesLeft
    BY EnrollAssumption DEF Init, Typed, TriesLeft, Missing
  <2>2. Holding = {} /\ Inside = {} /\ seats = 0
    BY DEF Init, Holding, Inside, At
  <2> QED
    BY <2>1, <2>2, FS_EmptySet, EnrollAssumption DEF SeatIInv, SeatInv
<1> QED
  BY <1>1, SeatsStep, PTL DEF Spec

\* Every variable keeps its type: the counter of enrolments never goes below
\* zero, however many seats are given back, and no request collides more often
\* than the loop allows.
THEOREM TypeCorrect == Spec => []TypeOK
<1>1. SeatIInv => TypeOK
  BY DEF SeatIInv, SeatInv, TriesLeft, Typed, TypeOK
<1> QED
  BY <1>1, SeatsInvariant, PTL

\* No more tokens are delivered than ENROLL_MAX, with any number of concurrent
\* requests, collisions and seats given back: a request that is past the
\* counter was counted within the limit.
THEOREM SeatLimitCorrect == Spec => []SeatLimit
<1>1. SeatIInv => SeatLimit
  <2> SUFFICES ASSUME SeatIInv PROVE Cardinality(Delivered) <= EnrollMax
    BY DEF SeatLimit
  <2>1. IsFiniteSet(Inside)
    BY FS_Subset DEF SeatIInv, SeatInv, Holding
  <2>2. Delivered \subseteq Inside
    BY DEF Delivered, Inside, At
  <2>3. Cardinality(Delivered) <= Cardinality(Inside)
        /\ Cardinality(Delivered) \in Nat /\ Cardinality(Inside) \in Nat
    BY <2>1, <2>2, FS_Subset, FS_CardinalityType
  <2> QED
    BY <2>3, EnrollAssumption DEF SeatIInv, SeatInv
<1> QED
  BY <1>1, SeatsInvariant, PTL
=============================================================================
