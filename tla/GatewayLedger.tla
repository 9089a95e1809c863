---------------------------- MODULE GatewayLedger ----------------------------
(***************************************************************************)
(* What the gateway promises about money, with no counters, no clock and   *)
(* no crashes: a ledger with one entry per paid call.  An entry is opened  *)
(* at the most the call can cost, only while the sum of all entries stays  *)
(* within the caps.  Before the call is sent it may be released; once sent *)
(* it may only be charged, at most what it was opened with.                *)
(***************************************************************************)
EXTENDS Integers, Functions

CONSTANTS Calls, Students, StudentOf, CostCap, TokenCap

VARIABLE entry      \* call -> its state, and the cost and tokens it stands for

Entry == [state : {"none", "open", "sent", "released", "charged"}, cost : Nat, tokens : Nat]

CostsOf == [c \in Calls |-> entry[c].cost]
TokensOf == [c \in Calls |-> entry[c].tokens]
CallsOf(s) == {c \in Calls : StudentOf[c] = s}

WithinCaps ==
    /\ SumFunctionOnSet(CostsOf, Calls) <= CostCap
    /\ \A s \in Students : SumFunctionOnSet(TokensOf, CallsOf(s)) <= TokenCap

Init == entry = [c \in Calls |-> [state |-> "none", cost |-> 0, tokens |-> 0]]

\* Only the entry of c changes, from one state to another.
Moves(c, from, to) ==
    /\ entry[c].state = from /\ entry'[c].state = to
    /\ \A d \in Calls \ {c} : entry'[d] = entry[d]

Open(c) ==
    /\ Moves(c, "none", "open")
    /\ entry'[c].cost > 0 /\ entry'[c].tokens > 0
    /\ WithinCaps'

Send(c) ==
    /\ Moves(c, "open", "sent")
    /\ entry'[c].cost = entry[c].cost /\ entry'[c].tokens = entry[c].tokens

Release(c) ==
    /\ Moves(c, "open", "released")
    /\ entry'[c].cost = 0 /\ entry'[c].tokens = 0

Charge(c) ==
    /\ Moves(c, "sent", "charged")
    /\ entry'[c].cost <= entry[c].cost /\ entry'[c].tokens <= entry[c].tokens

Next ==
    /\ entry' \in [Calls -> Entry]
    /\ \E c \in Calls : Open(c) \/ Send(c) \/ Release(c) \/ Charge(c)

Spec == Init /\ [][Next]_entry
=============================================================================
