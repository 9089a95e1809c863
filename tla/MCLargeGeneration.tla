--------------------------- MODULE MCLargeGeneration ---------------------------
(* LargeGeneration, with a small plan. *)
EXTENDS LargeGeneration, TLC

CONSTANTS types, svc, routes, api, pay, a1, a2

AllFiles == {types, svc, routes, api, pay}
PlannedFiles == {types, svc, routes, pay}

\* On the server, the common types and a service use each other, and the routes
\* use the types; so a service and the routes may go to one agent.
UsesOf == [f \in AllFiles |-> CASE f = types -> {svc} [] f \in {svc, routes} -> {types}
                                 [] OTHER -> {}]

\* The payment module comes with the plan, and imports an API file of the
\* screens that nobody planned.  That one waits for the routes: when a failure has
\* left the others open, it is the file that waits for none it uses.
ImportsOf == [f \in AllFiles |-> CASE f \in {svc, routes} -> {types} [] f = pay -> {api}
                                    [] OTHER -> {}]
ServesOf == [f \in AllFiles |-> IF f = api THEN {routes} ELSE {}]

SideOf == [f \in AllFiles |-> IF f \in {types, svc, routes} THEN 1 ELSE 0]
RankOf == [f \in AllFiles |-> CASE f = types -> 1 [] f = pay -> 4 [] OTHER -> 2]

Symmetry == Permutations({a1, a2})
=============================================================================
