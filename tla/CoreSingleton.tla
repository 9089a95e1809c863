---------------------------- MODULE CoreSingleton ----------------------------
(***************************************************************************)
(* One Core per user (core/singleton.py, core/main.py) next to the VS Code *)
(* windows that clean up after it (extension/src/core/CoreManager.ts).     *)
(*                                                                         *)
(* core.lock names the Core that owns the service, runtime.json the one    *)
(* clients should talk to; both files are shared by every Core and window. *)
(* Cores change ownership under an flock (_state_guard), but runtime.json  *)
(* is written outside of it and windows unlink both files without it.      *)
(*                                                                         *)
(* A member of Cores is one process: a pid that is used again is another   *)
(* one, as _pid_reused tells them apart by their start time.  A Core may   *)
(* be started by a window or by hand, so it may start at any time, and it  *)
(* may be asked to stop (SIGTERM, /api/shutdown, its window gone) or be    *)
(* killed at any time.                                                     *)
(***************************************************************************)
CONSTANTS Cores, Windows, None

ASSUME CoreAssumption == None \notin Cores

VARIABLES
    core,      \* core[c]: how far process c has got
    lock,      \* the pid in core.lock
    runtime,   \* the pid in runtime.json
    guard,     \* the process that holds the flock of core.guard
    window,    \* window[w]: what a window is about to unlink
    orphan,    \* orphan[w]: the Core a window is waiting to see gone
    cut        \* history: a window unlinked the lock of a Core that held it

vars == <<core, lock, runtime, guard, window, orphan, cut>>

Live(c) == core[c] \notin {"unborn", "exited"}
Holds(c) == core[c] \in {"owner", "serving"}
Alive(p) == p # None /\ Live(p)

Goto(c, pc) == core' = [core EXCEPT ![c] = pc]
CoreStep == UNCHANGED <<window, orphan, cut>>

Init ==
    /\ core = [c \in Cores |-> "unborn"]
    /\ lock = None /\ runtime = None /\ guard = None
    /\ window = [w \in Windows |-> "idle"]
    /\ orphan = [w \in Windows |-> None]
    /\ cut = FALSE

-----------------------------------------------------------------------------
(* A Core process. *)

Start(c) ==
    /\ core[c] = "unborn"
    /\ Goto(c, "boot")
    /\ CoreStep /\ UNCHANGED <<lock, runtime, guard>>

\* Variant: the check and the write are not one critical section.
AcquireUnguarded(c) ==
    /\ core[c] = "boot" /\ guard = None
    /\ Goto(c, IF Alive(lock) \/ Alive(runtime) THEN "refused" ELSE "taking")
    /\ CoreStep /\ UNCHANGED <<lock, runtime, guard>>

\* acquire_lock takes the flock and reads who owns the lock and the runtime.
Acquire(c) ==
    /\ core[c] = "boot" /\ guard = None
    /\ IF Alive(lock) \/ Alive(runtime)
       THEN Goto(c, "refused") /\ guard' = guard
       ELSE Goto(c, "taking") /\ guard' = c
    /\ CoreStep /\ UNCHANGED <<lock, runtime>>

TakeLock(c) ==
    /\ core[c] = "taking"
    /\ runtime' = None /\ lock' = c /\ guard' = None
    /\ Goto(c, "owner")
    /\ CoreStep

\* lifespan publishes port and token, without the flock, and starts to serve.
WriteRuntime(c) ==
    /\ core[c] = "owner"
    /\ runtime' = c
    /\ Goto(c, "serving")
    /\ CoreStep /\ UNCHANGED <<lock, guard>>

\* Variant: runtime.json is compared, but a missing one is left missing.
GuardTickOnChange(c) ==
    /\ core[c] = "serving" /\ runtime \notin {c, None} /\ lock = c
    /\ runtime' = c
    /\ CoreStep /\ UNCHANGED <<core, lock, guard>>

\* A serving Core that still owns the lock writes its runtime.json again when
\* it finds it missing or replaced.
GuardTick(c) ==
    /\ core[c] = "serving" /\ runtime # c /\ lock = c
    /\ runtime' = c
    /\ CoreStep /\ UNCHANGED <<core, lock, guard>>

\* Startup fails after the lock was taken, or a serving Core is told to stop.
Stop(c) ==
    /\ Holds(c)
    /\ Goto(c, "stopping")
    /\ CoreStep /\ UNCHANGED <<lock, runtime, guard>>

\* Variant: whoever leaves takes the lock file along.
ReleaseAnyLock(c) ==
    /\ core[c] \in {"stopping", "refused", "released"} /\ guard = None
    /\ guard' = c /\ lock' = None
    /\ Goto(c, "releasing")
    /\ CoreStep /\ UNCHANGED runtime

\* release_lock removes only what this Core owns.  It runs again in the signal
\* handler, main's finally and atexit, and in Cores that were refused.
ReleaseLock(c) ==
    /\ core[c] \in {"stopping", "refused", "released"} /\ guard = None
    /\ guard' = c
    /\ lock' = IF lock = c THEN None ELSE lock
    /\ Goto(c, "releasing")
    /\ CoreStep /\ UNCHANGED runtime

ReleaseRuntime(c) ==
    /\ core[c] = "releasing"
    /\ runtime' = IF runtime = c THEN None ELSE runtime
    /\ guard' = None
    /\ Goto(c, "released")
    /\ CoreStep /\ UNCHANGED lock

\* The process ends, at once when it is killed; the OS drops its flock.
Exit(c) ==
    /\ Live(c)
    /\ Goto(c, "exited")
    /\ guard' = IF guard = c THEN None ELSE guard
    /\ CoreStep /\ UNCHANGED <<lock, runtime>>

-----------------------------------------------------------------------------
(* A VS Code window.  Whether a Core answers a request in time is open. *)

\* cleanupStale and restartCore: runtime.json names a process that is gone or
\* did not answer.
SeesStale(w) ==
    /\ window[w] = "idle" /\ runtime # None
    /\ window' = [window EXCEPT ![w] = "stale"]
    /\ UNCHANGED <<core, lock, runtime, guard, orphan, cut>>

\* shutdown: the window's own Core has ended, and no live one is recorded.
SeesLeftover(w) ==
    /\ window[w] = "idle" /\ ~Alive(runtime)
    /\ \E c \in Cores : core[c] = "exited"
    /\ window' = [window EXCEPT ![w] = "stale"]
    /\ UNCHANGED <<core, lock, runtime, guard, orphan, cut>>

\* The record it read may have been replaced since.
UnlinkRuntime(w) ==
    /\ window[w] = "stale"
    /\ runtime' = None
    /\ window' = [window EXCEPT ![w] = "idle"]
    /\ UNCHANGED <<core, lock, guard, orphan, cut>>

\* recoverOrphanCore: a Core answers but no runtime.json leads to it; the user
\* agrees to end the process in core.lock.
SeesOrphan(w) ==
    /\ window[w] = "idle" /\ Alive(lock)
    /\ \E c \in Cores : core[c] = "serving" /\ runtime # c
    /\ window' = [window EXCEPT ![w] = "orphan"]
    /\ orphan' = [orphan EXCEPT ![w] = lock]
    /\ UNCHANGED <<core, lock, runtime, guard, cut>>

\* It has ended: core.lock is unlinked, whoever wrote it.
UnlinkLock(w) ==
    /\ window[w] = "orphan" /\ ~Live(orphan[w])
    /\ lock' = None
    /\ cut' = (cut \/ (lock # None /\ Holds(lock)))
    /\ window' = [window EXCEPT ![w] = "idle"]
    /\ orphan' = [orphan EXCEPT ![w] = None]
    /\ UNCHANGED <<core, runtime, guard>>

\* It has not ended within five seconds.
GivesUp(w) ==
    /\ window[w] = "orphan"
    /\ window' = [window EXCEPT ![w] = "idle"]
    /\ orphan' = [orphan EXCEPT ![w] = None]
    /\ UNCHANGED <<core, lock, runtime, guard, cut>>

CoreNext(c) ==
    \/ Start(c) \/ Acquire(c) \/ TakeLock(c) \/ WriteRuntime(c) \/ GuardTick(c)
    \/ Stop(c) \/ ReleaseLock(c) \/ ReleaseRuntime(c) \/ Exit(c)

WindowNext(w) ==
    \/ SeesStale(w) \/ SeesLeftover(w) \/ UnlinkRuntime(w)
    \/ SeesOrphan(w) \/ UnlinkLock(w) \/ GivesUp(w)

Next == (\E c \in Cores : CoreNext(c)) \/ (\E w \in Windows : WindowNext(w))

Spec == Init /\ [][Next]_vars

\* The guard task of a serving Core runs every few seconds (_runtime_guard).
FairSpec == Spec /\ \A c \in Cores : WF_vars(GuardTick(c))

-----------------------------------------------------------------------------
TypeOK ==
    /\ core \in [Cores -> {"unborn", "boot", "taking", "owner", "serving", "refused",
                           "stopping", "releasing", "released", "exited"}]
    /\ lock \in Cores \cup {None} /\ runtime \in Cores \cup {None}
    /\ guard \in Cores \cup {None}
    /\ \A c \in Cores : guard = c <=> core[c] \in {"taking", "releasing"}
    /\ window \in [Windows -> {"idle", "stale", "orphan"}]
    /\ orphan \in [Windows -> Cores \cup {None}]
    /\ \A w \in Windows : orphan[w] # None <=> window[w] = "orphan"
    /\ cut \in BOOLEAN

\* singleton.py:4: only one Core runs at a time, whatever the windows remove and
\* whoever dies.  Only a window that unlinks core.lock after another Core has
\* taken it over can break that.
OneCoreServes ==
    cut \/ \A c, d \in Cores : Holds(c) /\ Holds(d) => c = d

\* singleton.py:86: a losing startup and an old process's repeated cleanup
\* never erase a newer Core: while a Core holds the lock, no other process
\* removes or replaces it.
HeldLockKept ==
    [][\A c \in Cores : lock = c /\ Holds(c) => lock' = c \/ cut']_vars

\* main.py:169: a Core whose runtime.json a window removed is found again.
RuntimeRestored ==
    \A c \in Cores : core[c] = "serving" ~> (runtime = c \/ core[c] # "serving" \/ cut)
=============================================================================
