-------------------------- MODULE CountingSemaphore --------------------------
(***************************************************************************)
(* What the semaphore of LAB4/rwlock.c promises to its callers: sem_wait   *)
(* takes one unit of a counter that is never negative, sem_signal adds one,*)
(* each at one instant, and as long as there are units and callers waiting *)
(* for one, somebody gets one.  Semaphore.tla is the code; it implements   *)
(* this module.                                                            *)
(***************************************************************************)
EXTENDS Integers

CONSTANTS Proc,       \* the processes that use the semaphore
          InitValue,  \* the argument of sem_init
          MaxValue    \* bound: no caller signals beyond this value

VARIABLES value,      \* units available
          waiting     \* callers inside sem_wait that have not got their unit

vars == <<value, waiting>>

Init == /\ value = InitValue
        /\ waiting = {}

\* A process calls sem_wait.
Call(p) == /\ p \notin waiting
           /\ waiting' = waiting \cup {p}
           /\ UNCHANGED value

\* A waiting process takes one unit.
Take(p) == /\ p \in waiting
           /\ value > 0
           /\ value' = value - 1
           /\ waiting' = waiting \ {p}

\* A process that is not waiting adds one unit.
Give(p) == /\ p \notin waiting
           /\ value' = value + 1
           /\ UNCHANGED waiting

Next == \E p \in Proc : Call(p) \/ Take(p) \/ Give(p)

SafeSpec == Init /\ [][Next]_vars

\* Units never lie idle while somebody waits: some caller is served.  Which
\* one is left open, and starvation of one caller by the others is allowed.
Fairness == WF_vars(\E p \in Proc : Take(p))

Spec == SafeSpec /\ Fairness
=============================================================================
