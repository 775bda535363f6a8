----------------------------- MODULE AtomicDisk -----------------------------
(***************************************************************************)
(* What LAB4/log.c promises to the file system calls between begin_op and  *)
(* end_op: the disk moves, in one step, from one state in which no call is *)
(* in progress to a later one, and a crash brings back the last of these.  *)
(* Log.tla is the code; it implements this module.                         *)
(***************************************************************************)
CONSTANTS Block,   \* the blocks of the file system
          Data,    \* what a block may contain
          Proc,    \* the processes that make file system calls
          Zero     \* the contents mkfs gives the blocks

VARIABLES stable,  \* what a crash now would leave
          current, \* what the system calls see
          active   \* the calls in progress

vars == <<stable, current, active>>

Init == /\ stable = [b \in Block |-> Zero]
        /\ current = [b \in Block |-> Zero]
        /\ active = {}

Begin(p) == /\ p \notin active
            /\ active' = active \cup {p}
            /\ UNCHANGED <<stable, current>>

Write(p, b, d) == /\ p \in active
                  /\ current' = [current EXCEPT ![b] = d]
                  /\ UNCHANGED <<stable, active>>

End(p) == /\ p \in active
          /\ active' = active \ {p}
          /\ UNCHANGED <<stable, current>>

\* All finished calls become durable together, when none is in progress.
Commit == /\ active = {}
          /\ stable' = current
          /\ UNCHANGED <<current, active>>

Crash == /\ current' = stable
         /\ active' = {}
         /\ UNCHANGED stable

Next == \/ \E p \in Proc : \/ Begin(p)
                           \/ End(p)
                           \/ \E b \in Block, d \in Data : Write(p, b, d)
        \/ Commit
        \/ Crash

Spec == Init /\ [][Next]_vars
=============================================================================
