----------------------------- MODULE BlockStore -----------------------------
(***************************************************************************)
(* What the buffer cache promises to its callers (the comment at the head  *)
(* of LAB4/bio.c): one process at a time uses a block, and it finds there  *)
(* what the last one left, whatever was cached, recycled or written back   *)
(* in between.  Bcache.tla is the code; it implements this module.         *)
(***************************************************************************)
CONSTANTS Proc,    \* the processes
          Block,   \* the blocks of the disk
          Data,    \* what a block may contain
          Zero     \* the contents of a fresh disk

VARIABLES content, \* what a process that gets the block finds in it
          users    \* the processes between bread and brelse of the block

vars == <<content, users>>

Init == /\ content = [k \in Block |-> Zero]
        /\ users = [k \in Block |-> {}]

\* bread returns: the block is p's alone.
Get(p, k) == /\ users[k] = {}
             /\ users' = [users EXCEPT ![k] = {p}]
             /\ UNCHANGED content

Change(p, k, d) == /\ users[k] = {p}
                   /\ content' = [content EXCEPT ![k] = d]
                   /\ UNCHANGED users

\* brelse.
Put(p, k) == /\ users[k] = {p}
             /\ users' = [users EXCEPT ![k] = {}]
             /\ UNCHANGED content

Next == \E p \in Proc, k \in Block : \/ Get(p, k)
                                     \/ Put(p, k)
                                     \/ \E d \in Data : Change(p, k, d)

Spec == Init /\ [][Next]_vars
=============================================================================
