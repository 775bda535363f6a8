-------------------------------- MODULE Fifo --------------------------------
(***************************************************************************)
(* What a pipe promises to its users: a bounded queue of bytes that keeps  *)
(* their order, loses none and adds none while anybody can still read or   *)
(* write it, and is empty when it is made.  Pipe.tla is the code.          *)
(***************************************************************************)
EXTENDS Integers, Sequences

CONSTANTS Data,      \* what a byte may be
          Capacity   \* bytes the pipe holds

VARIABLES chan,      \* the bytes in the pipe, oldest first
          out,       \* the bytes a read has just returned
          users      \* the processes with a descriptor for an end of the pipe

vars == <<chan, out, users>>

Init == chan = <<>> /\ out = <<>> /\ users = {}

\* A write, or the part of it for which there is room.
Send == \E n \in 1 .. Capacity - Len(chan) : \E s \in [1 .. n -> Data] :
           /\ chan' = chan \o s
           /\ out' = <<>>
           /\ UNCHANGED users

\* A read: the oldest bytes, in their order.
Receive == \E n \in 0 .. Len(chan) :
              /\ out' = SubSeq(chan, 1, n)
              /\ chan' = SubSeq(chan, n + 1, Len(chan))
              /\ UNCHANGED users

\* The pipe disappears, or a new one is made, when nobody has it open.
Reset == /\ users = {}
         /\ chan' = <<>>
         /\ out' = <<>>
         /\ UNCHANGED users

\* Descriptors come and go; the pipe keeps its bytes as long as there is one.
Share == /\ users' # users
         /\ out' = <<>>
         /\ UNCHANGED chan

\* Anything else a process does.
Other == /\ out' = <<>>
         /\ UNCHANGED <<chan, users>>

Next == Send \/ Receive \/ Reset \/ Share \/ Other

Spec == Init /\ [][Next]_vars
=============================================================================
