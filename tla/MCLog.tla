-------------------------------- MODULE MCLog --------------------------------
(***************************************************************************)
(* Two calls of at most two blocks each, three blocks, two contents: calls *)
(* share blocks, one waits for space, a transaction has up to three blocks *)
(* and a crash may fall between any two of its writes.                     *)
(***************************************************************************)
EXTENDS Log, TLC

Symmetry == Permutations(Proc)
=============================================================================
