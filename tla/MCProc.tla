------------------------------- MODULE MCProc -------------------------------
(***************************************************************************)
(* Init and two more slots: a parent and a child below init, the least     *)
(* family in which a process can be orphaned.                              *)
(***************************************************************************)
EXTENDS Proc
=============================================================================
