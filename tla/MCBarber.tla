------------------------------- MODULE MCBarber -------------------------------
(***************************************************************************)
(* Five customers for two chairs: the shop is full, and customers come in  *)
(* while the barber sleeps, tests, and cuts.                               *)
(***************************************************************************)
EXTENDS Barber, TLC

Symmetry == Permutations(Customer)
=============================================================================
