------------------------------- MODULE MCRWLock -------------------------------
(***************************************************************************)
(* Four processes, each of them a reader or a writer call after call.      *)
(***************************************************************************)
EXTENDS RWLock
=============================================================================
