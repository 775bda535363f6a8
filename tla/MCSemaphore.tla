----------------------------- MODULE MCSemaphore -----------------------------
(***************************************************************************)
(* Four callers, one unit at first and at most two: two sleepers compete   *)
(* for one unit while a third caller takes it and a fourth signals.        *)
(***************************************************************************)
EXTENDS Semaphore
=============================================================================
