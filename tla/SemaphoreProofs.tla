--------------------------- MODULE SemaphoreProofs ---------------------------
(***************************************************************************)
(* Theorems about the semaphore of LAB4/rwlock.c, for any set of processes *)
(* and any initial value: IInv is inductive, it implies that no wakeup is  *)
(* lost and that the value is never negative, and every step of the code is*)
(* a step of the abstract CountingSemaphore or leaves it unchanged.        *)
(***************************************************************************)
EXTENDS Semaphore, TLAPS

\* The initial state satisfies the inductive invariant: sem_init leaves the
\* lock free and nobody asleep (LAB4/rwlock.c:11-14).
LEMMA InitIInv == Init => IInv
BY SemAssumption
   DEF Init, IInv, TypeOK, Labels, LockExclusion, InCritical, PtableExclusion,
       SleepersAsleep, TestStillTrue, NeverNegative, NoLostWakeup, Committed

\* Every statement of sem_wait, of sem_signal and of kill preserves the
\* inductive invariant (LAB4/rwlock.c:16-30, LAB4/proc.c:418-474).
LEMMA NextIInv == IInv /\ [Next]_vars => IInv'
<1> SUFFICES ASSUME IInv, [Next]_vars
             PROVE  IInv'
  OBVIOUS
<1> USE SemAssumption DEF IInv, TypeOK, Labels, LockExclusion, InCritical,
        PtableExclusion, SleepersAsleep, TestStillTrue, NeverNegative, Goto
<1>1. ASSUME NEW p \in Proc, CallWait(p) PROVE IInv'
  BY <1>1 DEF CallWait, NoLostWakeup, Committed
<1>2. ASSUME NEW p \in Proc, WaitAcquire(p) PROVE IInv'
  BY <1>2 DEF WaitAcquire, NoLostWakeup, Committed
<1>3. ASSUME NEW p \in Proc, WaitTest(p) PROVE IInv'
  BY <1>3 DEF WaitTest, NoLostWakeup, Committed
<1>4. ASSUME NEW p \in Proc, SleepAcquire(p) PROVE IInv'
  BY <1>4 DEF SleepAcquire, NoLostWakeup, Committed
<1>5. ASSUME NEW p \in Proc, SleepSched(p) PROVE IInv'
  BY <1>5 DEF SleepSched, NoLostWakeup, Committed
<1>6. ASSUME NEW p \in Proc, SleepReturn(p) PROVE IInv'
  BY <1>6 DEF SleepReturn, NoLostWakeup, Committed
<1>7. ASSUME NEW p \in Proc, SleepReacquire(p) PROVE IInv'
  BY <1>7 DEF SleepReacquire, NoLostWakeup, Committed
<1>8. ASSUME NEW p \in Proc, WaitTake(p) PROVE IInv'
  BY <1>8 DEF WaitTake, NoLostWakeup, Committed
<1>9. ASSUME NEW p \in Proc, CallSignal(p) PROVE IInv'
  BY <1>9 DEF CallSignal, NoLostWakeup, Committed
<1>10. ASSUME NEW p \in Proc, SignalAcquire(p) PROVE IInv'
  BY <1>10 DEF SignalAcquire, NoLostWakeup, Committed
<1>11. ASSUME NEW p \in Proc, SignalGive(p) PROVE IInv'
  BY <1>11 DEF SignalGive, NoLostWakeup, Committed
<1>12. ASSUME NEW p \in Proc, SignalWakeup(p) PROVE IInv'
  BY <1>12 DEF SignalWakeup, NoLostWakeup, Committed
<1>13. ASSUME NEW p \in Proc, SignalRelease(p) PROVE IInv'
  BY <1>13 DEF SignalRelease, NoLostWakeup, Committed
<1>14. ASSUME NEW p \in Proc, Kill(p) PROVE IInv'
  BY <1>14 DEF Kill, NoLostWakeup, Committed
<1>15. CASE UNCHANGED vars
  BY <1>15 DEF vars, NoLostWakeup, Committed
<1> QED
  BY <1>1, <1>2, <1>3, <1>4, <1>5, <1>6, <1>7, <1>8, <1>9, <1>10, <1>11,
     <1>12, <1>13, <1>14, <1>15 DEF Next, Step

\* The inductive invariant holds in every reachable state.
THEOREM SemaphoreInvariant == SafeSpec => []IInv
BY InitIInv, NextIInv, PTL DEF SafeSpec

\* The value is an integer and the locks have one holder or none, always.
THEOREM SemaphoreType == SafeSpec => []TypeOK
<1>1. IInv => TypeOK
  BY DEF IInv
<1> QED
  BY <1>1, SemaphoreInvariant, PTL

\* s->lock protects the value: who executes the statements between its acquire
\* and its release is its one holder, across the hand-over inside sleep().
THEOREM SemaphoreExclusion == SafeSpec => []LockExclusion
<1>1. IInv => LockExclusion
  BY DEF IInv
<1> QED
  BY <1>1, SemaphoreInvariant, PTL

\* No wakeup is lost, for any number of callers (LAB4/rwlock.c:18-28,
\* LAB4/proc.c:428-436).
THEOREM SemaphoreNoLostWakeup == SafeSpec => []NoLostWakeup
<1>1. IInv => NoLostWakeup
  BY DEF IInv
<1> QED
  BY <1>1, SemaphoreInvariant, PTL

\* The value never goes below zero.
THEOREM SemaphoreNeverNegative == SafeSpec => []NeverNegative
<1>1. IInv => NeverNegative
  BY DEF IInv
<1> QED
  BY <1>1, SemaphoreInvariant, PTL

-----------------------------------------------------------------------------
\* Each statement of the code is a step of the abstract semaphore or a stutter:
\* sem_wait starts at its call and takes its unit at s->value--, sem_signal
\* gives its unit at s->value++.
LEMMA StepRefines == IInv /\ [Next]_vars => [CS!Next]_(CS!vars)
<1> SUFFICES ASSUME IInv, [Next]_vars
             PROVE  [CS!Next]_(CS!vars)
  OBVIOUS
<1> USE DEF IInv, TypeOK, Labels, Goto, Waiting, CS!vars
<1>1. ASSUME NEW p \in Proc, CallWait(p) PROVE CS!Call(p)
  BY <1>1 DEF CallWait, CS!Call
<1>2. ASSUME NEW p \in Proc, WaitTake(p) PROVE CS!Take(p)
  BY <1>2 DEF WaitTake, CS!Take, TestStillTrue
<1>3. ASSUME NEW p \in Proc, SignalGive(p) PROVE CS!Give(p)
  BY <1>3 DEF SignalGive, CS!Give
<1>4. ASSUME NEW p \in Proc,
             \/ WaitAcquire(p)  \/ WaitTest(p)    \/ SleepAcquire(p)
             \/ SleepSched(p)   \/ SleepReturn(p) \/ SleepReacquire(p)
      PROVE  UNCHANGED CS!vars
  BY <1>4 DEF WaitAcquire, WaitTest, SleepAcquire, SleepSched, SleepReturn,
              SleepReacquire
<1>5. ASSUME NEW p \in Proc,
             \/ CallSignal(p)   \/ SignalAcquire(p) \/ SignalWakeup(p)
             \/ SignalRelease(p) \/ Kill(p)
      PROVE  UNCHANGED CS!vars
  BY <1>5 DEF CallSignal, SignalAcquire, SignalWakeup, SignalRelease, Kill
<1>6. CASE UNCHANGED vars
  BY <1>6 DEF vars
<1> QED
  BY <1>1, <1>2, <1>3, <1>4, <1>5, <1>6 DEF Next, Step, CS!Next

\* The code implements the safety part of the abstract counting semaphore.
THEOREM SemaphoreRefines == SafeSpec => CS!SafeSpec
<1>1. Init => CS!Init
  BY DEF Init, CS!Init, Waiting
<1> QED
  BY <1>1, StepRefines, SemaphoreInvariant, PTL DEF SafeSpec, CS!SafeSpec
=============================================================================
