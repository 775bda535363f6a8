------------------------------ MODULE Semaphore ------------------------------
(***************************************************************************)
(* The counting semaphore of LAB4/rwlock.c on top of the kernel's spin     *)
(* locks and sleep/wakeup (spinlock.c, proc.c), one atomic step per lock   *)
(* operation.  A semaphore is an int and a spin lock s->lock; a caller that*)
(* finds no unit sleeps on the address of the semaphore, and a signal wakes*)
(* every sleeper, each of which tests the value again.  What could go      *)
(* wrong is a wakeup that runs between a caller's test and its going to    *)
(* sleep; sleep() takes ptable.lock before it gives s->lock up.            *)
(***************************************************************************)
EXTENDS Integers

CONSTANTS Proc,       \* the processes (kernel threads) using the semaphore
          None,       \* nobody holds the lock
          InitValue,  \* the argument of sem_init
          MaxValue    \* bound: a signal is started only below this value

ASSUME SemAssumption == /\ None \notin Proc
                        /\ InitValue \in Nat
                        /\ MaxValue \in Nat

VARIABLES value,      \* s->value
          slock,      \* holder of s->lock
          plock,      \* holder of ptable.lock
          state,      \* p->state of a process: is it asleep on chan s?
          pc          \* the next statement of each process

vars == <<value, slock, plock, state, pc>>

Labels == {"idle",
           "wait", "test", "sleep", "sched", "asleep", "reacquire", "take",
           "signal", "give", "wakeup", "unlock"}

TypeOK == /\ value \in Int
          /\ slock \in Proc \cup {None}
          /\ plock \in Proc \cup {None}
          /\ state \in [Proc -> {"RUNNABLE", "SLEEPING"}]
          /\ pc \in [Proc -> Labels]

Init == /\ value = InitValue
        /\ slock = None
        /\ plock = None
        /\ state = [p \in Proc |-> "RUNNABLE"]
        /\ pc = [p \in Proc |-> "idle"]

Goto(p, l) == pc' = [pc EXCEPT ![p] = l]

(***************************************************************************)
(* sem_wait(s), with sleep(s, &s->lock) inlined.                           *)
(***************************************************************************)
\* The process calls sem_wait.
CallWait(p) == /\ pc[p] = "idle"
               /\ Goto(p, "wait")
               /\ UNCHANGED <<value, slock, plock, state>>

\* acquire(&s->lock): spins while somebody holds it.
WaitAcquire(p) == /\ pc[p] = "wait"
                  /\ slock = None
                  /\ slock' = p
                  /\ Goto(p, "test")
                  /\ UNCHANGED <<value, plock, state>>

\* Mutant of WaitTest: s->lock is released before sleep() is called.
WaitTestReleases(p) == /\ pc[p] = "test"
                       /\ Goto(p, IF value <= 0 THEN "sleep" ELSE "take")
                       /\ slock' = IF value <= 0 THEN None ELSE slock
                       /\ UNCHANGED <<value, plock, state>>

\* while(s->value <= 0): no unit, call sleep; a unit, leave the loop.
WaitTest(p) == /\ pc[p] = "test"
               /\ Goto(p, IF value <= 0 THEN "sleep" ELSE "take")
               /\ UNCHANGED <<value, slock, plock, state>>

\* sleep(): acquire(&ptable.lock), and only then release(lk).
SleepAcquire(p) == /\ pc[p] = "sleep"
                   /\ plock = None
                   /\ plock' = p
                   /\ slock' = None
                   /\ Goto(p, "sched")
                   /\ UNCHANGED <<value, state>>

\* p->chan = chan; p->state = SLEEPING; sched(): the scheduler of this CPU
\* releases ptable.lock.
SleepSched(p) == /\ pc[p] = "sched"
                 /\ state' = [state EXCEPT ![p] = "SLEEPING"]
                 /\ plock' = None
                 /\ Goto(p, "asleep")
                 /\ UNCHANGED <<value, slock>>

\* Mutant of SleepReturn: sleep() returns without acquiring lk again.
SleepReturnUnlocked(p) == /\ pc[p] = "asleep"
                          /\ state[p] = "RUNNABLE"
                          /\ plock = None
                          /\ Goto(p, "test")
                          /\ UNCHANGED <<value, slock, plock, state>>

\* The scheduler, holding ptable.lock, runs the process again; sleep() tidies
\* up, releases ptable.lock, and is about to acquire lk.
SleepReturn(p) == /\ pc[p] = "asleep"
                  /\ state[p] = "RUNNABLE"
                  /\ plock = None
                  /\ Goto(p, "reacquire")
                  /\ UNCHANGED <<value, slock, plock, state>>

\* Mutant of SleepReacquire: if(s->value <= 0) sleep(...), the test not repeated.
SleepReacquireOnce(p) == /\ pc[p] = "reacquire"
                         /\ slock = None
                         /\ slock' = p
                         /\ Goto(p, "take")
                         /\ UNCHANGED <<value, plock, state>>

\* acquire(lk) at the end of sleep(), back to the loop's test.
SleepReacquire(p) == /\ pc[p] = "reacquire"
                     /\ slock = None
                     /\ slock' = p
                     /\ Goto(p, "test")
                     /\ UNCHANGED <<value, plock, state>>

\* s->value--; release(&s->lock).
WaitTake(p) == /\ pc[p] = "take"
               /\ value' = value - 1
               /\ slock' = None
               /\ Goto(p, "idle")
               /\ UNCHANGED <<plock, state>>

(***************************************************************************)
(* sem_signal(s), with wakeup(s) inlined.                                  *)
(***************************************************************************)
\* The process calls sem_signal.  The number of signals in flight is bounded
\* only through the value each of them finds.
CallSignal(p) == /\ pc[p] = "idle"
                 /\ value < MaxValue
                 /\ Goto(p, "signal")
                 /\ UNCHANGED <<value, slock, plock, state>>

SignalAcquire(p) == /\ pc[p] = "signal"
                    /\ slock = None
                    /\ slock' = p
                    /\ Goto(p, "give")
                    /\ UNCHANGED <<value, plock, state>>

SignalGive(p) == /\ pc[p] = "give"
                 /\ value' = value + 1
                 /\ Goto(p, "wakeup")
                 /\ UNCHANGED <<slock, plock, state>>

\* Mutant of SignalWakeup: wakeup() on another channel.
SignalWakeupOther(p) == /\ pc[p] = "wakeup"
                        /\ plock = None
                        /\ Goto(p, "unlock")
                        /\ UNCHANGED <<value, slock, plock, state>>

\* wakeup(s): acquire(&ptable.lock); every process asleep on s is RUNNABLE;
\* release(&ptable.lock).
SignalWakeup(p) == /\ pc[p] = "wakeup"
                   /\ plock = None
                   /\ state' = [q \in Proc |-> "RUNNABLE"]
                   /\ Goto(p, "unlock")
                   /\ UNCHANGED <<value, slock, plock>>

SignalRelease(p) == /\ pc[p] = "unlock"
                    /\ slock' = None
                    /\ Goto(p, "idle")
                    /\ UNCHANGED <<value, plock, state>>

\* Mutant of Kill: the victim is made a ZOMBIE where it sleeps.
KillReaps(p) == /\ plock = None
                /\ state[p] = "SLEEPING"
                /\ state' = [state EXCEPT ![p] = "ZOMBIE"]
                /\ UNCHANGED <<value, slock, plock, pc>>

\* kill(pid) from anywhere in the system, under ptable.lock: a sleeping victim
\* is made RUNNABLE, with no signal.  sem_wait does not look at p->killed.
Kill(p) == /\ plock = None
           /\ state[p] = "SLEEPING"
           /\ state' = [state EXCEPT ![p] = "RUNNABLE"]
           /\ UNCHANGED <<value, slock, plock, pc>>

-----------------------------------------------------------------------------
\* A statement of sem_wait or sem_signal.
Step(p) == \/ WaitAcquire(p)   \/ WaitTest(p)       \/ WaitTake(p)
           \/ SleepAcquire(p)  \/ SleepSched(p)
           \/ SleepReturn(p)   \/ SleepReacquire(p)
           \/ SignalAcquire(p) \/ SignalGive(p)
           \/ SignalWakeup(p)  \/ SignalRelease(p)

Next == \E p \in Proc : Step(p) \/ CallWait(p) \/ CallSignal(p) \/ Kill(p)

\* A call, once started, is executed (every process that can run is given the
\* CPU again and again, see Proc.tla); nobody has to call anything.
Fairness == \A p \in Proc : WF_vars(Step(p))

SafeSpec == Init /\ [][Next]_vars
Spec == SafeSpec /\ Fairness

-----------------------------------------------------------------------------
\* Where a process holds s->lock.
InCritical(p) == pc[p] \in {"test", "sleep", "take", "give", "wakeup", "unlock"}

\* s->lock is held by the process whose statements need it: the value is only
\* read and written by its holder, and no path of sleep() or sem_signal loses
\* or doubles the lock (LAB4/rwlock.c:17-22, :26-29, LAB4/proc.c:434-451).
LockExclusion == \A p \in Proc : InCritical(p) <=> slock = p

\* Where a process is on its way into sleep, or asleep, with its test of the
\* value behind it.
Committed(p) == pc[p] = "sched" \/ (pc[p] = "asleep" /\ state[p] = "SLEEPING")

\* No wakeup is lost: if there is a unit and a process is asleep (or past the
\* point of no return), then a signal that has not called wakeup yet is on its
\* way (LAB4/rwlock.c:18-20 with the order of LAB4/proc.c:435-436).
NoLostWakeup ==
  (value > 0 /\ \E p \in Proc : Committed(p)) => \E q \in Proc : pc[q] = "wakeup"

\* The semaphore never goes below zero: the unit a caller saw in its test is
\* still there when it takes it, whoever else was woken (LAB4/rwlock.c:18-21).
NeverNegative == value >= 0

\* The inductive invariant: what the properties above need of each other, the
\* holder of ptable.lock, and what a process knows of the value after its test.
PtableExclusion == \A p \in Proc : pc[p] = "sched" <=> plock = p
SleepersAsleep == \A p \in Proc : state[p] = "SLEEPING" => pc[p] = "asleep"
TestStillTrue == \A p \in Proc : /\ pc[p] = "take" => value > 0
                                 /\ pc[p] = "sleep" => value <= 0

IInv == /\ TypeOK
        /\ LockExclusion
        /\ PtableExclusion
        /\ SleepersAsleep
        /\ TestStillTrue
        /\ NeverNegative
        /\ NoLostWakeup

-----------------------------------------------------------------------------
\* Callers inside sem_wait.
Waiting == {p \in Proc : pc[p] \in {"wait", "test", "sleep", "sched", "asleep",
                                    "reacquire", "take"}}

CS == INSTANCE CountingSemaphore WITH waiting <- Waiting

\* The code implements the abstract counting semaphore, its progress included:
\* while there are units, some waiting caller gets one (LAB4/rwlock.c:16-30).
ImplementsSemaphore == CS!Spec
=============================================================================
