----------------------------- MODULE ProcProofs -----------------------------
(***************************************************************************)
(* Theorems about the process table and the schedulers of Proc.tla, for any*)
(* number of slots, CPUs and pids: IInv is inductive, so every run keeps   *)
(* type correctness, StackOwned, LockHandedBack, ParentAlive,              *)
(* WaiterHasReason and UniquePids.  One lemma per conjunct of IInv, one    *)
(* step per action in each.                                                *)
(***************************************************************************)
EXTENDS Proc, TLAPS

\* What the steps have in common that only move one thread between places where
\* it holds no lock of the table.
Quiet(c, p) ==
  /\ Runs(c, p)
  /\ pc[p] \in {"user", "syscall", "trapret", "sleepcheck", "sleepreacquire"}
  /\ pc' \in [Slot -> Labels]
  /\ \A s \in Slot : s # p => pc'[s] = pc[s]
  /\ pc'[p] \in {"user", "syscall", "trapret", "exit", "sleepcheck", "sleepgo"}
  /\ pc'[p] = "exit" => p # initproc
  /\ killed' \in [Slot -> BOOLEAN]
  /\ \A s \in Slot : s # p => killed'[s] = killed[s]
  /\ tickslock' \in Slot \cup {None}
  /\ panicked' \in BOOLEAN
  /\ UNCHANGED <<state, pid, parent, chan, nextpid, context, np, shell, sched>>

QuietAction(c, p) ==
  \/ TrapKilled(c, p) \/ TrapSyscall(c, p) \/ TrapReturn(c, p) \/ UserFault(c, p)
  \/ ForkNoSlot(c, p) \/ SysExit(c, p)    \/ SysSleep(c, p)
  \/ SleepDone(c, p)  \/ SleepMore(c, p)  \/ SleepReacquire(c, p)

\* These are they.
LEMMA QuietSteps ==
  ASSUME TypeOK, NEW c \in CPU, NEW p \in Slot, QuietAction(c, p)
  PROVE  Quiet(c, p)
<1> USE ProcAssumption
    DEF TypeOK, Labels, Quiet, Runs, Syscall, Goto, table, sched
<1>1. ASSUME CallExit(p)
      PROVE  /\ pc' \in [Slot -> Labels] /\ panicked' \in BOOLEAN
             /\ \A s \in Slot : s # p => pc'[s] = pc[s]
             /\ pc'[p] \in {pc[p], "exit"}
             /\ pc'[p] = "exit" /\ pc[p] # "exit" => p # initproc
  BY <1>1 DEF CallExit
<1>2. CASE TrapKilled(c, p)
  <2>1. pc[p] = "user" /\ CallExit(p)
    BY <1>2 DEF TrapKilled
  <2> QED
    BY <1>2, <2>1, <1>1 DEF TrapKilled
<1>3. CASE TrapSyscall(c, p)
  BY <1>3 DEF TrapSyscall
<1>4. CASE TrapReturn(c, p)
  <2>1. CASE killed[p]
    <3>1. pc[p] = "trapret" /\ CallExit(p)
      BY <1>4, <2>1 DEF TrapReturn
    <3> QED
      BY <1>4, <3>1, <1>1 DEF TrapReturn
  <2>2. CASE ~killed[p]
    BY <1>4, <2>2 DEF TrapReturn
  <2> QED
    BY <2>1, <2>2
<1>5. CASE UserFault(c, p)
  <2>1. pc[p] = "user" /\ CallExit(p)
    BY <1>5 DEF UserFault
  <2> QED
    BY <1>5, <2>1, <1>1 DEF UserFault
<1>6. CASE ForkNoSlot(c, p)
  BY <1>6 DEF ForkNoSlot, ForkReturnsError
<1>7. CASE SysExit(c, p)
  <2>1. pc[p] = "syscall" /\ CallExit(p)
    BY <1>7 DEF SysExit
  <2> QED
    BY <1>7, <2>1, <1>1 DEF SysExit
<1>8. CASE SysSleep(c, p)
  BY <1>8 DEF SysSleep
<1>9. CASE SleepDone(c, p) \/ SleepMore(c, p)
  BY <1>9 DEF SleepDone, SleepMore
<1>10. CASE SleepReacquire(c, p)
  BY <1>10 DEF SleepReacquire
<1> QED
  BY <1>2, <1>3, <1>4, <1>5, <1>6, <1>7, <1>8, <1>9, <1>10 DEF QuietAction

\* What exit() does under ptable.lock.
ExitEffect(c, p) ==
  /\ Runs(c, p)
  /\ pc[p] = "exit"
  /\ holder = None
  /\ holder' = c
  /\ context' = [context EXCEPT ![p] = "exit"]
  /\ parent' = [s \in Slot |-> IF parent[s] = p THEN initproc ELSE parent[s]]
  /\ state' \in [Slot -> States]
  /\ state'[p] = "ZOMBIE"
  /\ \A s \in Slot : s # p =>
       \/ state'[s] = state[s]
       \/ state[s] = "SLEEPING" /\ state'[s] = "RUNNABLE"
  /\ \A s \in Slot : state'[s] = "SLEEPING" =>
       /\ chan[s] # parent[p]
       /\ (\E k \in Slot : parent[k] = p /\ state[k] = "ZOMBIE")
            => chan[s] # initproc
  /\ UNCHANGED <<pid, killed, chan, nextpid, pc, np, shell, cpu, scan, tickslock,
                 panicked>>

\* exit() does that (LAB4/proc.c:250-266).
LEMMA ExitStep ==
  ASSUME TypeOK, NEW c \in CPU, NEW p \in Slot, Exit(c, p)
  PROVE  ExitEffect(c, p)
BY ProcAssumption
   DEF TypeOK, States, Exit, ExitEffect, GiveUp, Woken, Slot, initproc, Runs

\* A CPU that does not hold ptable.lock is on the stack of a process that is
\* RUNNING and outside of the calls that give the CPU up.
LEMMA Unlocked ==
  ASSUME IInv, NEW d \in CPU, holder # d, cpu[d] # None
  PROVE  /\ cpu[d] \in Slot
         /\ state[cpu[d]] = "RUNNING"
         /\ context[cpu[d]] = "none"
         /\ pc[cpu[d]] # "waitscan"
BY DEF IInv, TypeOK, StackOwned, CpuOK, LockHandedBack

\* wait scans the table with the lock held.
LEMMA Scanning ==
  ASSUME IInv, NEW c \in CPU, NEW p \in Slot, Runs(c, p), pc[p] = "waitscan"
  PROVE  holder = c
BY ProcAssumption DEF IInv, Runs, LockHandedBack, Slot

\* What wait() does to the zombie it reaps: no CPU is on its stack.
ReapEffect(c, p, k) ==
  /\ Runs(c, p)
  /\ pc[p] = "waitscan"
  /\ holder = c
  /\ holder' = None
  /\ parent[k] = p
  /\ state[k] = "ZOMBIE"
  /\ k # p
  /\ k # initproc
  /\ \A d \in CPU : cpu[d] # k
  /\ pid' = [pid EXCEPT ![k] = 0]
  /\ parent' = [parent EXCEPT ![k] = None]
  /\ killed' = [killed EXCEPT ![k] = FALSE]
  /\ state' = [state EXCEPT ![k] = "UNUSED"]
  /\ shell' \in {shell, 0}
  /\ pc' = [pc EXCEPT ![p] = "trapret"]
  /\ UNCHANGED <<chan, nextpid, context, np, cpu, scan, tickslock, panicked>>

\* wait() does that to one child (LAB4/proc.c:287-299).
LEMMA ReapStep ==
  ASSUME IInv, NEW c \in CPU, NEW p \in Slot, WaitReap(c, p)
  PROVE  \E k \in Slot : ReapEffect(c, p, k)
<1>1. holder = c
  BY Scanning DEF WaitReap
<1>2. PICK k \in ZombieChildren(p) :
        /\ pid' = [pid EXCEPT ![k] = 0]
        /\ parent' = [parent EXCEPT ![k] = None]
        /\ killed' = [killed EXCEPT ![k] = FALSE]
        /\ state' = [state EXCEPT ![k] = "UNUSED"]
        /\ shell' = IF p = initproc /\ pid[k] = shell THEN 0 ELSE shell
  BY DEF WaitReap
<1>3. k \in Slot /\ parent[k] = p /\ state[k] = "ZOMBIE"
  BY <1>2 DEF ZombieChildren, Children
<1>4. k # p /\ k # initproc
  BY <1>3 DEF WaitReap, Runs, IInv, FamilyOK, Live
<1>5. ASSUME NEW d \in CPU, cpu[d] = k PROVE FALSE
  BY <1>1, <1>3, <1>4, <1>5, Unlocked, ProcAssumption DEF WaitReap, Runs, Slot
<1> QED
  BY <1>1, <1>2, <1>3, <1>4, <1>5 DEF ReapEffect, WaitReap, Goto

\* What the allocproc() of a fork does to the slot it takes.
AllocEffect(c, p, s) ==
  /\ Runs(c, p)
  /\ pc[p] = "syscall"
  /\ np[p] = None
  /\ state[s] = "UNUSED"
  /\ parent[s] = None
  /\ np[s] = None
  /\ s # p
  /\ \A d \in CPU : cpu[d] # s
  /\ \A q \in Slot : np[q] # s
  /\ nextpid <= MaxPid
  /\ state' = [state EXCEPT ![s] = "EMBRYO"]
  /\ pid' = [pid EXCEPT ![s] = nextpid]
  /\ np' = [np EXCEPT ![p] = s]
  /\ context' = [context EXCEPT ![s] = "forkret"]
  /\ pc' = [pc EXCEPT ![p] = "forkcopy"]
  /\ nextpid' = nextpid + 1
  /\ UNCHANGED <<parent, killed, chan, shell, sched, tickslock, panicked>>

\* allocproc() does that to one slot (LAB4/proc.c:79-92).
LEMMA AllocStep ==
  ASSUME IInv, NEW c \in CPU, NEW p \in Slot, ForkAlloc(c, p)
  PROVE  \E s \in Slot : AllocEffect(c, p, s)
<1> USE DEF IInv
<1>1. PICK s \in Slot : /\ state[s] = "UNUSED"
                        /\ state' = [state EXCEPT ![s] = "EMBRYO"]
                        /\ pid' = [pid EXCEPT ![s] = nextpid]
                        /\ np' = [np EXCEPT ![p] = s]
                        /\ context' = [context EXCEPT ![s] = "forkret"]
  BY DEF ForkAlloc
<1>2. Runs(c, p) /\ pc[p] = "syscall" /\ s # p
  BY <1>1 DEF ForkAlloc, Syscall, Runs
<1>3. np[p] = None /\ np[s] = None /\ parent[s] = None
  BY <1>1, <1>2 DEF ForkOK, Live
<1>4. \A d \in CPU : cpu[d] # s
  BY <1>1, ProcAssumption DEF CpuOK, Slot
<1>5. \A q \in Slot : np[q] # s
  BY <1>1, ProcAssumption DEF ForkOK, Slot
<1> QED
  BY <1>1, <1>2, <1>3, <1>4, <1>5 DEF AllocEffect, ForkAlloc, Goto

\* The slot a fork is filling in.
LEMMA Filling ==
  ASSUME IInv, NEW p \in Slot, pc[p] \in {"forkcopy", "forkready"},
         state[p] = "RUNNING"
  PROVE  /\ np[p] \in Slot
         /\ np[p] # p
         /\ state[np[p]] = "EMBRYO"
         /\ context[np[p]] = "forkret"
         /\ np[np[p]] = None
         /\ parent[np[p]] = IF pc[p] = "forkready" THEN p ELSE None
         /\ \A d \in CPU : cpu[d] # np[p]
         /\ \A q \in Slot : q # p => np[q] # np[p]
<1> USE ProcAssumption DEF IInv
<1>1. np[p] # None /\ np[p] \in Slot /\ state[np[p]] = "EMBRYO" /\ np[p] # p
  BY DEF ForkOK, TypeOK
<1>2. context[np[p]] = "forkret"
  BY <1>1 DEF ContextOK
<1>3. np[np[p]] = None
  BY <1>1 DEF ForkOK, Live
<1>4. \A d \in CPU : cpu[d] # np[p]
  BY <1>1 DEF CpuOK
<1> QED
  BY <1>1, <1>2, <1>3, <1>4 DEF ForkOK

-----------------------------------------------------------------------------
\* Every statement keeps every field of the table, every thread and every CPU
\* within its type (LAB4/proc.h:37-52).
LEMMA TypeOKStep == IInv /\ [Next]_vars => TypeOK'
<1> SUFFICES ASSUME IInv, [Next]_vars
             PROVE  TypeOK'
  OBVIOUS
<1> USE ProcAssumption DEF Slot, initproc, Preemptible, States, Contexts, Labels, Live,
        Goto, GiveUp, Runs, Woken, table, thread, sched
<1>a. TypeOK /\ ForkOK
  BY DEF IInv
<1>b. \A d \in CPU : holder # d /\ cpu[d] # None =>
          /\ state[cpu[d]] = "RUNNING"
          /\ context[cpu[d]] = "none"
          /\ pc[cpu[d]] # "waitscan"
  BY Unlocked
<1>1. ASSUME NEW c \in CPU, Swtch(c) PROVE TypeOK'
  BY <1>1, <1>a, <1>b DEF Swtch, TypeOK, ForkOK
<1>2. ASSUME NEW c \in CPU, SchedAcquire(c) PROVE TypeOK'
  BY <1>2, <1>a, <1>b DEF SchedAcquire, TypeOK, ForkOK
<1>3. ASSUME NEW c \in CPU, PassEnd(c) PROVE TypeOK'
  BY <1>3, <1>a, <1>b DEF PassEnd, TypeOK, ForkOK
<1>4. ASSUME NEW c \in CPU, NEW p \in Slot, Dispatch(c, p) PROVE TypeOK'
  <2>1. state' \in [Slot -> States] /\ cpu' \in [CPU -> Slot \cup {None}]
    BY <1>4, <1>a DEF Dispatch, TypeOK
  <2>2. scan' \in [CPU -> 0 .. NPROC]
    BY <1>4, <1>a DEF Dispatch, TypeOK
  <2> QED
    BY <1>4, <1>a, <2>1, <2>2 DEF Dispatch, TypeOK
<1>5. ASSUME NEW c \in CPU, NEW p \in Slot, Forkret(c, p) PROVE TypeOK'
  BY <1>5, <1>a, <1>b DEF Forkret, Return, TypeOK, ForkOK
<1>6. ASSUME NEW c \in CPU, NEW p \in Slot, YieldReturn(c, p) PROVE TypeOK'
  BY <1>6, <1>a, <1>b DEF YieldReturn, Return, TypeOK, ForkOK
<1>7. ASSUME NEW c \in CPU, NEW p \in Slot, SleepReturn(c, p) PROVE TypeOK'
  BY <1>7, <1>a, <1>b DEF SleepReturn, Return, TypeOK, ForkOK
<1>8. ASSUME NEW c \in CPU, NEW p \in Slot, WaitReturn(c, p) PROVE TypeOK'
  BY <1>8, <1>a, <1>b DEF WaitReturn, Return, TypeOK, ForkOK
<1>9. ASSUME NEW c \in CPU, NEW p \in Slot, Yield(c, p) PROVE TypeOK'
  BY <1>9, <1>a, <1>b DEF Yield, TypeOK, ForkOK
<1>10. ASSUME NEW c \in CPU, NEW p \in Slot, QuietAction(c, p) PROVE TypeOK'
  <2>1. Quiet(c, p)
    BY <1>10, <1>a, QuietSteps
  <2> QED
    BY <2>1, <1>a, <1>b DEF Quiet, TypeOK, ForkOK
<1>11. ASSUME NEW c \in CPU, NEW p \in Slot, ForkAlloc(c, p) PROVE TypeOK'
  <2>1. PICK s \in Slot : AllocEffect(c, p, s)
    BY <1>11, AllocStep
  <2>2. state' \in [Slot -> States] /\ context' \in [Slot -> Contexts]
    BY <2>1, <1>a DEF AllocEffect, TypeOK
  <2>3. pid' \in [Slot -> 0 .. MaxPid] /\ nextpid' \in 1 .. MaxPid + 1
    BY <2>1, <1>a DEF AllocEffect, TypeOK
  <2>4. np' \in [Slot -> Slot \cup {None}] /\ pc' \in [Slot -> Labels]
    BY <2>1, <1>a DEF AllocEffect, TypeOK
  <2> QED
    BY <2>1, <2>2, <2>3, <2>4, <1>a DEF AllocEffect, TypeOK
<1>12. ASSUME NEW c \in CPU, NEW p \in Slot, ForkNoMemory(c, p) PROVE TypeOK'
  BY <1>12, <1>a, <1>b DEF ForkNoMemory, ForkReturnsError, TypeOK, ForkOK
<1>13. ASSUME NEW c \in CPU, NEW p \in Slot, ForkCopy(c, p) PROVE TypeOK'
  BY <1>13, <1>a, <1>b DEF ForkCopy, TypeOK, ForkOK
<1>14. ASSUME NEW c \in CPU, NEW p \in Slot, ForkReady(c, p) PROVE TypeOK'
  <2>1. np[p] \in Slot
    BY <1>14, <1>a, Filling DEF ForkReady
  <2>2. shell' \in 0 .. MaxPid
    BY <1>14, <2>1, <1>a DEF ForkReady, TypeOK
  <2>3. state' \in [Slot -> States] /\ np' \in [Slot -> Slot \cup {None}]
    BY <1>14, <2>1, <1>a DEF ForkReady, TypeOK
  <2> QED
    BY <1>14, <2>2, <2>3, <1>a DEF ForkReady, TypeOK
<1>15. ASSUME NEW c \in CPU, NEW p \in Slot, Exit(c, p) PROVE TypeOK'
  <2>1. ExitEffect(c, p)
    BY <1>15, <1>a, ExitStep
  <2>2. parent' \in [Slot -> Slot \cup {None}]
    BY <2>1, <1>a DEF ExitEffect, TypeOK
  <2> QED
    BY <2>1, <2>2, <1>a DEF ExitEffect, TypeOK
<1>16. ASSUME NEW c \in CPU, NEW p \in Slot, Wait(c, p) PROVE TypeOK'
  BY <1>16, <1>a, <1>b DEF Wait, Syscall, TypeOK, ForkOK
<1>17. ASSUME NEW c \in CPU, NEW p \in Slot, WaitReap(c, p) PROVE TypeOK'
  <2>1. PICK k \in Slot : ReapEffect(c, p, k)
    BY <1>17, ReapStep
  <2>2. /\ state' \in [Slot -> States] /\ pid' \in [Slot -> 0 .. MaxPid]
        /\ parent' \in [Slot -> Slot \cup {None}] /\ killed' \in [Slot -> BOOLEAN]
    BY <2>1, <1>a DEF ReapEffect, TypeOK
  <2>3. pc' \in [Slot -> Labels] /\ shell' \in 0 .. MaxPid
    BY <2>1, <1>a DEF ReapEffect, TypeOK
  <2> QED
    BY <2>1, <2>2, <2>3, <1>a DEF ReapEffect, TypeOK
<1>18. ASSUME NEW c \in CPU, NEW p \in Slot, WaitError(c, p) PROVE TypeOK'
  <2>1. holder = c
    BY <1>18, Scanning DEF WaitError
  <2> QED
    BY <2>1, <1>18, <1>a, <1>b DEF WaitError, TypeOK, ForkOK
<1>19. ASSUME NEW c \in CPU, NEW p \in Slot, WaitSleep(c, p) PROVE TypeOK'
  <2>1. holder = c
    BY <1>19, Scanning DEF WaitSleep
  <2> QED
    BY <2>1, <1>19, <1>a, <1>b DEF WaitSleep, TypeOK, ForkOK
<1>20. ASSUME NEW c \in CPU, NEW p \in Slot, SleepGo(c, p) PROVE TypeOK'
  BY <1>20, <1>a, <1>b DEF SleepGo, TypeOK, ForkOK
<1>21. ASSUME NEW c \in CPU, NEW p \in Slot, NEW x \in 0 .. MaxPid,
             Kill(c, p, x)
      PROVE  TypeOK'
  BY <1>21, <1>a, <1>b DEF Kill, Syscall, TypeOK, ForkOK
<1>22. CASE TimerTick
  BY <1>22, <1>a, <1>b DEF TimerTick, TypeOK, ForkOK
<1>23. CASE UNCHANGED vars
  BY <1>23, <1>a, <1>b DEF vars, TypeOK, ForkOK
<1> QED
  BY <1>1, <1>2, <1>3, <1>4, <1>5, <1>6, <1>7, <1>8, <1>9, <1>10, <1>11, <1>12,
     <1>13, <1>14, <1>15, <1>16, <1>17, <1>18, <1>19, <1>20, <1>21, <1>22, <1>23
  DEF Next, SchedStep, KernelStep, UserStep, QuietAction

\* A thread that gave its CPU up left the context that its state calls for
\* (LAB4/proc.c:88-113, :386-451).
LEMMA ContextOKStep == IInv /\ [Next]_vars => ContextOK'
<1> SUFFICES ASSUME IInv, [Next]_vars
             PROVE  ContextOK'
  OBVIOUS
<1> USE ProcAssumption DEF Slot, initproc, Preemptible, States, Contexts, Labels, Live,
        Goto, GiveUp, Runs, Woken, table, thread, sched
<1>a. TypeOK /\ ContextOK /\ CpuOK /\ ForkOK
  BY DEF IInv
<1>b. \A d \in CPU : holder # d /\ cpu[d] # None =>
          /\ state[cpu[d]] = "RUNNING"
          /\ context[cpu[d]] = "none"
          /\ pc[cpu[d]] # "waitscan"
  BY Unlocked
<1>1. ASSUME NEW c \in CPU, Swtch(c) PROVE ContextOK'
  BY <1>1, <1>a, <1>b DEF Swtch, TypeOK, ContextOK, CpuOK, ForkOK
<1>2. ASSUME NEW c \in CPU, SchedAcquire(c) PROVE ContextOK'
  BY <1>2, <1>a, <1>b DEF SchedAcquire, TypeOK, ContextOK, CpuOK, ForkOK
<1>3. ASSUME NEW c \in CPU, PassEnd(c) PROVE ContextOK'
  BY <1>3, <1>a, <1>b DEF PassEnd, TypeOK, ContextOK, CpuOK, ForkOK
<1>4. ASSUME NEW c \in CPU, NEW p \in Slot, Dispatch(c, p) PROVE ContextOK'
  BY <1>4, <1>a, <1>b DEF Dispatch, TypeOK, ContextOK, CpuOK, ForkOK
<1>5. ASSUME NEW c \in CPU, NEW p \in Slot, Forkret(c, p) PROVE ContextOK'
  BY <1>5, <1>a, <1>b DEF Forkret, Return, TypeOK, ContextOK, CpuOK, ForkOK
<1>6. ASSUME NEW c \in CPU, NEW p \in Slot, YieldReturn(c, p) PROVE ContextOK'
  BY <1>6, <1>a, <1>b DEF YieldReturn, Return, TypeOK, ContextOK, CpuOK, ForkOK
<1>7. ASSUME NEW c \in CPU, NEW p \in Slot, SleepReturn(c, p) PROVE ContextOK'
  BY <1>7, <1>a, <1>b DEF SleepReturn, Return, TypeOK, ContextOK, CpuOK, ForkOK
<1>8. ASSUME NEW c \in CPU, NEW p \in Slot, WaitReturn(c, p) PROVE ContextOK'
  BY <1>8, <1>a, <1>b DEF WaitReturn, Return, TypeOK, ContextOK, CpuOK, ForkOK
<1>9. ASSUME NEW c \in CPU, NEW p \in Slot, Yield(c, p) PROVE ContextOK'
  BY <1>9, <1>a, <1>b DEF Yield, TypeOK, ContextOK, CpuOK, ForkOK
<1>10. ASSUME NEW c \in CPU, NEW p \in Slot, QuietAction(c, p) PROVE ContextOK'
  <2>1. Quiet(c, p)
    BY <1>10, <1>a, QuietSteps
  <2> QED
    BY <2>1, <1>a, <1>b DEF Quiet, TypeOK, ContextOK, CpuOK, ForkOK
<1>11. ASSUME NEW c \in CPU, NEW p \in Slot, ForkAlloc(c, p) PROVE ContextOK'
  <2>1. PICK s \in Slot : AllocEffect(c, p, s)
    BY <1>11, AllocStep
  <2> QED
    BY <2>1, <1>a, <1>b DEF AllocEffect, TypeOK, ContextOK, CpuOK, ForkOK
<1>12. ASSUME NEW c \in CPU, NEW p \in Slot, ForkNoMemory(c, p) PROVE ContextOK'
  BY <1>12, <1>a, <1>b
     DEF ForkNoMemory, ForkReturnsError, TypeOK, ContextOK, CpuOK, ForkOK
<1>13. ASSUME NEW c \in CPU, NEW p \in Slot, ForkCopy(c, p) PROVE ContextOK'
  BY <1>13, <1>a, <1>b DEF ForkCopy, TypeOK, ContextOK, CpuOK, ForkOK
<1>14. ASSUME NEW c \in CPU, NEW p \in Slot, ForkReady(c, p) PROVE ContextOK'
  BY <1>14, <1>a, <1>b DEF ForkReady, TypeOK, ContextOK, CpuOK, ForkOK
<1>15. ASSUME NEW c \in CPU, NEW p \in Slot, Exit(c, p) PROVE ContextOK'
  <2>1. ExitEffect(c, p)
    BY <1>15, <1>a, ExitStep
  <2> QED
    BY <2>1, <1>a, <1>b DEF ExitEffect, TypeOK, ContextOK, CpuOK, ForkOK
<1>16. ASSUME NEW c \in CPU, NEW p \in Slot, Wait(c, p) PROVE ContextOK'
  BY <1>16, <1>a, <1>b DEF Wait, Syscall, TypeOK, ContextOK, CpuOK, ForkOK
<1>17. ASSUME NEW c \in CPU, NEW p \in Slot, WaitReap(c, p) PROVE ContextOK'
  <2>1. PICK k \in Slot : ReapEffect(c, p, k)
    BY <1>17, ReapStep
  <2> QED
    BY <2>1, <1>a, <1>b DEF ReapEffect, TypeOK, ContextOK, CpuOK, ForkOK
<1>18. ASSUME NEW c \in CPU, NEW p \in Slot, WaitError(c, p) PROVE ContextOK'
  <2>1. holder = c
    BY <1>18, Scanning DEF WaitError
  <2> QED
    BY <2>1, <1>18, <1>a, <1>b DEF WaitError, TypeOK, ContextOK, CpuOK, ForkOK
<1>19. ASSUME NEW c \in CPU, NEW p \in Slot, WaitSleep(c, p) PROVE ContextOK'
  <2>1. holder = c
    BY <1>19, Scanning DEF WaitSleep
  <2> QED
    BY <2>1, <1>19, <1>a, <1>b DEF WaitSleep, TypeOK, ContextOK, CpuOK, ForkOK
<1>20. ASSUME NEW c \in CPU, NEW p \in Slot, SleepGo(c, p) PROVE ContextOK'
  BY <1>20, <1>a, <1>b DEF SleepGo, TypeOK, ContextOK, CpuOK, ForkOK
<1>21. ASSUME NEW c \in CPU, NEW p \in Slot, NEW x \in 0 .. MaxPid,
             Kill(c, p, x)
      PROVE  ContextOK'
  BY <1>21, <1>a, <1>b DEF Kill, Syscall, TypeOK, ContextOK, CpuOK, ForkOK
<1>22. CASE TimerTick
  BY <1>22, <1>a, <1>b DEF TimerTick, TypeOK, ContextOK, CpuOK, ForkOK
<1>23. CASE UNCHANGED vars
  BY <1>23, <1>a, <1>b DEF vars, TypeOK, ContextOK, CpuOK, ForkOK
<1> QED
  BY <1>1, <1>2, <1>3, <1>4, <1>5, <1>6, <1>7, <1>8, <1>9, <1>10, <1>11, <1>12,
     <1>13, <1>14, <1>15, <1>16, <1>17, <1>18, <1>19, <1>20, <1>21, <1>22, <1>23
  DEF Next, SchedStep, KernelStep, UserStep, QuietAction

\* A CPU is never on the stack of a slot that is free or being set up, and holds
\* ptable.lock from sched to the end of the call that returns (LAB4/proc.c:334-382).
LEMMA CpuOKStep == IInv /\ [Next]_vars => CpuOK'
<1> SUFFICES ASSUME IInv, [Next]_vars
             PROVE  CpuOK'
  OBVIOUS
<1> USE ProcAssumption DEF Slot, initproc, Preemptible, States, Contexts, Labels, Live,
        Goto, GiveUp, Runs, Woken, table, thread, sched
<1>a. TypeOK /\ StackOwned /\ ContextOK /\ CpuOK /\ ForkOK
  BY DEF IInv
<1>b. \A d \in CPU : holder # d /\ cpu[d] # None =>
          /\ state[cpu[d]] = "RUNNING"
          /\ context[cpu[d]] = "none"
          /\ pc[cpu[d]] # "waitscan"
  BY Unlocked
<1>1. ASSUME NEW c \in CPU, Swtch(c) PROVE CpuOK'
  BY <1>1, <1>a, <1>b DEF Swtch, TypeOK, StackOwned, ContextOK, CpuOK, ForkOK
<1>2. ASSUME NEW c \in CPU, SchedAcquire(c) PROVE CpuOK'
  BY <1>2, <1>a, <1>b DEF SchedAcquire, TypeOK, StackOwned, ContextOK, CpuOK, ForkOK
<1>3. ASSUME NEW c \in CPU, PassEnd(c) PROVE CpuOK'
  BY <1>3, <1>a, <1>b DEF PassEnd, TypeOK, StackOwned, ContextOK, CpuOK, ForkOK
<1>4. ASSUME NEW c \in CPU, NEW p \in Slot, Dispatch(c, p) PROVE CpuOK'
  BY <1>4, <1>a, <1>b DEF Dispatch, TypeOK, StackOwned, ContextOK, CpuOK, ForkOK
<1>5. ASSUME NEW c \in CPU, NEW p \in Slot, Forkret(c, p) PROVE CpuOK'
  BY <1>5, <1>a, <1>b DEF Forkret, Return, TypeOK, StackOwned, ContextOK, CpuOK, ForkOK
<1>6. ASSUME NEW c \in CPU, NEW p \in Slot, YieldReturn(c, p) PROVE CpuOK'
  BY <1>6, <1>a, <1>b
     DEF YieldReturn, Return, TypeOK, StackOwned, ContextOK, CpuOK, ForkOK
<1>7. ASSUME NEW c \in CPU, NEW p \in Slot, SleepReturn(c, p) PROVE CpuOK'
  BY <1>7, <1>a, <1>b
     DEF SleepReturn, Return, TypeOK, StackOwned, ContextOK, CpuOK, ForkOK
<1>8. ASSUME NEW c \in CPU, NEW p \in Slot, WaitReturn(c, p) PROVE CpuOK'
  BY <1>8, <1>a, <1>b
     DEF WaitReturn, Return, TypeOK, StackOwned, ContextOK, CpuOK, ForkOK
<1>9. ASSUME NEW c \in CPU, NEW p \in Slot, Yield(c, p) PROVE CpuOK'
  BY <1>9, <1>a, <1>b DEF Yield, TypeOK, StackOwned, ContextOK, CpuOK, ForkOK
<1>10. ASSUME NEW c \in CPU, NEW p \in Slot, QuietAction(c, p) PROVE CpuOK'
  <2>1. Quiet(c, p)
    BY <1>10, <1>a, QuietSteps
  <2> QED
    BY <2>1, <1>a, <1>b DEF Quiet, TypeOK, StackOwned, ContextOK, CpuOK, ForkOK
<1>11. ASSUME NEW c \in CPU, NEW p \in Slot, ForkAlloc(c, p) PROVE CpuOK'
  <2>1. PICK s \in Slot : AllocEffect(c, p, s)
    BY <1>11, AllocStep
  <2> QED
    BY <2>1, <1>a, <1>b DEF AllocEffect, TypeOK, StackOwned, ContextOK, CpuOK, ForkOK
<1>12. ASSUME NEW c \in CPU, NEW p \in Slot, ForkNoMemory(c, p) PROVE CpuOK'
  BY <1>12, <1>a, <1>b
     DEF ForkNoMemory, ForkReturnsError, TypeOK, StackOwned, ContextOK, CpuOK, ForkOK
<1>13. ASSUME NEW c \in CPU, NEW p \in Slot, ForkCopy(c, p) PROVE CpuOK'
  BY <1>13, <1>a, <1>b DEF ForkCopy, TypeOK, StackOwned, ContextOK, CpuOK, ForkOK
<1>14. ASSUME NEW c \in CPU, NEW p \in Slot, ForkReady(c, p) PROVE CpuOK'
  BY <1>14, <1>a, <1>b DEF ForkReady, TypeOK, StackOwned, ContextOK, CpuOK, ForkOK
<1>15. ASSUME NEW c \in CPU, NEW p \in Slot, Exit(c, p) PROVE CpuOK'
  <2>1. ExitEffect(c, p)
    BY <1>15, <1>a, ExitStep
  <2>2. \A s \in Slot : state'[s] \in {"UNUSED", "EMBRYO"} => state[s] = state'[s]
    BY <2>1 DEF ExitEffect
  <2>3. ASSUME NEW d \in CPU, cpu[d] # None, d # c
        PROVE  context'[cpu[d]] = "none"
    <3>1. cpu[d] # p /\ context[cpu[d]] = "none"
      BY <2>1, <2>3, <1>b, <1>a DEF ExitEffect, StackOwned
    <3> QED
      BY <2>1, <2>3, <3>1, <1>a DEF ExitEffect, TypeOK
  <2>4. holder' = c /\ cpu' = cpu
    BY <2>1 DEF ExitEffect
  <2> QED
    BY <2>2, <2>3, <2>4, <1>a DEF TypeOK, CpuOK
<1>16. ASSUME NEW c \in CPU, NEW p \in Slot, Wait(c, p) PROVE CpuOK'
  BY <1>16, <1>a, <1>b DEF Wait, Syscall, TypeOK, StackOwned, ContextOK, CpuOK, ForkOK
<1>17. ASSUME NEW c \in CPU, NEW p \in Slot, WaitReap(c, p) PROVE CpuOK'
  <2>1. PICK k \in Slot : ReapEffect(c, p, k)
    BY <1>17, ReapStep
  <2> QED
    BY <2>1, <1>a, <1>b DEF ReapEffect, TypeOK, StackOwned, ContextOK, CpuOK, ForkOK
<1>18. ASSUME NEW c \in CPU, NEW p \in Slot, WaitError(c, p) PROVE CpuOK'
  <2>1. holder = c
    BY <1>18, Scanning DEF WaitError
  <2> QED
    BY <2>1, <1>18, <1>a, <1>b
       DEF WaitError, TypeOK, StackOwned, ContextOK, CpuOK, ForkOK
<1>19. ASSUME NEW c \in CPU, NEW p \in Slot, WaitSleep(c, p) PROVE CpuOK'
  <2>1. holder = c
    BY <1>19, Scanning DEF WaitSleep
  <2> QED
    BY <2>1, <1>19, <1>a, <1>b
       DEF WaitSleep, TypeOK, StackOwned, ContextOK, CpuOK, ForkOK
<1>20. ASSUME NEW c \in CPU, NEW p \in Slot, SleepGo(c, p) PROVE CpuOK'
  BY <1>20, <1>a, <1>b DEF SleepGo, TypeOK, StackOwned, ContextOK, CpuOK, ForkOK
<1>21. ASSUME NEW c \in CPU, NEW p \in Slot, NEW x \in 0 .. MaxPid,
             Kill(c, p, x)
      PROVE  CpuOK'
  BY <1>21, <1>a, <1>b DEF Kill, Syscall, TypeOK, StackOwned, ContextOK, CpuOK, ForkOK
<1>22. CASE TimerTick
  BY <1>22, <1>a, <1>b DEF TimerTick, TypeOK, StackOwned, ContextOK, CpuOK, ForkOK
<1>23. CASE UNCHANGED vars
  BY <1>23, <1>a, <1>b DEF vars, TypeOK, StackOwned, ContextOK, CpuOK, ForkOK
<1> QED
  BY <1>1, <1>2, <1>3, <1>4, <1>5, <1>6, <1>7, <1>8, <1>9, <1>10, <1>11, <1>12,
     <1>13, <1>14, <1>15, <1>16, <1>17, <1>18, <1>19, <1>20, <1>21, <1>22, <1>23
  DEF Next, SchedStep, KernelStep, UserStep, QuietAction

\* No two CPUs on one stack; nobody leaves a stack unlocked (LAB4/proc.c:264-390).
LEMMA StackOwnedStep == IInv /\ [Next]_vars => StackOwned'
<1> SUFFICES ASSUME IInv, [Next]_vars
             PROVE  StackOwned'
  OBVIOUS
<1> USE ProcAssumption DEF Slot, initproc, Preemptible, States, Contexts, Labels, Live,
        Goto, GiveUp, Runs, Woken, table, thread, sched
<1>a. TypeOK /\ StackOwned /\ ContextOK /\ CpuOK /\ ForkOK
  BY DEF IInv
<1>b. \A d \in CPU : holder # d /\ cpu[d] # None =>
          /\ state[cpu[d]] = "RUNNING"
          /\ context[cpu[d]] = "none"
          /\ pc[cpu[d]] # "waitscan"
  BY Unlocked
<1>1. ASSUME NEW c \in CPU, Swtch(c) PROVE StackOwned'
  BY <1>1, <1>a, <1>b DEF Swtch, TypeOK, StackOwned, ContextOK, CpuOK, ForkOK
<1>2. ASSUME NEW c \in CPU, SchedAcquire(c) PROVE StackOwned'
  BY <1>2, <1>a, <1>b DEF SchedAcquire, TypeOK, StackOwned, ContextOK, CpuOK, ForkOK
<1>3. ASSUME NEW c \in CPU, PassEnd(c) PROVE StackOwned'
  BY <1>3, <1>a, <1>b DEF PassEnd, TypeOK, StackOwned, ContextOK, CpuOK, ForkOK
<1>4. ASSUME NEW c \in CPU, NEW p \in Slot, Dispatch(c, p) PROVE StackOwned'
  BY <1>4, <1>a, <1>b DEF Dispatch, TypeOK, StackOwned, ContextOK, CpuOK, ForkOK
<1>5. ASSUME NEW c \in CPU, NEW p \in Slot, Forkret(c, p) PROVE StackOwned'
  BY <1>5, <1>a, <1>b DEF Forkret, Return, TypeOK, StackOwned, ContextOK, CpuOK, ForkOK
<1>6. ASSUME NEW c \in CPU, NEW p \in Slot, YieldReturn(c, p) PROVE StackOwned'
  BY <1>6, <1>a, <1>b
     DEF YieldReturn, Return, TypeOK, StackOwned, ContextOK, CpuOK, ForkOK
<1>7. ASSUME NEW c \in CPU, NEW p \in Slot, SleepReturn(c, p) PROVE StackOwned'
  BY <1>7, <1>a, <1>b
     DEF SleepReturn, Return, TypeOK, StackOwned, ContextOK, CpuOK, ForkOK
<1>8. ASSUME NEW c \in CPU, NEW p \in Slot, WaitReturn(c, p) PROVE StackOwned'
  BY <1>8, <1>a, <1>b
     DEF WaitReturn, Return, TypeOK, StackOwned, ContextOK, CpuOK, ForkOK
<1>9. ASSUME NEW c \in CPU, NEW p \in Slot, Yield(c, p) PROVE StackOwned'
  BY <1>9, <1>a, <1>b DEF Yield, TypeOK, StackOwned, ContextOK, CpuOK, ForkOK
<1>10. ASSUME NEW c \in CPU, NEW p \in Slot, QuietAction(c, p) PROVE StackOwned'
  <2>1. Quiet(c, p)
    BY <1>10, <1>a, QuietSteps
  <2> QED
    BY <2>1, <1>a, <1>b DEF Quiet, TypeOK, StackOwned, ContextOK, CpuOK, ForkOK
<1>11. ASSUME NEW c \in CPU, NEW p \in Slot, ForkAlloc(c, p) PROVE StackOwned'
  <2>1. PICK s \in Slot : AllocEffect(c, p, s)
    BY <1>11, AllocStep
  <2>2. /\ state' = [state EXCEPT ![s] = "EMBRYO"] /\ UNCHANGED sched
        /\ \A d \in CPU : cpu[d] # s
    BY <2>1 DEF AllocEffect
  <2> QED
    BY <2>2, <1>a DEF TypeOK, StackOwned
<1>12. ASSUME NEW c \in CPU, NEW p \in Slot, ForkNoMemory(c, p) PROVE StackOwned'
  <2>1. /\ state' = [state EXCEPT ![np[p]] = "UNUSED"] /\ UNCHANGED sched
        /\ np[p] \in Slot /\ state[np[p]] = "EMBRYO"
    BY <1>12, <1>a DEF ForkNoMemory, TypeOK, ForkOK
  <2>2. \A d \in CPU : cpu[d] # np[p]
    BY <2>1, <1>a DEF CpuOK
  <2> QED
    BY <2>1, <2>2, <1>a DEF TypeOK, StackOwned
<1>13. ASSUME NEW c \in CPU, NEW p \in Slot, ForkCopy(c, p) PROVE StackOwned'
  BY <1>13, <1>a, <1>b DEF ForkCopy, TypeOK, StackOwned, ContextOK, CpuOK, ForkOK
<1>14. ASSUME NEW c \in CPU, NEW p \in Slot, ForkReady(c, p) PROVE StackOwned'
  <2>1. /\ state' = [state EXCEPT ![np[p]] = "RUNNABLE"] /\ UNCHANGED sched
        /\ np[p] \in Slot /\ state[np[p]] = "EMBRYO"
    BY <1>14, <1>a DEF ForkReady, TypeOK, ForkOK
  <2>2. \A d \in CPU : cpu[d] # np[p]
    BY <2>1, <1>a DEF CpuOK
  <2> QED
    BY <2>1, <2>2, <1>a DEF TypeOK, StackOwned
<1>15. ASSUME NEW c \in CPU, NEW p \in Slot, Exit(c, p) PROVE StackOwned'
  <2>1. ExitEffect(c, p)
    BY <1>15, <1>a, ExitStep
  <2>2. \A s \in Slot : state'[s] = "RUNNING" <=> state[s] = "RUNNING" /\ s # p
    BY <2>1 DEF ExitEffect
  <2>3. \A d \in CPU : cpu[d] = p => d = c
    BY <2>1, <1>a DEF ExitEffect, StackOwned
  <2>4. \A d \in CPU : cpu[d] # None => state[cpu[d]] = "RUNNING"
    BY <2>1, <1>b DEF ExitEffect
  <2>5. \A d \in CPU : cpu[d] # None /\ state'[cpu[d]] # "RUNNING" => d = c
    BY <2>2, <2>3, <2>4, <1>a DEF TypeOK
  <2> QED
    BY <2>1, <2>2, <2>5, <1>a DEF ExitEffect, StackOwned
<1>16. ASSUME NEW c \in CPU, NEW p \in Slot, Wait(c, p) PROVE StackOwned'
  BY <1>16, <1>a, <1>b DEF Wait, Syscall, TypeOK, StackOwned, ContextOK, CpuOK, ForkOK
<1>17. ASSUME NEW c \in CPU, NEW p \in Slot, WaitReap(c, p) PROVE StackOwned'
  <2>1. PICK k \in Slot : ReapEffect(c, p, k)
    BY <1>17, ReapStep
  <2> QED
    BY <2>1, <1>a, <1>b DEF ReapEffect, TypeOK, StackOwned, ContextOK, CpuOK, ForkOK
<1>18. ASSUME NEW c \in CPU, NEW p \in Slot, WaitError(c, p) PROVE StackOwned'
  <2>1. holder = c
    BY <1>18, Scanning DEF WaitError
  <2> QED
    BY <2>1, <1>18, <1>a, <1>b
       DEF WaitError, TypeOK, StackOwned, ContextOK, CpuOK, ForkOK
<1>19. ASSUME NEW c \in CPU, NEW p \in Slot, WaitSleep(c, p) PROVE StackOwned'
  <2>1. holder = c
    BY <1>19, Scanning DEF WaitSleep
  <2> QED
    BY <2>1, <1>19, <1>a, <1>b
       DEF WaitSleep, TypeOK, StackOwned, ContextOK, CpuOK, ForkOK
<1>20. ASSUME NEW c \in CPU, NEW p \in Slot, SleepGo(c, p) PROVE StackOwned'
  BY <1>20, <1>a, <1>b DEF SleepGo, TypeOK, StackOwned, ContextOK, CpuOK, ForkOK
<1>21. ASSUME NEW c \in CPU, NEW p \in Slot, NEW x \in 0 .. MaxPid,
             Kill(c, p, x)
      PROVE  StackOwned'
  BY <1>21, <1>a, <1>b DEF Kill, Syscall, TypeOK, StackOwned, ContextOK, CpuOK, ForkOK
<1>22. CASE TimerTick
  BY <1>22, <1>a, <1>b DEF TimerTick, TypeOK, StackOwned, ContextOK, CpuOK, ForkOK
<1>23. CASE UNCHANGED vars
  BY <1>23, <1>a, <1>b DEF vars, TypeOK, StackOwned, ContextOK, CpuOK, ForkOK
<1> QED
  BY <1>1, <1>2, <1>3, <1>4, <1>5, <1>6, <1>7, <1>8, <1>9, <1>10, <1>11, <1>12,
     <1>13, <1>14, <1>15, <1>16, <1>17, <1>18, <1>19, <1>20, <1>21, <1>22, <1>23
  DEF Next, SchedStep, KernelStep, UserStep, QuietAction

\* Outside of wait's scan a thread that executes has handed ptable.lock back
\* (LAB4/proc.c:298, :305, :391, :401, :449).
LEMMA LockHandedBackStep == IInv /\ [Next]_vars => LockHandedBack'
<1> SUFFICES ASSUME IInv, [Next]_vars
             PROVE  LockHandedBack'
  OBVIOUS
<1> USE ProcAssumption DEF Slot, initproc, Preemptible, States, Contexts, Labels, Live,
        Goto, GiveUp, Runs, Woken, table, thread, sched
<1>a. TypeOK /\ StackOwned /\ LockHandedBack /\ ContextOK /\ CpuOK /\ ForkOK
  BY DEF IInv
<1>b. \A d \in CPU : holder # d /\ cpu[d] # None =>
          /\ state[cpu[d]] = "RUNNING"
          /\ context[cpu[d]] = "none"
          /\ pc[cpu[d]] # "waitscan"
  BY Unlocked
<1>1. ASSUME NEW c \in CPU, Swtch(c) PROVE LockHandedBack'
  BY <1>1, <1>a, <1>b
     DEF Swtch, TypeOK, StackOwned, LockHandedBack, ContextOK, CpuOK, ForkOK
<1>2. ASSUME NEW c \in CPU, SchedAcquire(c) PROVE LockHandedBack'
  BY <1>2, <1>a, <1>b
     DEF SchedAcquire, TypeOK, StackOwned, LockHandedBack, ContextOK, CpuOK, ForkOK
<1>3. ASSUME NEW c \in CPU, PassEnd(c) PROVE LockHandedBack'
  BY <1>3, <1>a, <1>b
     DEF PassEnd, TypeOK, StackOwned, LockHandedBack, ContextOK, CpuOK, ForkOK
<1>4. ASSUME NEW c \in CPU, NEW p \in Slot, Dispatch(c, p) PROVE LockHandedBack'
  BY <1>4, <1>a, <1>b
     DEF Dispatch, TypeOK, StackOwned, LockHandedBack, ContextOK, CpuOK, ForkOK
<1>5. ASSUME NEW c \in CPU, NEW p \in Slot, Forkret(c, p) PROVE LockHandedBack'
  BY <1>5, <1>a, <1>b
     DEF Forkret, Return, TypeOK, StackOwned, LockHandedBack, ContextOK, CpuOK, ForkOK
<1>6. ASSUME NEW c \in CPU, NEW p \in Slot, YieldReturn(c, p) PROVE LockHandedBack'
  <2>1. pc[p] # "waitscan" /\ holder' = None /\ cpu[c] = p
    BY <1>6, <1>a DEF YieldReturn, Return, ContextOK
  <2>2. ASSUME NEW d \in CPU, d # c, cpu[d] # None PROVE pc[cpu[d]] # "waitscan"
    BY <1>6, <1>b, <2>2 DEF YieldReturn, Return
  <2>3. UNCHANGED <<cpu, pc>>
    BY <1>6 DEF YieldReturn, Return
  <2> QED
    BY <2>1, <2>2, <2>3 DEF LockHandedBack
<1>7. ASSUME NEW c \in CPU, NEW p \in Slot, SleepReturn(c, p) PROVE LockHandedBack'
  BY <1>7, <1>a, <1>b
     DEF SleepReturn, Return, TypeOK, StackOwned, LockHandedBack, ContextOK, CpuOK,
         ForkOK
<1>8. ASSUME NEW c \in CPU, NEW p \in Slot, WaitReturn(c, p) PROVE LockHandedBack'
  BY <1>8, <1>a, <1>b
     DEF WaitReturn, Return, TypeOK, StackOwned, LockHandedBack, ContextOK, CpuOK,
         ForkOK
<1>9. ASSUME NEW c \in CPU, NEW p \in Slot, Yield(c, p) PROVE LockHandedBack'
  BY <1>9, <1>a, <1>b
     DEF Yield, TypeOK, StackOwned, LockHandedBack, ContextOK, CpuOK, ForkOK
<1>10. ASSUME NEW c \in CPU, NEW p \in Slot, QuietAction(c, p) PROVE LockHandedBack'
  <2>1. Quiet(c, p)
    BY <1>10, <1>a, QuietSteps
  <2> QED
    BY <2>1, <1>a, <1>b
       DEF Quiet, TypeOK, StackOwned, LockHandedBack, ContextOK, CpuOK, ForkOK
<1>11. ASSUME NEW c \in CPU, NEW p \in Slot, ForkAlloc(c, p) PROVE LockHandedBack'
  <2>1. PICK s \in Slot : AllocEffect(c, p, s)
    BY <1>11, AllocStep
  <2>2. /\ context' = [context EXCEPT ![s] = "forkret"] /\ UNCHANGED sched
        /\ pc' = [pc EXCEPT ![p] = "forkcopy"] /\ pc[p] = "syscall"
        /\ \A d \in CPU : cpu[d] # s
    BY <2>1 DEF AllocEffect
  <2> QED
    BY <2>2, <1>a DEF TypeOK, LockHandedBack
<1>12. ASSUME NEW c \in CPU, NEW p \in Slot, ForkNoMemory(c, p) PROVE LockHandedBack'
  <2>1. /\ pc' = [pc EXCEPT ![p] = "trapret"] /\ pc[p] = "forkcopy"
        /\ UNCHANGED <<context, sched>>
    BY <1>12 DEF ForkNoMemory, ForkReturnsError
  <2> QED
    BY <2>1, <1>a DEF TypeOK, LockHandedBack
<1>13. ASSUME NEW c \in CPU, NEW p \in Slot, ForkCopy(c, p) PROVE LockHandedBack'
  <2>1. /\ pc' = [pc EXCEPT ![p] = "forkready"] /\ pc[p] = "forkcopy"
        /\ UNCHANGED <<context, sched>>
    BY <1>13 DEF ForkCopy
  <2> QED
    BY <2>1, <1>a DEF TypeOK, LockHandedBack
<1>14. ASSUME NEW c \in CPU, NEW p \in Slot, ForkReady(c, p) PROVE LockHandedBack'
  <2>1. /\ pc' = [pc EXCEPT ![p] = "trapret"] /\ pc[p] = "forkready"
        /\ UNCHANGED <<context, sched>>
    BY <1>14 DEF ForkReady
  <2> QED
    BY <2>1, <1>a DEF TypeOK, LockHandedBack
<1>15. ASSUME NEW c \in CPU, NEW p \in Slot, Exit(c, p) PROVE LockHandedBack'
  <2>1. ExitEffect(c, p)
    BY <1>15, <1>a, ExitStep
  <2> QED
    BY <2>1, <1>a, <1>b
       DEF ExitEffect, TypeOK, StackOwned, LockHandedBack, ContextOK, CpuOK, ForkOK
<1>16. ASSUME NEW c \in CPU, NEW p \in Slot, Wait(c, p) PROVE LockHandedBack'
  BY <1>16, <1>a, <1>b
     DEF Wait, Syscall, TypeOK, StackOwned, LockHandedBack, ContextOK, CpuOK, ForkOK
<1>17. ASSUME NEW c \in CPU, NEW p \in Slot, WaitReap(c, p) PROVE LockHandedBack'
  <2>1. PICK k \in Slot : ReapEffect(c, p, k)
    BY <1>17, ReapStep
  <2> QED
    BY <2>1, <1>a, <1>b
       DEF ReapEffect, TypeOK, StackOwned, LockHandedBack, ContextOK, CpuOK, ForkOK
<1>18. ASSUME NEW c \in CPU, NEW p \in Slot, WaitError(c, p) PROVE LockHandedBack'
  <2>1. holder = c
    BY <1>18, Scanning DEF WaitError
  <2> QED
    BY <2>1, <1>18, <1>a, <1>b
       DEF WaitError, TypeOK, StackOwned, LockHandedBack, ContextOK, CpuOK, ForkOK
<1>19. ASSUME NEW c \in CPU, NEW p \in Slot, WaitSleep(c, p) PROVE LockHandedBack'
  <2>1. holder = c
    BY <1>19, Scanning DEF WaitSleep
  <2> QED
    BY <2>1, <1>19, <1>a, <1>b
       DEF WaitSleep, TypeOK, StackOwned, LockHandedBack, ContextOK, CpuOK, ForkOK
<1>20. ASSUME NEW c \in CPU, NEW p \in Slot, SleepGo(c, p) PROVE LockHandedBack'
  BY <1>20, <1>a, <1>b
     DEF SleepGo, TypeOK, StackOwned, LockHandedBack, ContextOK, CpuOK, ForkOK
<1>21. ASSUME NEW c \in CPU, NEW p \in Slot, NEW x \in 0 .. MaxPid,
             Kill(c, p, x)
      PROVE  LockHandedBack'
  BY <1>21, <1>a, <1>b
     DEF Kill, Syscall, TypeOK, StackOwned, LockHandedBack, ContextOK, CpuOK, ForkOK
<1>22. CASE TimerTick
  BY <1>22, <1>a, <1>b
     DEF TimerTick, TypeOK, StackOwned, LockHandedBack, ContextOK, CpuOK, ForkOK
<1>23. CASE UNCHANGED vars
  BY <1>23, <1>a, <1>b
     DEF vars, TypeOK, StackOwned, LockHandedBack, ContextOK, CpuOK, ForkOK
<1> QED
  BY <1>1, <1>2, <1>3, <1>4, <1>5, <1>6, <1>7, <1>8, <1>9, <1>10, <1>11, <1>12,
     <1>13, <1>14, <1>15, <1>16, <1>17, <1>18, <1>19, <1>20, <1>21, <1>22, <1>23
  DEF Next, SchedStep, KernelStep, UserStep, QuietAction

\* The slot a fork writes without the lock is its own (LAB4/proc.c:94-115, :193-219).
LEMMA ForkOKStep == IInv /\ [Next]_vars => ForkOK'
<1> SUFFICES ASSUME IInv, [Next]_vars
             PROVE  ForkOK'
  OBVIOUS
<1> USE ProcAssumption DEF Slot, initproc, Preemptible, States, Contexts, Labels, Live,
        Goto, GiveUp, Runs, Woken, table, thread, sched
<1>a. TypeOK /\ StackOwned /\ ContextOK /\ CpuOK /\ ForkOK
  BY DEF IInv
<1>b. \A d \in CPU : holder # d /\ cpu[d] # None =>
          /\ state[cpu[d]] = "RUNNING"
          /\ context[cpu[d]] = "none"
          /\ pc[cpu[d]] # "waitscan"
  BY Unlocked
<1>1. ASSUME NEW c \in CPU, Swtch(c) PROVE ForkOK'
  BY <1>1, <1>a, <1>b DEF Swtch, TypeOK, StackOwned, ContextOK, CpuOK, ForkOK
<1>2. ASSUME NEW c \in CPU, SchedAcquire(c) PROVE ForkOK'
  BY <1>2, <1>a, <1>b DEF SchedAcquire, TypeOK, StackOwned, ContextOK, CpuOK, ForkOK
<1>3. ASSUME NEW c \in CPU, PassEnd(c) PROVE ForkOK'
  BY <1>3, <1>a, <1>b DEF PassEnd, TypeOK, StackOwned, ContextOK, CpuOK, ForkOK
<1>4. ASSUME NEW c \in CPU, NEW p \in Slot, Dispatch(c, p) PROVE ForkOK'
  BY <1>4, <1>a, <1>b DEF Dispatch, TypeOK, StackOwned, ContextOK, CpuOK, ForkOK
<1>5. ASSUME NEW c \in CPU, NEW p \in Slot, Forkret(c, p) PROVE ForkOK'
  BY <1>5, <1>a, <1>b DEF Forkret, Return, TypeOK, StackOwned, ContextOK, CpuOK, ForkOK
<1>6. ASSUME NEW c \in CPU, NEW p \in Slot, YieldReturn(c, p) PROVE ForkOK'
  BY <1>6, <1>a, <1>b
     DEF YieldReturn, Return, TypeOK, StackOwned, ContextOK, CpuOK, ForkOK
<1>7. ASSUME NEW c \in CPU, NEW p \in Slot, SleepReturn(c, p) PROVE ForkOK'
  BY <1>7, <1>a, <1>b
     DEF SleepReturn, Return, TypeOK, StackOwned, ContextOK, CpuOK, ForkOK
<1>8. ASSUME NEW c \in CPU, NEW p \in Slot, WaitReturn(c, p) PROVE ForkOK'
  BY <1>8, <1>a, <1>b
     DEF WaitReturn, Return, TypeOK, StackOwned, ContextOK, CpuOK, ForkOK
<1>9. ASSUME NEW c \in CPU, NEW p \in Slot, Yield(c, p) PROVE ForkOK'
  BY <1>9, <1>a, <1>b DEF Yield, TypeOK, StackOwned, ContextOK, CpuOK, ForkOK
<1>10. ASSUME NEW c \in CPU, NEW p \in Slot, QuietAction(c, p) PROVE ForkOK'
  <2>1. Quiet(c, p)
    BY <1>10, <1>a, QuietSteps
  <2>2. /\ np[p] = None
        /\ pc'[p] \notin {"forkcopy", "forkready"}
    BY <2>1, <1>a DEF Quiet, ForkOK
  <2>3. \A q \in Slot : np[q] # None => pc'[q] = pc[q]
    BY <2>1, <2>2 DEF Quiet
  <2>4. \A q \in Slot : np[q] # None <=> pc'[q] \in {"forkcopy", "forkready"}
    BY <2>1, <2>2, <1>a DEF Quiet, ForkOK
  <2> QED
    BY <2>1, <2>3, <2>4, <1>a DEF Quiet, ForkOK
<1>11. ASSUME NEW c \in CPU, NEW p \in Slot, ForkAlloc(c, p) PROVE ForkOK'
  <2>1. PICK s \in Slot : AllocEffect(c, p, s)
    BY <1>11, AllocStep
  <2>2. /\ np'[p] = s /\ pc'[p] = "forkcopy"
        /\ state'[s] = "EMBRYO" /\ state'[p] \in Live
        /\ context'[p] = "none" /\ parent'[s] = None
    BY <2>1, <1>a DEF AllocEffect, TypeOK
  <2>3. \A q \in Slot : q # p => np'[q] = np[q] /\ pc'[q] = pc[q]
    BY <2>1, <1>a DEF AllocEffect, TypeOK
  <2>4. \A q \in Slot : q # s => state'[q] = state[q] /\ context'[q] = context[q]
    BY <2>1, <1>a DEF AllocEffect, TypeOK
  <2>5. ASSUME NEW q \in Slot, q # p, np[q] # None
        PROVE  /\ q # s /\ np[q] # s
               /\ state'[np[q]] = "EMBRYO"
               /\ state'[q] \in Live
               /\ context'[q] \in {"none", "yield"}
               /\ parent'[np[q]] = IF pc[q] = "forkready" THEN q ELSE None
    <3>1. q # s /\ np[q] # s /\ np[q] \in Slot /\ UNCHANGED parent
      BY <2>1, <2>5, <1>a DEF AllocEffect, TypeOK
    <3>2. state[np[q]] = "EMBRYO" /\ state[q] \in Live /\ context[q] \in {"none", "yield"}
          /\ parent[np[q]] = IF pc[q] = "forkready" THEN q ELSE None
      BY <2>5, <1>a DEF ForkOK
    <3> QED
      BY <2>4, <3>1, <3>2
  <2>6. \A q \in Slot : state'[q] = "UNUSED" => parent'[q] = None
    BY <2>1, <2>2, <2>4, <1>a DEF AllocEffect, ForkOK
  <2>7. \A q \in Slot : np'[q] # None <=> pc'[q] \in {"forkcopy", "forkready"}
    BY <2>2, <2>3, <1>a DEF ForkOK
  <2>8. \A q, r \in Slot : np'[q] = np'[r] /\ np'[q] # None => q = r
    BY <2>1, <2>2, <2>3, <1>a DEF AllocEffect, ForkOK
  <2> QED
    BY <2>2, <2>3, <2>5, <2>6, <2>7, <2>8 DEF ForkOK
<1>12. ASSUME NEW c \in CPU, NEW p \in Slot, ForkNoMemory(c, p) PROVE ForkOK'
  <2>1. /\ UNCHANGED <<parent, context>>
        /\ state' = [state EXCEPT ![np[p]] = "UNUSED"]
        /\ np' = [np EXCEPT ![p] = None]
        /\ pc' = [pc EXCEPT ![p] = "trapret"]
        /\ np[p] \in Slot /\ np[p] # None /\ parent[np[p]] = None
    BY <1>12, <1>a DEF ForkNoMemory, ForkReturnsError, TypeOK, ForkOK
  <2>2. \A q \in Slot : q # p => pc'[q] = pc[q] /\ np'[q] = np[q]
    BY <2>1, <1>a DEF TypeOK
  <2>3. pc'[p] = "trapret" /\ np'[p] = None
    BY <2>1, <1>a DEF TypeOK
  <2>4. \A s \in Slot : s # np[p] => state'[s] = state[s]
    BY <2>1, <1>a DEF TypeOK
  <2>5. ASSUME NEW q \in Slot, np'[q] # None
        PROVE  /\ state'[np[q]] = "EMBRYO"
               /\ state'[q] \in Live
               /\ context[q] \in {"none", "yield"}
               /\ parent[np[q]] = IF pc'[q] = "forkready" THEN q ELSE None
               /\ np'[q] = np[q]
    <3>1. q # p /\ np'[q] = np[q] /\ pc'[q] = pc[q] /\ np[q] \in Slot /\ np[q] # np[p]
      BY <2>1, <2>2, <2>3, <2>5, <1>a DEF ForkOK, TypeOK
    <3>2. /\ state[np[q]] = "EMBRYO" /\ state[q] \in Live
          /\ context[q] \in {"none", "yield"}
          /\ parent[np[q]] = IF pc[q] = "forkready" THEN q ELSE None
      BY <2>5, <3>1, <1>a DEF ForkOK
    <3>3. q # np[p]
      BY <2>1, <3>2, <1>a DEF ForkOK
    <3> QED
      BY <2>4, <3>1, <3>2, <3>3
  <2>6. \A s \in Slot : state'[s] = "UNUSED" => parent[s] = None
    BY <2>1, <2>4, <1>a DEF ForkOK
  <2>7. \A q \in Slot : np'[q] # None <=> pc'[q] \in {"forkcopy", "forkready"}
    BY <2>2, <2>3, <1>a DEF ForkOK
  <2>8. \A q, r \in Slot : np'[q] = np'[r] /\ np'[q] # None => q = r
    BY <2>2, <2>3, <1>a DEF ForkOK
  <2> QED
    BY <2>1, <2>5, <2>6, <2>7, <2>8 DEF ForkOK
<1>13. ASSUME NEW c \in CPU, NEW p \in Slot, ForkCopy(c, p) PROVE ForkOK'
  <2>1. /\ UNCHANGED <<state, context, np>>
        /\ parent' = [parent EXCEPT ![np[p]] = p]
        /\ pc' = [pc EXCEPT ![p] = "forkready"]
        /\ pc[p] = "forkcopy" /\ np[p] \in Slot /\ np[p] # None
        /\ state[np[p]] = "EMBRYO"
    BY <1>13, <1>a DEF ForkCopy, TypeOK, ForkOK
  <2>2. \A q \in Slot : q # p => pc'[q] = pc[q]
    BY <2>1, <1>a DEF TypeOK
  <2>3. pc'[p] = "forkready" /\ parent'[np[p]] = p
    BY <2>1, <1>a DEF TypeOK
  <2>4. \A s \in Slot : s # np[p] => parent'[s] = parent[s]
    BY <2>1, <1>a DEF TypeOK
  <2>5. ASSUME NEW q \in Slot, np[q] # None
        PROVE  parent'[np[q]] = IF pc'[q] = "forkready" THEN q ELSE None
    <3>1. CASE q = p
      BY <2>3, <3>1
    <3>2. CASE q # p
      <4>1. np[q] # np[p] /\ np[q] \in Slot
            /\ parent[np[q]] = IF pc[q] = "forkready" THEN q ELSE None
        BY <2>5, <3>2, <1>a DEF ForkOK, TypeOK
      <4> QED
        BY <2>2, <2>4, <3>2, <4>1
    <3> QED
      BY <3>1, <3>2
  <2>6. \A s \in Slot : state[s] = "UNUSED" => parent'[s] = None
    BY <2>1, <2>4, <1>a DEF ForkOK
  <2>7. \A q \in Slot : np[q] # None <=> pc'[q] \in {"forkcopy", "forkready"}
    BY <2>1, <2>2, <2>3, <1>a DEF ForkOK
  <2> QED
    BY <2>1, <2>5, <2>6, <2>7, <1>a DEF ForkOK
<1>14. ASSUME NEW c \in CPU, NEW p \in Slot, ForkReady(c, p) PROVE ForkOK'
  <2>1. /\ UNCHANGED <<parent, context>>
        /\ state' = [state EXCEPT ![np[p]] = "RUNNABLE"]
        /\ np' = [np EXCEPT ![p] = None]
        /\ pc' = [pc EXCEPT ![p] = "trapret"]
        /\ np[p] \in Slot /\ np[p] # None
    BY <1>14, <1>a DEF ForkReady, TypeOK, ForkOK
  <2>2. \A q \in Slot : q # p => pc'[q] = pc[q] /\ np'[q] = np[q]
    BY <2>1, <1>a DEF TypeOK
  <2>3. pc'[p] = "trapret" /\ np'[p] = None
    BY <2>1, <1>a DEF TypeOK
  <2>4. \A s \in Slot : s # np[p] => state'[s] = state[s]
    BY <2>1, <1>a DEF TypeOK
  <2>5. state'[np[p]] = "RUNNABLE"
    BY <2>1, <1>a DEF TypeOK
  <2>6. ASSUME NEW q \in Slot, np'[q] # None
        PROVE  /\ state'[np[q]] = "EMBRYO"
               /\ state'[q] \in Live
               /\ context[q] \in {"none", "yield"}
               /\ parent[np[q]] = IF pc'[q] = "forkready" THEN q ELSE None
               /\ np'[q] = np[q]
    <3>1. q # p /\ np'[q] = np[q] /\ pc'[q] = pc[q] /\ np[q] \in Slot /\ np[q] # np[p]
      BY <2>1, <2>2, <2>3, <2>6, <1>a DEF ForkOK, TypeOK
    <3>2. /\ state[np[q]] = "EMBRYO" /\ state[q] \in Live
          /\ context[q] \in {"none", "yield"}
          /\ parent[np[q]] = IF pc[q] = "forkready" THEN q ELSE None
      BY <2>6, <3>1, <1>a DEF ForkOK
    <3>3. state'[q] \in Live
      BY <2>4, <2>5, <3>2
    <3> QED
      BY <2>4, <3>1, <3>2, <3>3
  <2>7. \A s \in Slot : state'[s] = "UNUSED" => parent[s] = None
    BY <2>4, <2>5, <1>a DEF ForkOK
  <2>8. \A q \in Slot : np'[q] # None <=> pc'[q] \in {"forkcopy", "forkready"}
    BY <2>2, <2>3, <1>a DEF ForkOK
  <2>9. \A q, r \in Slot : np'[q] = np'[r] /\ np'[q] # None => q = r
    BY <2>2, <2>3, <1>a DEF ForkOK
  <2> QED
    BY <2>1, <2>6, <2>7, <2>8, <2>9 DEF ForkOK
<1>15. ASSUME NEW c \in CPU, NEW p \in Slot, Exit(c, p) PROVE ForkOK'
  <2>1. ExitEffect(c, p)
    BY <1>15, <1>a, ExitStep
  <2>2. \A s \in Slot : /\ s # p /\ state[s] \in Live => state'[s] \in Live
                        /\ s # p /\ state[s] = "EMBRYO" => state'[s] = "EMBRYO"
                        /\ state'[s] = "UNUSED" => state[s] = "UNUSED"
    BY <2>1 DEF ExitEffect
  <2>3. \A s \in Slot : parent'[s] = parent[s] \/ parent[s] = p
    BY <2>1 DEF ExitEffect
  <2>4. state[p] = "RUNNING" /\ np[p] = None
    BY <2>1, <1>a DEF ExitEffect, ForkOK
  <2>5. ASSUME NEW q \in Slot, np[q] # None
        PROVE  /\ state'[np[q]] = "EMBRYO"
               /\ state'[q] \in Live
               /\ context'[q] \in {"none", "yield"}
               /\ parent'[np[q]] = IF pc[q] = "forkready" THEN q ELSE None
    <3>1. q # p /\ np[q] \in Slot /\ np[q] # p
      BY <2>4, <2>5, <1>a DEF ForkOK, TypeOK
    <3>2. parent[np[q]] # p
      BY <2>5, <3>1, <1>a DEF ForkOK
    <3> QED
      BY <2>1, <2>2, <2>3, <2>5, <3>1, <3>2, <1>a DEF ExitEffect, ForkOK, TypeOK
  <2>6. \A s \in Slot : state'[s] = "UNUSED" => parent'[s] = None
    BY <2>2, <2>3, <1>a DEF ForkOK
  <2> QED
    BY <2>1, <2>5, <2>6, <1>a DEF ExitEffect, ForkOK
<1>16. ASSUME NEW c \in CPU, NEW p \in Slot, Wait(c, p) PROVE ForkOK'
  BY <1>16, <1>a, <1>b DEF Wait, Syscall, TypeOK, StackOwned, ContextOK, CpuOK, ForkOK
<1>17. ASSUME NEW c \in CPU, NEW p \in Slot, WaitReap(c, p) PROVE ForkOK'
  <2>1. PICK k \in Slot : ReapEffect(c, p, k)
    BY <1>17, ReapStep
  <2> QED
    BY <2>1, <1>a, <1>b DEF ReapEffect, TypeOK, StackOwned, ContextOK, CpuOK, ForkOK
<1>18. ASSUME NEW c \in CPU, NEW p \in Slot, WaitError(c, p) PROVE ForkOK'
  <2>1. holder = c
    BY <1>18, Scanning DEF WaitError
  <2> QED
    BY <2>1, <1>18, <1>a, <1>b
       DEF WaitError, TypeOK, StackOwned, ContextOK, CpuOK, ForkOK
<1>19. ASSUME NEW c \in CPU, NEW p \in Slot, WaitSleep(c, p) PROVE ForkOK'
  <2>1. holder = c
    BY <1>19, Scanning DEF WaitSleep
  <2> QED
    BY <2>1, <1>19, <1>a, <1>b
       DEF WaitSleep, TypeOK, StackOwned, ContextOK, CpuOK, ForkOK
<1>20. ASSUME NEW c \in CPU, NEW p \in Slot, SleepGo(c, p) PROVE ForkOK'
  <2>1. pc[p] \notin {"forkcopy", "forkready"}
    BY <1>20 DEF SleepGo
  <2> QED
    BY <2>1, <1>20, <1>a DEF SleepGo, TypeOK, ForkOK
<1>21. ASSUME NEW c \in CPU, NEW p \in Slot, NEW x \in 0 .. MaxPid,
             Kill(c, p, x)
      PROVE  ForkOK'
  BY <1>21, <1>a, <1>b DEF Kill, Syscall, TypeOK, StackOwned, ContextOK, CpuOK, ForkOK
<1>22. CASE TimerTick
  BY <1>22, <1>a, <1>b DEF TimerTick, TypeOK, StackOwned, ContextOK, CpuOK, ForkOK
<1>23. CASE UNCHANGED vars
  BY <1>23, <1>a, <1>b DEF vars, TypeOK, StackOwned, ContextOK, CpuOK, ForkOK
<1> QED
  BY <1>1, <1>2, <1>3, <1>4, <1>5, <1>6, <1>7, <1>8, <1>9, <1>10, <1>11, <1>12,
     <1>13, <1>14, <1>15, <1>16, <1>17, <1>18, <1>19, <1>20, <1>21, <1>22, <1>23
  DEF Next, SchedStep, KernelStep, UserStep, QuietAction

\* No slot is left in state EMBRYO without a fork at work on it
\* (LAB4/proc.c:89, :96, :196, :217).
LEMMA EmbryoOKStep == IInv /\ [Next]_vars => EmbryoOK'
<1> SUFFICES ASSUME IInv, [Next]_vars
             PROVE  EmbryoOK'
  OBVIOUS
<1> USE ProcAssumption DEF Slot, initproc, Preemptible, States, Contexts, Labels, Live,
        Goto, GiveUp, Runs, Woken, table, thread, sched
<1>a. TypeOK /\ ForkOK /\ EmbryoOK
  BY DEF IInv
<1>b. \A d \in CPU : holder # d /\ cpu[d] # None =>
          /\ state[cpu[d]] = "RUNNING"
          /\ context[cpu[d]] = "none"
          /\ pc[cpu[d]] # "waitscan"
  BY Unlocked
<1>1. ASSUME NEW c \in CPU, Swtch(c) PROVE EmbryoOK'
  BY <1>1, <1>a, <1>b DEF Swtch, TypeOK, ForkOK, EmbryoOK
<1>2. ASSUME NEW c \in CPU, SchedAcquire(c) PROVE EmbryoOK'
  BY <1>2, <1>a, <1>b DEF SchedAcquire, TypeOK, ForkOK, EmbryoOK
<1>3. ASSUME NEW c \in CPU, PassEnd(c) PROVE EmbryoOK'
  BY <1>3, <1>a, <1>b DEF PassEnd, TypeOK, ForkOK, EmbryoOK
<1>4. ASSUME NEW c \in CPU, NEW p \in Slot, Dispatch(c, p) PROVE EmbryoOK'
  BY <1>4, <1>a, <1>b DEF Dispatch, TypeOK, ForkOK, EmbryoOK
<1>5. ASSUME NEW c \in CPU, NEW p \in Slot, Forkret(c, p) PROVE EmbryoOK'
  BY <1>5, <1>a, <1>b DEF Forkret, Return, TypeOK, ForkOK, EmbryoOK
<1>6. ASSUME NEW c \in CPU, NEW p \in Slot, YieldReturn(c, p) PROVE EmbryoOK'
  BY <1>6, <1>a, <1>b DEF YieldReturn, Return, TypeOK, ForkOK, EmbryoOK
<1>7. ASSUME NEW c \in CPU, NEW p \in Slot, SleepReturn(c, p) PROVE EmbryoOK'
  BY <1>7, <1>a, <1>b DEF SleepReturn, Return, TypeOK, ForkOK, EmbryoOK
<1>8. ASSUME NEW c \in CPU, NEW p \in Slot, WaitReturn(c, p) PROVE EmbryoOK'
  BY <1>8, <1>a, <1>b DEF WaitReturn, Return, TypeOK, ForkOK, EmbryoOK
<1>9. ASSUME NEW c \in CPU, NEW p \in Slot, Yield(c, p) PROVE EmbryoOK'
  BY <1>9, <1>a, <1>b DEF Yield, TypeOK, ForkOK, EmbryoOK
<1>10. ASSUME NEW c \in CPU, NEW p \in Slot, QuietAction(c, p) PROVE EmbryoOK'
  <2>1. Quiet(c, p)
    BY <1>10, <1>a, QuietSteps
  <2> QED
    BY <2>1, <1>a, <1>b DEF Quiet, TypeOK, ForkOK, EmbryoOK
<1>11. ASSUME NEW c \in CPU, NEW p \in Slot, ForkAlloc(c, p) PROVE EmbryoOK'
  <2>1. PICK s \in Slot : AllocEffect(c, p, s)
    BY <1>11, AllocStep
  <2> QED
    BY <2>1, <1>a, <1>b DEF AllocEffect, TypeOK, ForkOK, EmbryoOK
<1>12. ASSUME NEW c \in CPU, NEW p \in Slot, ForkNoMemory(c, p) PROVE EmbryoOK'
  BY <1>12, <1>a, <1>b DEF ForkNoMemory, ForkReturnsError, TypeOK, ForkOK, EmbryoOK
<1>13. ASSUME NEW c \in CPU, NEW p \in Slot, ForkCopy(c, p) PROVE EmbryoOK'
  BY <1>13, <1>a, <1>b DEF ForkCopy, TypeOK, ForkOK, EmbryoOK
<1>14. ASSUME NEW c \in CPU, NEW p \in Slot, ForkReady(c, p) PROVE EmbryoOK'
  BY <1>14, <1>a, <1>b DEF ForkReady, TypeOK, ForkOK, EmbryoOK
<1>15. ASSUME NEW c \in CPU, NEW p \in Slot, Exit(c, p) PROVE EmbryoOK'
  <2>1. ExitEffect(c, p)
    BY <1>15, <1>a, ExitStep
  <2>2. \A s \in Slot : state'[s] = "EMBRYO" => state[s] = "EMBRYO"
    BY <2>1 DEF ExitEffect
  <2> QED
    BY <2>1, <2>2, <1>a DEF ExitEffect, EmbryoOK
<1>16. ASSUME NEW c \in CPU, NEW p \in Slot, Wait(c, p) PROVE EmbryoOK'
  BY <1>16, <1>a, <1>b DEF Wait, Syscall, TypeOK, ForkOK, EmbryoOK
<1>17. ASSUME NEW c \in CPU, NEW p \in Slot, WaitReap(c, p) PROVE EmbryoOK'
  <2>1. PICK k \in Slot : ReapEffect(c, p, k)
    BY <1>17, ReapStep
  <2> QED
    BY <2>1, <1>a, <1>b DEF ReapEffect, TypeOK, ForkOK, EmbryoOK
<1>18. ASSUME NEW c \in CPU, NEW p \in Slot, WaitError(c, p) PROVE EmbryoOK'
  <2>1. holder = c
    BY <1>18, Scanning DEF WaitError
  <2> QED
    BY <2>1, <1>18, <1>a, <1>b DEF WaitError, TypeOK, ForkOK, EmbryoOK
<1>19. ASSUME NEW c \in CPU, NEW p \in Slot, WaitSleep(c, p) PROVE EmbryoOK'
  <2>1. holder = c
    BY <1>19, Scanning DEF WaitSleep
  <2> QED
    BY <2>1, <1>19, <1>a, <1>b DEF WaitSleep, TypeOK, ForkOK, EmbryoOK
<1>20. ASSUME NEW c \in CPU, NEW p \in Slot, SleepGo(c, p) PROVE EmbryoOK'
  BY <1>20, <1>a, <1>b DEF SleepGo, TypeOK, ForkOK, EmbryoOK
<1>21. ASSUME NEW c \in CPU, NEW p \in Slot, NEW x \in 0 .. MaxPid,
             Kill(c, p, x)
      PROVE  EmbryoOK'
  BY <1>21, <1>a, <1>b DEF Kill, Syscall, TypeOK, ForkOK, EmbryoOK
<1>22. CASE TimerTick
  BY <1>22, <1>a, <1>b DEF TimerTick, TypeOK, ForkOK, EmbryoOK
<1>23. CASE UNCHANGED vars
  BY <1>23, <1>a, <1>b DEF vars, TypeOK, ForkOK, EmbryoOK
<1> QED
  BY <1>1, <1>2, <1>3, <1>4, <1>5, <1>6, <1>7, <1>8, <1>9, <1>10, <1>11, <1>12,
     <1>13, <1>14, <1>15, <1>16, <1>17, <1>18, <1>19, <1>20, <1>21, <1>22, <1>23
  DEF Next, SchedStep, KernelStep, UserStep, QuietAction

\* Init stays alive, and with it every slot somebody names as parent
\* (LAB4/proc.c:234, :255-262, :287-297).
LEMMA FamilyOKStep == IInv /\ [Next]_vars => FamilyOK'
<1> SUFFICES ASSUME IInv, [Next]_vars
             PROVE  FamilyOK'
  OBVIOUS
<1> USE ProcAssumption DEF Slot, initproc, Preemptible, States, Contexts, Labels, Live,
        Goto, GiveUp, Runs, Woken, table, thread, sched
<1>a. TypeOK /\ ContextOK /\ ForkOK /\ FamilyOK
  BY DEF IInv
<1>b. \A d \in CPU : holder # d /\ cpu[d] # None =>
          /\ state[cpu[d]] = "RUNNING"
          /\ context[cpu[d]] = "none"
          /\ pc[cpu[d]] # "waitscan"
  BY Unlocked
<1>1. ASSUME NEW c \in CPU, Swtch(c) PROVE FamilyOK'
  BY <1>1, <1>a, <1>b DEF Swtch, TypeOK, ContextOK, ForkOK, FamilyOK
<1>2. ASSUME NEW c \in CPU, SchedAcquire(c) PROVE FamilyOK'
  BY <1>2, <1>a, <1>b DEF SchedAcquire, TypeOK, ContextOK, ForkOK, FamilyOK
<1>3. ASSUME NEW c \in CPU, PassEnd(c) PROVE FamilyOK'
  BY <1>3, <1>a, <1>b DEF PassEnd, TypeOK, ContextOK, ForkOK, FamilyOK
<1>4. ASSUME NEW c \in CPU, NEW p \in Slot, Dispatch(c, p) PROVE FamilyOK'
  BY <1>4, <1>a, <1>b DEF Dispatch, TypeOK, ContextOK, ForkOK, FamilyOK
<1>5. ASSUME NEW c \in CPU, NEW p \in Slot, Forkret(c, p) PROVE FamilyOK'
  BY <1>5, <1>a, <1>b DEF Forkret, Return, TypeOK, ContextOK, ForkOK, FamilyOK
<1>6. ASSUME NEW c \in CPU, NEW p \in Slot, YieldReturn(c, p) PROVE FamilyOK'
  BY <1>6, <1>a, <1>b DEF YieldReturn, Return, TypeOK, ContextOK, ForkOK, FamilyOK
<1>7. ASSUME NEW c \in CPU, NEW p \in Slot, SleepReturn(c, p) PROVE FamilyOK'
  BY <1>7, <1>a, <1>b DEF SleepReturn, Return, TypeOK, ContextOK, ForkOK, FamilyOK
<1>8. ASSUME NEW c \in CPU, NEW p \in Slot, WaitReturn(c, p) PROVE FamilyOK'
  BY <1>8, <1>a, <1>b DEF WaitReturn, Return, TypeOK, ContextOK, ForkOK, FamilyOK
<1>9. ASSUME NEW c \in CPU, NEW p \in Slot, Yield(c, p) PROVE FamilyOK'
  BY <1>9, <1>a, <1>b DEF Yield, TypeOK, ContextOK, ForkOK, FamilyOK
<1>10. ASSUME NEW c \in CPU, NEW p \in Slot, QuietAction(c, p) PROVE FamilyOK'
  <2>1. Quiet(c, p)
    BY <1>10, <1>a, QuietSteps
  <2> QED
    BY <2>1, <1>a, <1>b DEF Quiet, TypeOK, ContextOK, ForkOK, FamilyOK
<1>11. ASSUME NEW c \in CPU, NEW p \in Slot, ForkAlloc(c, p) PROVE FamilyOK'
  <2>1. PICK s \in Slot : AllocEffect(c, p, s)
    BY <1>11, AllocStep
  <2> QED
    BY <2>1, <1>a, <1>b DEF AllocEffect, TypeOK, ContextOK, ForkOK, FamilyOK
<1>12. ASSUME NEW c \in CPU, NEW p \in Slot, ForkNoMemory(c, p) PROVE FamilyOK'
  BY <1>12, <1>a, <1>b
     DEF ForkNoMemory, ForkReturnsError, TypeOK, ContextOK, ForkOK, FamilyOK
<1>13. ASSUME NEW c \in CPU, NEW p \in Slot, ForkCopy(c, p) PROVE FamilyOK'
  BY <1>13, <1>a, <1>b DEF ForkCopy, TypeOK, ContextOK, ForkOK, FamilyOK
<1>14. ASSUME NEW c \in CPU, NEW p \in Slot, ForkReady(c, p) PROVE FamilyOK'
  BY <1>14, <1>a, <1>b DEF ForkReady, TypeOK, ContextOK, ForkOK, FamilyOK
<1>15. ASSUME NEW c \in CPU, NEW p \in Slot, Exit(c, p) PROVE FamilyOK'
  <2>1. ExitEffect(c, p)
    BY <1>15, <1>a, ExitStep
  <2>2. \A s \in Slot : s # p /\ state[s] \in Live => state'[s] \in Live
    BY <2>1 DEF ExitEffect
  <2>3. p # initproc /\ initproc \in Slot
    BY <2>1, <1>a DEF ExitEffect, FamilyOK
  <2>4. state'[initproc] \in Live /\ parent'[initproc] = None
    BY <2>1, <2>2, <2>3, <1>a DEF ExitEffect, FamilyOK
  <2>5. ASSUME NEW s \in Slot
        PROVE  parent'[s] # s /\ (parent'[s] # None => state'[parent'[s]] \in Live)
    <3>1. CASE parent[s] = p
      BY <2>1, <2>3, <2>4, <3>1, <1>a DEF ExitEffect, FamilyOK
    <3>2. CASE parent[s] # p
      <4>1. parent'[s] = parent[s]
        BY <2>1, <3>2 DEF ExitEffect
      <4>2. parent[s] # s /\ (parent[s] # None => state[parent[s]] \in Live)
        BY <2>5, <1>a DEF FamilyOK
      <4>3. parent[s] # None => parent[s] \in Slot
        BY <2>5, <1>a DEF TypeOK
      <4> QED
        BY <2>2, <3>2, <4>1, <4>2, <4>3
    <3> QED
      BY <3>1, <3>2
  <2> QED
    BY <2>1, <2>4, <2>5, <1>a DEF ExitEffect, FamilyOK
<1>16. ASSUME NEW c \in CPU, NEW p \in Slot, Wait(c, p) PROVE FamilyOK'
  BY <1>16, <1>a, <1>b DEF Wait, Syscall, TypeOK, ContextOK, ForkOK, FamilyOK
<1>17. ASSUME NEW c \in CPU, NEW p \in Slot, WaitReap(c, p) PROVE FamilyOK'
  <2>1. PICK k \in Slot : ReapEffect(c, p, k)
    BY <1>17, ReapStep
  <2> QED
    BY <2>1, <1>a, <1>b DEF ReapEffect, TypeOK, ContextOK, ForkOK, FamilyOK
<1>18. ASSUME NEW c \in CPU, NEW p \in Slot, WaitError(c, p) PROVE FamilyOK'
  <2>1. holder = c
    BY <1>18, Scanning DEF WaitError
  <2> QED
    BY <2>1, <1>18, <1>a, <1>b DEF WaitError, TypeOK, ContextOK, ForkOK, FamilyOK
<1>19. ASSUME NEW c \in CPU, NEW p \in Slot, WaitSleep(c, p) PROVE FamilyOK'
  <2>1. holder = c
    BY <1>19, Scanning DEF WaitSleep
  <2> QED
    BY <2>1, <1>19, <1>a, <1>b DEF WaitSleep, TypeOK, ContextOK, ForkOK, FamilyOK
<1>20. ASSUME NEW c \in CPU, NEW p \in Slot, SleepGo(c, p) PROVE FamilyOK'
  BY <1>20, <1>a, <1>b DEF SleepGo, TypeOK, ContextOK, ForkOK, FamilyOK
<1>21. ASSUME NEW c \in CPU, NEW p \in Slot, NEW x \in 0 .. MaxPid,
             Kill(c, p, x)
      PROVE  FamilyOK'
  BY <1>21, <1>a, <1>b DEF Kill, Syscall, TypeOK, ContextOK, ForkOK, FamilyOK
<1>22. CASE TimerTick
  BY <1>22, <1>a, <1>b DEF TimerTick, TypeOK, ContextOK, ForkOK, FamilyOK
<1>23. CASE UNCHANGED vars
  BY <1>23, <1>a, <1>b DEF vars, TypeOK, ContextOK, ForkOK, FamilyOK
<1> QED
  BY <1>1, <1>2, <1>3, <1>4, <1>5, <1>6, <1>7, <1>8, <1>9, <1>10, <1>11, <1>12,
     <1>13, <1>14, <1>15, <1>16, <1>17, <1>18, <1>19, <1>20, <1>21, <1>22, <1>23
  DEF Next, SchedStep, KernelStep, UserStep, QuietAction

\* fork, exit and wait keep every process but init below a live parent
\* (LAB4/proc.c:200, :255-262, :287-297).
LEMMA ParentAliveStep == IInv /\ [Next]_vars => ParentAlive'
<1> SUFFICES ASSUME IInv, [Next]_vars
             PROVE  ParentAlive'
  OBVIOUS
<1> USE ProcAssumption DEF Slot, initproc, Preemptible, States, Contexts, Labels, Live,
        Goto, GiveUp, Runs, Woken, table, thread, sched
<1>a. TypeOK /\ ContextOK /\ ForkOK /\ FamilyOK /\ ParentAlive
  BY DEF IInv
<1>b. \A d \in CPU : holder # d /\ cpu[d] # None =>
          /\ state[cpu[d]] = "RUNNING"
          /\ context[cpu[d]] = "none"
          /\ pc[cpu[d]] # "waitscan"
  BY Unlocked
<1>1. ASSUME NEW c \in CPU, Swtch(c) PROVE ParentAlive'
  BY <1>1, <1>a, <1>b DEF Swtch, TypeOK, ContextOK, ForkOK, FamilyOK, ParentAlive
<1>2. ASSUME NEW c \in CPU, SchedAcquire(c) PROVE ParentAlive'
  BY <1>2, <1>a, <1>b DEF SchedAcquire, TypeOK, ContextOK, ForkOK, FamilyOK, ParentAlive
<1>3. ASSUME NEW c \in CPU, PassEnd(c) PROVE ParentAlive'
  BY <1>3, <1>a, <1>b DEF PassEnd, TypeOK, ContextOK, ForkOK, FamilyOK, ParentAlive
<1>4. ASSUME NEW c \in CPU, NEW p \in Slot, Dispatch(c, p) PROVE ParentAlive'
  BY <1>4, <1>a, <1>b DEF Dispatch, TypeOK, ContextOK, ForkOK, FamilyOK, ParentAlive
<1>5. ASSUME NEW c \in CPU, NEW p \in Slot, Forkret(c, p) PROVE ParentAlive'
  BY <1>5, <1>a, <1>b
     DEF Forkret, Return, TypeOK, ContextOK, ForkOK, FamilyOK, ParentAlive
<1>6. ASSUME NEW c \in CPU, NEW p \in Slot, YieldReturn(c, p) PROVE ParentAlive'
  BY <1>6, <1>a, <1>b
     DEF YieldReturn, Return, TypeOK, ContextOK, ForkOK, FamilyOK, ParentAlive
<1>7. ASSUME NEW c \in CPU, NEW p \in Slot, SleepReturn(c, p) PROVE ParentAlive'
  BY <1>7, <1>a, <1>b
     DEF SleepReturn, Return, TypeOK, ContextOK, ForkOK, FamilyOK, ParentAlive
<1>8. ASSUME NEW c \in CPU, NEW p \in Slot, WaitReturn(c, p) PROVE ParentAlive'
  BY <1>8, <1>a, <1>b
     DEF WaitReturn, Return, TypeOK, ContextOK, ForkOK, FamilyOK, ParentAlive
<1>9. ASSUME NEW c \in CPU, NEW p \in Slot, Yield(c, p) PROVE ParentAlive'
  BY <1>9, <1>a, <1>b DEF Yield, TypeOK, ContextOK, ForkOK, FamilyOK, ParentAlive
<1>10. ASSUME NEW c \in CPU, NEW p \in Slot, QuietAction(c, p) PROVE ParentAlive'
  <2>1. Quiet(c, p)
    BY <1>10, <1>a, QuietSteps
  <2> QED
    BY <2>1, <1>a, <1>b DEF Quiet, TypeOK, ContextOK, ForkOK, FamilyOK, ParentAlive
<1>11. ASSUME NEW c \in CPU, NEW p \in Slot, ForkAlloc(c, p) PROVE ParentAlive'
  <2>1. PICK s \in Slot : AllocEffect(c, p, s)
    BY <1>11, AllocStep
  <2> QED
    BY <2>1, <1>a, <1>b
       DEF AllocEffect, TypeOK, ContextOK, ForkOK, FamilyOK, ParentAlive
<1>12. ASSUME NEW c \in CPU, NEW p \in Slot, ForkNoMemory(c, p) PROVE ParentAlive'
  BY <1>12, <1>a, <1>b
     DEF ForkNoMemory, ForkReturnsError, TypeOK, ContextOK, ForkOK, FamilyOK,
         ParentAlive
<1>13. ASSUME NEW c \in CPU, NEW p \in Slot, ForkCopy(c, p) PROVE ParentAlive'
  BY <1>13, <1>a, <1>b DEF ForkCopy, TypeOK, ContextOK, ForkOK, FamilyOK, ParentAlive
<1>14. ASSUME NEW c \in CPU, NEW p \in Slot, ForkReady(c, p) PROVE ParentAlive'
  BY <1>14, <1>a, <1>b DEF ForkReady, TypeOK, ContextOK, ForkOK, FamilyOK, ParentAlive
<1>15. ASSUME NEW c \in CPU, NEW p \in Slot, Exit(c, p) PROVE ParentAlive'
  <2>1. ExitEffect(c, p)
    BY <1>15, <1>a, ExitStep
  <2>2. \A s \in Slot : s # p /\ state[s] \in Live => state'[s] \in Live
    BY <2>1 DEF ExitEffect
  <2>3. p # initproc /\ state'[initproc] \in Live
    BY <2>1, <2>2, <1>a DEF ExitEffect, FamilyOK
  <2>4. ASSUME NEW s \in Slot, state'[s] \notin {"UNUSED", "EMBRYO"}, s # initproc
        PROVE  parent'[s] # None /\ state'[parent'[s]] \in Live
    <3>1. state[s] \notin {"UNUSED", "EMBRYO"}
      BY <2>1, <2>4 DEF ExitEffect
    <3>2. parent[s] # None /\ parent[s] \in Slot /\ state[parent[s]] \in Live
      BY <2>4, <3>1, <1>a DEF ParentAlive, TypeOK
    <3>3. CASE parent[s] = p
      BY <2>1, <2>3, <3>3 DEF ExitEffect
    <3>4. CASE parent[s] # p
      BY <2>1, <2>2, <3>2, <3>4 DEF ExitEffect
    <3> QED
      BY <3>3, <3>4
  <2> QED
    BY <2>4 DEF ParentAlive
<1>16. ASSUME NEW c \in CPU, NEW p \in Slot, Wait(c, p) PROVE ParentAlive'
  BY <1>16, <1>a, <1>b
     DEF Wait, Syscall, TypeOK, ContextOK, ForkOK, FamilyOK, ParentAlive
<1>17. ASSUME NEW c \in CPU, NEW p \in Slot, WaitReap(c, p) PROVE ParentAlive'
  <2>1. PICK k \in Slot : ReapEffect(c, p, k)
    BY <1>17, ReapStep
  <2> QED
    BY <2>1, <1>a, <1>b DEF ReapEffect, TypeOK, ContextOK, ForkOK, FamilyOK, ParentAlive
<1>18. ASSUME NEW c \in CPU, NEW p \in Slot, WaitError(c, p) PROVE ParentAlive'
  <2>1. holder = c
    BY <1>18, Scanning DEF WaitError
  <2> QED
    BY <2>1, <1>18, <1>a, <1>b
       DEF WaitError, TypeOK, ContextOK, ForkOK, FamilyOK, ParentAlive
<1>19. ASSUME NEW c \in CPU, NEW p \in Slot, WaitSleep(c, p) PROVE ParentAlive'
  <2>1. holder = c
    BY <1>19, Scanning DEF WaitSleep
  <2> QED
    BY <2>1, <1>19, <1>a, <1>b
       DEF WaitSleep, TypeOK, ContextOK, ForkOK, FamilyOK, ParentAlive
<1>20. ASSUME NEW c \in CPU, NEW p \in Slot, SleepGo(c, p) PROVE ParentAlive'
  BY <1>20, <1>a, <1>b DEF SleepGo, TypeOK, ContextOK, ForkOK, FamilyOK, ParentAlive
<1>21. ASSUME NEW c \in CPU, NEW p \in Slot, NEW x \in 0 .. MaxPid,
             Kill(c, p, x)
      PROVE  ParentAlive'
  BY <1>21, <1>a, <1>b
     DEF Kill, Syscall, TypeOK, ContextOK, ForkOK, FamilyOK, ParentAlive
<1>22. CASE TimerTick
  BY <1>22, <1>a, <1>b DEF TimerTick, TypeOK, ContextOK, ForkOK, FamilyOK, ParentAlive
<1>23. CASE UNCHANGED vars
  BY <1>23, <1>a, <1>b DEF vars, TypeOK, ContextOK, ForkOK, FamilyOK, ParentAlive
<1> QED
  BY <1>1, <1>2, <1>3, <1>4, <1>5, <1>6, <1>7, <1>8, <1>9, <1>10, <1>11, <1>12,
     <1>13, <1>14, <1>15, <1>16, <1>17, <1>18, <1>19, <1>20, <1>21, <1>22, <1>23
  DEF Next, SchedStep, KernelStep, UserStep, QuietAction

\* Nothing a sleeper in wait is waiting for happens without waking it
\* (LAB4/proc.c:253-260, :304-310, :487-490).
LEMMA WaiterHasReasonStep == IInv /\ [Next]_vars => WaiterHasReason'
<1> SUFFICES ASSUME IInv, [Next]_vars
             PROVE  WaiterHasReason'
  OBVIOUS
<1> USE ProcAssumption DEF Slot, initproc, Preemptible, States, Contexts, Labels, Live,
        Goto, GiveUp, Runs, Woken, table, thread, sched
<1>a. TypeOK /\ ContextOK /\ ForkOK /\ FamilyOK /\ WaiterHasReason
  BY DEF IInv
<1>b. \A d \in CPU : holder # d /\ cpu[d] # None =>
          /\ state[cpu[d]] = "RUNNING"
          /\ context[cpu[d]] = "none"
          /\ pc[cpu[d]] # "waitscan"
  BY Unlocked
<1>1. ASSUME NEW c \in CPU, Swtch(c) PROVE WaiterHasReason'
  BY <1>1, <1>a, <1>b
     DEF Swtch, TypeOK, ContextOK, ForkOK, FamilyOK, WaiterHasReason, Children,
         ZombieChildren
<1>2. ASSUME NEW c \in CPU, SchedAcquire(c) PROVE WaiterHasReason'
  BY <1>2, <1>a, <1>b
     DEF SchedAcquire, TypeOK, ContextOK, ForkOK, FamilyOK, WaiterHasReason, Children,
         ZombieChildren
<1>3. ASSUME NEW c \in CPU, PassEnd(c) PROVE WaiterHasReason'
  BY <1>3, <1>a, <1>b
     DEF PassEnd, TypeOK, ContextOK, ForkOK, FamilyOK, WaiterHasReason, Children,
         ZombieChildren
<1>4. ASSUME NEW c \in CPU, NEW p \in Slot, Dispatch(c, p) PROVE WaiterHasReason'
  BY <1>4, <1>a, <1>b
     DEF Dispatch, TypeOK, ContextOK, ForkOK, FamilyOK, WaiterHasReason, Children,
         ZombieChildren
<1>5. ASSUME NEW c \in CPU, NEW p \in Slot, Forkret(c, p) PROVE WaiterHasReason'
  BY <1>5, <1>a, <1>b
     DEF Forkret, Return, TypeOK, ContextOK, ForkOK, FamilyOK, WaiterHasReason,
         Children, ZombieChildren
<1>6. ASSUME NEW c \in CPU, NEW p \in Slot, YieldReturn(c, p) PROVE WaiterHasReason'
  BY <1>6, <1>a, <1>b
     DEF YieldReturn, Return, TypeOK, ContextOK, ForkOK, FamilyOK, WaiterHasReason,
         Children, ZombieChildren
<1>7. ASSUME NEW c \in CPU, NEW p \in Slot, SleepReturn(c, p) PROVE WaiterHasReason'
  BY <1>7, <1>a, <1>b
     DEF SleepReturn, Return, TypeOK, ContextOK, ForkOK, FamilyOK, WaiterHasReason,
         Children, ZombieChildren
<1>8. ASSUME NEW c \in CPU, NEW p \in Slot, WaitReturn(c, p) PROVE WaiterHasReason'
  BY <1>8, <1>a, <1>b
     DEF WaitReturn, Return, TypeOK, ContextOK, ForkOK, FamilyOK, WaiterHasReason,
         Children, ZombieChildren
<1>9. ASSUME NEW c \in CPU, NEW p \in Slot, Yield(c, p) PROVE WaiterHasReason'
  BY <1>9, <1>a, <1>b
     DEF Yield, TypeOK, ContextOK, ForkOK, FamilyOK, WaiterHasReason, Children,
         ZombieChildren
<1>10. ASSUME NEW c \in CPU, NEW p \in Slot, QuietAction(c, p) PROVE WaiterHasReason'
  <2>1. Quiet(c, p)
    BY <1>10, <1>a, QuietSteps
  <2> QED
    BY <2>1, <1>a, <1>b
       DEF Quiet, TypeOK, ContextOK, ForkOK, FamilyOK, WaiterHasReason, Children,
           ZombieChildren
<1>11. ASSUME NEW c \in CPU, NEW p \in Slot, ForkAlloc(c, p) PROVE WaiterHasReason'
  <2>1. PICK s \in Slot : AllocEffect(c, p, s)
    BY <1>11, AllocStep
  <2>2. /\ state' = [state EXCEPT ![s] = "EMBRYO"] /\ UNCHANGED <<parent, chan, killed>>
        /\ state[s] = "UNUSED"
    BY <2>1 DEF AllocEffect
  <2>3. \A q \in Slot : /\ state'[q] = "SLEEPING" <=> state[q] = "SLEEPING"
                        /\ state'[q] = "ZOMBIE" <=> state[q] = "ZOMBIE"
    BY <2>2, <1>a DEF TypeOK
  <2> QED
    BY <2>2, <2>3, <1>a DEF WaiterHasReason, Children, ZombieChildren
<1>12. ASSUME NEW c \in CPU, NEW p \in Slot, ForkNoMemory(c, p) PROVE WaiterHasReason'
  BY <1>12, <1>a, <1>b
     DEF ForkNoMemory, ForkReturnsError, TypeOK, ContextOK, ForkOK, FamilyOK,
         WaiterHasReason, Children, ZombieChildren
<1>13. ASSUME NEW c \in CPU, NEW p \in Slot, ForkCopy(c, p) PROVE WaiterHasReason'
  <2>1. /\ np[p] \in Slot
        /\ state[np[p]] = "EMBRYO"
        /\ parent[np[p]] = None
        /\ parent' = [parent EXCEPT ![np[p]] = p]
        /\ state[p] = "RUNNING"
    BY <1>13, <1>a DEF ForkCopy, TypeOK, ForkOK
  <2> SUFFICES ASSUME NEW q \in Slot, state[q] = "SLEEPING", chan[q] = q
               PROVE  /\ Children(q)' # {}
                      /\ ZombieChildren(q)' = {}
                      /\ ~killed[q]
    BY <1>13 DEF WaiterHasReason, ForkCopy
  <2>2. Children(q)' = Children(q)
    BY <2>1, <1>a DEF Children, TypeOK
  <2> QED
    BY <2>2, <1>13, <1>a DEF WaiterHasReason, ZombieChildren, ForkCopy
<1>14. ASSUME NEW c \in CPU, NEW p \in Slot, ForkReady(c, p) PROVE WaiterHasReason'
  BY <1>14, <1>a, <1>b
     DEF ForkReady, TypeOK, ContextOK, ForkOK, FamilyOK, WaiterHasReason, Children,
         ZombieChildren
<1>15. ASSUME NEW c \in CPU, NEW p \in Slot, Exit(c, p) PROVE WaiterHasReason'
  <2>1. ExitEffect(c, p)
    BY <1>15, <1>a, ExitStep
  <2> SUFFICES ASSUME NEW q \in Slot, state'[q] = "SLEEPING", chan'[q] = q
               PROVE  /\ Children(q)' # {}
                      /\ ZombieChildren(q)' = {}
                      /\ ~killed'[q]
    BY DEF WaiterHasReason
  <2>2. q # p /\ state[q] = "SLEEPING" /\ chan[q] = q /\ q # parent[p]
    BY <2>1 DEF ExitEffect
  <2>3. /\ \E k \in Slot : parent[k] = q
        /\ \A k \in Slot : parent[k] = q => state[k] # "ZOMBIE"
        /\ ~killed[q]
    BY <2>2, <1>a DEF WaiterHasReason, Children, ZombieChildren
  <2>4. \E k \in Slot : parent'[k] = q
    BY <2>1, <2>2, <2>3 DEF ExitEffect
  <2>5. ASSUME NEW k \in Slot, parent'[k] = q, state'[k] = "ZOMBIE" PROVE FALSE
    <3>1. k # p
      <4>1. parent[p] # p
        BY <1>15, <1>a DEF FamilyOK
      <4> QED
        BY <2>1, <2>2, <2>5, <4>1 DEF ExitEffect
    <3>2. state[k] = "ZOMBIE"
      BY <2>1, <2>5, <3>1 DEF ExitEffect
    <3>3. parent[k] = p /\ q = initproc
      BY <2>1, <2>3, <2>5, <3>2 DEF ExitEffect
    <3> QED
      BY <2>1, <2>2, <2>5, <3>2, <3>3 DEF ExitEffect
  <2> QED
    BY <2>1, <2>3, <2>4, <2>5 DEF Children, ZombieChildren, ExitEffect
<1>16. ASSUME NEW c \in CPU, NEW p \in Slot, Wait(c, p) PROVE WaiterHasReason'
  BY <1>16, <1>a, <1>b
     DEF Wait, Syscall, TypeOK, ContextOK, ForkOK, FamilyOK, WaiterHasReason, Children,
         ZombieChildren
<1>17. ASSUME NEW c \in CPU, NEW p \in Slot, WaitReap(c, p) PROVE WaiterHasReason'
  <2>1. PICK k \in Slot : ReapEffect(c, p, k)
    BY <1>17, ReapStep
  <2> QED
    BY <2>1, <1>a, <1>b
       DEF ReapEffect, TypeOK, ContextOK, ForkOK, FamilyOK, WaiterHasReason, Children,
           ZombieChildren
<1>18. ASSUME NEW c \in CPU, NEW p \in Slot, WaitError(c, p) PROVE WaiterHasReason'
  <2>1. holder = c
    BY <1>18, Scanning DEF WaitError
  <2> QED
    BY <2>1, <1>18, <1>a, <1>b
       DEF WaitError, TypeOK, ContextOK, ForkOK, FamilyOK, WaiterHasReason, Children,
           ZombieChildren
<1>19. ASSUME NEW c \in CPU, NEW p \in Slot, WaitSleep(c, p) PROVE WaiterHasReason'
  <2>1. holder = c
    BY <1>19, Scanning DEF WaitSleep
  <2> QED
    BY <2>1, <1>19, <1>a, <1>b
       DEF WaitSleep, TypeOK, ContextOK, ForkOK, FamilyOK, WaiterHasReason, Children,
           ZombieChildren
<1>20. ASSUME NEW c \in CPU, NEW p \in Slot, SleepGo(c, p) PROVE WaiterHasReason'
  BY <1>20, <1>a, <1>b
     DEF SleepGo, TypeOK, ContextOK, ForkOK, FamilyOK, WaiterHasReason, Children,
         ZombieChildren
<1>21. ASSUME NEW c \in CPU, NEW p \in Slot, NEW x \in 0 .. MaxPid,
             Kill(c, p, x)
      PROVE  WaiterHasReason'
  BY <1>21, <1>a, <1>b
     DEF Kill, Syscall, TypeOK, ContextOK, ForkOK, FamilyOK, WaiterHasReason, Children,
         ZombieChildren
<1>22. CASE TimerTick
  BY <1>22, <1>a, <1>b
     DEF TimerTick, TypeOK, ContextOK, ForkOK, FamilyOK, WaiterHasReason, Children,
         ZombieChildren
<1>23. CASE UNCHANGED vars
  BY <1>23, <1>a, <1>b
     DEF vars, TypeOK, ContextOK, ForkOK, FamilyOK, WaiterHasReason, Children,
         ZombieChildren
<1> QED
  BY <1>1, <1>2, <1>3, <1>4, <1>5, <1>6, <1>7, <1>8, <1>9, <1>10, <1>11, <1>12,
     <1>13, <1>14, <1>15, <1>16, <1>17, <1>18, <1>19, <1>20, <1>21, <1>22, <1>23
  DEF Next, SchedStep, KernelStep, UserStep, QuietAction

\* nextpid is above every pid in the table, stale ones included (LAB4/proc.c:90).
LEMMA PidsOKStep == IInv /\ [Next]_vars => PidsOK'
<1> SUFFICES ASSUME IInv, [Next]_vars
             PROVE  PidsOK'
  OBVIOUS
<1> USE ProcAssumption DEF Slot, initproc, Preemptible, States, Contexts, Labels, Live,
        Goto, GiveUp, Runs, Woken, table, thread, sched
<1>a. TypeOK /\ PidsOK
  BY DEF IInv
<1>b. \A d \in CPU : holder # d /\ cpu[d] # None =>
          /\ state[cpu[d]] = "RUNNING"
          /\ context[cpu[d]] = "none"
          /\ pc[cpu[d]] # "waitscan"
  BY Unlocked
<1>1. ASSUME NEW c \in CPU, Swtch(c) PROVE PidsOK'
  BY <1>1, <1>a, <1>b DEF Swtch, TypeOK, PidsOK
<1>2. ASSUME NEW c \in CPU, SchedAcquire(c) PROVE PidsOK'
  BY <1>2, <1>a, <1>b DEF SchedAcquire, TypeOK, PidsOK
<1>3. ASSUME NEW c \in CPU, PassEnd(c) PROVE PidsOK'
  BY <1>3, <1>a, <1>b DEF PassEnd, TypeOK, PidsOK
<1>4. ASSUME NEW c \in CPU, NEW p \in Slot, Dispatch(c, p) PROVE PidsOK'
  BY <1>4, <1>a, <1>b DEF Dispatch, TypeOK, PidsOK
<1>5. ASSUME NEW c \in CPU, NEW p \in Slot, Forkret(c, p) PROVE PidsOK'
  BY <1>5, <1>a, <1>b DEF Forkret, Return, TypeOK, PidsOK
<1>6. ASSUME NEW c \in CPU, NEW p \in Slot, YieldReturn(c, p) PROVE PidsOK'
  BY <1>6, <1>a, <1>b DEF YieldReturn, Return, TypeOK, PidsOK
<1>7. ASSUME NEW c \in CPU, NEW p \in Slot, SleepReturn(c, p) PROVE PidsOK'
  BY <1>7, <1>a, <1>b DEF SleepReturn, Return, TypeOK, PidsOK
<1>8. ASSUME NEW c \in CPU, NEW p \in Slot, WaitReturn(c, p) PROVE PidsOK'
  BY <1>8, <1>a, <1>b DEF WaitReturn, Return, TypeOK, PidsOK
<1>9. ASSUME NEW c \in CPU, NEW p \in Slot, Yield(c, p) PROVE PidsOK'
  BY <1>9, <1>a, <1>b DEF Yield, TypeOK, PidsOK
<1>10. ASSUME NEW c \in CPU, NEW p \in Slot, QuietAction(c, p) PROVE PidsOK'
  <2>1. Quiet(c, p)
    BY <1>10, <1>a, QuietSteps
  <2> QED
    BY <2>1, <1>a, <1>b DEF Quiet, TypeOK, PidsOK
<1>11. ASSUME NEW c \in CPU, NEW p \in Slot, ForkAlloc(c, p) PROVE PidsOK'
  <2>1. PICK s \in Slot : AllocEffect(c, p, s)
    BY <1>11, AllocStep
  <2> QED
    BY <2>1, <1>a, <1>b DEF AllocEffect, TypeOK, PidsOK
<1>12. ASSUME NEW c \in CPU, NEW p \in Slot, ForkNoMemory(c, p) PROVE PidsOK'
  BY <1>12, <1>a, <1>b DEF ForkNoMemory, ForkReturnsError, TypeOK, PidsOK
<1>13. ASSUME NEW c \in CPU, NEW p \in Slot, ForkCopy(c, p) PROVE PidsOK'
  BY <1>13, <1>a, <1>b DEF ForkCopy, TypeOK, PidsOK
<1>14. ASSUME NEW c \in CPU, NEW p \in Slot, ForkReady(c, p) PROVE PidsOK'
  BY <1>14, <1>a, <1>b DEF ForkReady, TypeOK, PidsOK
<1>15. ASSUME NEW c \in CPU, NEW p \in Slot, Exit(c, p) PROVE PidsOK'
  <2>1. ExitEffect(c, p)
    BY <1>15, <1>a, ExitStep
  <2> QED
    BY <2>1, <1>a, <1>b DEF ExitEffect, TypeOK, PidsOK
<1>16. ASSUME NEW c \in CPU, NEW p \in Slot, Wait(c, p) PROVE PidsOK'
  BY <1>16, <1>a, <1>b DEF Wait, Syscall, TypeOK, PidsOK
<1>17. ASSUME NEW c \in CPU, NEW p \in Slot, WaitReap(c, p) PROVE PidsOK'
  <2>1. PICK k \in Slot : ReapEffect(c, p, k)
    BY <1>17, ReapStep
  <2> QED
    BY <2>1, <1>a, <1>b DEF ReapEffect, TypeOK, PidsOK
<1>18. ASSUME NEW c \in CPU, NEW p \in Slot, WaitError(c, p) PROVE PidsOK'
  <2>1. holder = c
    BY <1>18, Scanning DEF WaitError
  <2> QED
    BY <2>1, <1>18, <1>a, <1>b DEF WaitError, TypeOK, PidsOK
<1>19. ASSUME NEW c \in CPU, NEW p \in Slot, WaitSleep(c, p) PROVE PidsOK'
  <2>1. holder = c
    BY <1>19, Scanning DEF WaitSleep
  <2> QED
    BY <2>1, <1>19, <1>a, <1>b DEF WaitSleep, TypeOK, PidsOK
<1>20. ASSUME NEW c \in CPU, NEW p \in Slot, SleepGo(c, p) PROVE PidsOK'
  BY <1>20, <1>a, <1>b DEF SleepGo, TypeOK, PidsOK
<1>21. ASSUME NEW c \in CPU, NEW p \in Slot, NEW x \in 0 .. MaxPid,
             Kill(c, p, x)
      PROVE  PidsOK'
  BY <1>21, <1>a, <1>b DEF Kill, Syscall, TypeOK, PidsOK
<1>22. CASE TimerTick
  BY <1>22, <1>a, <1>b DEF TimerTick, TypeOK, PidsOK
<1>23. CASE UNCHANGED vars
  BY <1>23, <1>a, <1>b DEF vars, TypeOK, PidsOK
<1> QED
  BY <1>1, <1>2, <1>3, <1>4, <1>5, <1>6, <1>7, <1>8, <1>9, <1>10, <1>11, <1>12,
     <1>13, <1>14, <1>15, <1>16, <1>17, <1>18, <1>19, <1>20, <1>21, <1>22, <1>23
  DEF Next, SchedStep, KernelStep, UserStep, QuietAction

\* Pids of slots in use stay different (LAB4/proc.c:90, :193-198, :287-297).
LEMMA UniquePidsStep == IInv /\ [Next]_vars => UniquePids'
<1> SUFFICES ASSUME IInv, [Next]_vars
             PROVE  UniquePids'
  OBVIOUS
<1> USE ProcAssumption DEF Slot, initproc, Preemptible, States, Contexts, Labels, Live,
        Goto, GiveUp, Runs, Woken, table, thread, sched
<1>a. TypeOK /\ ForkOK /\ PidsOK /\ UniquePids
  BY DEF IInv
<1>b. \A d \in CPU : holder # d /\ cpu[d] # None =>
          /\ state[cpu[d]] = "RUNNING"
          /\ context[cpu[d]] = "none"
          /\ pc[cpu[d]] # "waitscan"
  BY Unlocked
<1>1. ASSUME NEW c \in CPU, Swtch(c) PROVE UniquePids'
  BY <1>1, <1>a, <1>b DEF Swtch, TypeOK, ForkOK, PidsOK, UniquePids
<1>2. ASSUME NEW c \in CPU, SchedAcquire(c) PROVE UniquePids'
  BY <1>2, <1>a, <1>b DEF SchedAcquire, TypeOK, ForkOK, PidsOK, UniquePids
<1>3. ASSUME NEW c \in CPU, PassEnd(c) PROVE UniquePids'
  BY <1>3, <1>a, <1>b DEF PassEnd, TypeOK, ForkOK, PidsOK, UniquePids
<1>4. ASSUME NEW c \in CPU, NEW p \in Slot, Dispatch(c, p) PROVE UniquePids'
  BY <1>4, <1>a, <1>b DEF Dispatch, TypeOK, ForkOK, PidsOK, UniquePids
<1>5. ASSUME NEW c \in CPU, NEW p \in Slot, Forkret(c, p) PROVE UniquePids'
  BY <1>5, <1>a, <1>b DEF Forkret, Return, TypeOK, ForkOK, PidsOK, UniquePids
<1>6. ASSUME NEW c \in CPU, NEW p \in Slot, YieldReturn(c, p) PROVE UniquePids'
  BY <1>6, <1>a, <1>b DEF YieldReturn, Return, TypeOK, ForkOK, PidsOK, UniquePids
<1>7. ASSUME NEW c \in CPU, NEW p \in Slot, SleepReturn(c, p) PROVE UniquePids'
  BY <1>7, <1>a, <1>b DEF SleepReturn, Return, TypeOK, ForkOK, PidsOK, UniquePids
<1>8. ASSUME NEW c \in CPU, NEW p \in Slot, WaitReturn(c, p) PROVE UniquePids'
  BY <1>8, <1>a, <1>b DEF WaitReturn, Return, TypeOK, ForkOK, PidsOK, UniquePids
<1>9. ASSUME NEW c \in CPU, NEW p \in Slot, Yield(c, p) PROVE UniquePids'
  BY <1>9, <1>a, <1>b DEF Yield, TypeOK, ForkOK, PidsOK, UniquePids
<1>10. ASSUME NEW c \in CPU, NEW p \in Slot, QuietAction(c, p) PROVE UniquePids'
  <2>1. Quiet(c, p)
    BY <1>10, <1>a, QuietSteps
  <2> QED
    BY <2>1, <1>a, <1>b DEF Quiet, TypeOK, ForkOK, PidsOK, UniquePids
<1>11. ASSUME NEW c \in CPU, NEW p \in Slot, ForkAlloc(c, p) PROVE UniquePids'
  <2>1. PICK s \in Slot : AllocEffect(c, p, s)
    BY <1>11, AllocStep
  <2>2. /\ state' = [state EXCEPT ![s] = "EMBRYO"]
        /\ pid' = [pid EXCEPT ![s] = nextpid]
    BY <2>1 DEF AllocEffect
  <2>3. /\ state'[s] = "EMBRYO" /\ pid'[s] = nextpid
        /\ \A q \in Slot : q # s => state'[q] = state[q] /\ pid'[q] = pid[q]
    BY <2>2, <1>a DEF TypeOK
  <2>4. nextpid # 0 /\ \A q \in Slot : pid[q] # nextpid
    BY <1>a DEF TypeOK, PidsOK
  <2> QED
    BY <2>3, <2>4, <1>a DEF UniquePids
<1>12. ASSUME NEW c \in CPU, NEW p \in Slot, ForkNoMemory(c, p) PROVE UniquePids'
  BY <1>12, <1>a, <1>b
     DEF ForkNoMemory, ForkReturnsError, TypeOK, ForkOK, PidsOK, UniquePids
<1>13. ASSUME NEW c \in CPU, NEW p \in Slot, ForkCopy(c, p) PROVE UniquePids'
  BY <1>13, <1>a, <1>b DEF ForkCopy, TypeOK, ForkOK, PidsOK, UniquePids
<1>14. ASSUME NEW c \in CPU, NEW p \in Slot, ForkReady(c, p) PROVE UniquePids'
  BY <1>14, <1>a, <1>b DEF ForkReady, TypeOK, ForkOK, PidsOK, UniquePids
<1>15. ASSUME NEW c \in CPU, NEW p \in Slot, Exit(c, p) PROVE UniquePids'
  <2>1. ExitEffect(c, p)
    BY <1>15, <1>a, ExitStep
  <2>2. \A s \in Slot : state'[s] # "UNUSED" => state[s] # "UNUSED"
    BY <2>1, <1>a DEF ExitEffect
  <2> QED
    BY <2>1, <2>2, <1>a DEF ExitEffect, UniquePids
<1>16. ASSUME NEW c \in CPU, NEW p \in Slot, Wait(c, p) PROVE UniquePids'
  BY <1>16, <1>a, <1>b DEF Wait, Syscall, TypeOK, ForkOK, PidsOK, UniquePids
<1>17. ASSUME NEW c \in CPU, NEW p \in Slot, WaitReap(c, p) PROVE UniquePids'
  <2>1. PICK k \in Slot : ReapEffect(c, p, k)
    BY <1>17, ReapStep
  <2> QED
    BY <2>1, <1>a, <1>b DEF ReapEffect, TypeOK, ForkOK, PidsOK, UniquePids
<1>18. ASSUME NEW c \in CPU, NEW p \in Slot, WaitError(c, p) PROVE UniquePids'
  <2>1. holder = c
    BY <1>18, Scanning DEF WaitError
  <2> QED
    BY <2>1, <1>18, <1>a, <1>b DEF WaitError, TypeOK, ForkOK, PidsOK, UniquePids
<1>19. ASSUME NEW c \in CPU, NEW p \in Slot, WaitSleep(c, p) PROVE UniquePids'
  <2>1. holder = c
    BY <1>19, Scanning DEF WaitSleep
  <2> QED
    BY <2>1, <1>19, <1>a, <1>b DEF WaitSleep, TypeOK, ForkOK, PidsOK, UniquePids
<1>20. ASSUME NEW c \in CPU, NEW p \in Slot, SleepGo(c, p) PROVE UniquePids'
  BY <1>20, <1>a, <1>b DEF SleepGo, TypeOK, ForkOK, PidsOK, UniquePids
<1>21. ASSUME NEW c \in CPU, NEW p \in Slot, NEW x \in 0 .. MaxPid,
             Kill(c, p, x)
      PROVE  UniquePids'
  BY <1>21, <1>a, <1>b DEF Kill, Syscall, TypeOK, ForkOK, PidsOK, UniquePids
<1>22. CASE TimerTick
  BY <1>22, <1>a, <1>b DEF TimerTick, TypeOK, ForkOK, PidsOK, UniquePids
<1>23. CASE UNCHANGED vars
  BY <1>23, <1>a, <1>b DEF vars, TypeOK, ForkOK, PidsOK, UniquePids
<1> QED
  BY <1>1, <1>2, <1>3, <1>4, <1>5, <1>6, <1>7, <1>8, <1>9, <1>10, <1>11, <1>12,
     <1>13, <1>14, <1>15, <1>16, <1>17, <1>18, <1>19, <1>20, <1>21, <1>22, <1>23
  DEF Next, SchedStep, KernelStep, UserStep, QuietAction

-----------------------------------------------------------------------------
\* userinit() establishes the inductive invariant (LAB4/proc.c:120-154).
LEMMA InitIInv == Init => IInv
<1> SUFFICES ASSUME Init PROVE IInv
  OBVIOUS
<1> USE ProcAssumption DEF Init, Slot, initproc
<1>1. TypeOK
  <2>1. state \in [Slot -> States] /\ pid \in [Slot -> 0 .. MaxPid]
    BY DEF States
  <2>2. parent \in [Slot -> Slot \cup {None}] /\ killed \in [Slot -> BOOLEAN]
    OBVIOUS
  <2>3. chan \in [Slot -> Slot \cup {None, Ticks}] /\ nextpid \in 1 .. MaxPid + 1
    OBVIOUS
  <2>4. context \in [Slot -> Contexts] /\ pc \in [Slot -> Labels]
    BY DEF Contexts, Labels
  <2>5. np \in [Slot -> Slot \cup {None}] /\ cpu \in [CPU -> Slot \cup {None}]
    OBVIOUS
  <2>6. scan \in [CPU -> 0 .. NPROC] /\ shell \in 0 .. MaxPid
    OBVIOUS
  <2> QED
    BY <2>1, <2>2, <2>3, <2>4, <2>5, <2>6 DEF TypeOK
<1>2. StackOwned /\ LockHandedBack /\ CpuOK
  BY DEF StackOwned, LockHandedBack, CpuOK
<1>3. ContextOK /\ ForkOK /\ EmbryoOK
  BY DEF ContextOK, ForkOK, EmbryoOK, Live, Preemptible
<1>4. FamilyOK /\ ParentAlive /\ WaiterHasReason
  BY DEF FamilyOK, ParentAlive, WaiterHasReason, Live
<1>5. PidsOK /\ UniquePids
  BY DEF PidsOK, UniquePids
<1> QED
  BY <1>1, <1>2, <1>3, <1>4, <1>5 DEF IInv

\* IInv is an invariant of the system.
THEOREM ProcInvariant == SafeSpec => []IInv
<1>1. IInv /\ [Next]_vars => IInv'
  BY TypeOKStep, ContextOKStep, CpuOKStep, StackOwnedStep, LockHandedBackStep,
     ForkOKStep, EmbryoOKStep, FamilyOKStep, ParentAliveStep,
     WaiterHasReasonStep, PidsOKStep, UniquePidsStep DEF IInv
<1> QED
  BY InitIInv, <1>1, PTL DEF SafeSpec

\* Type correctness for any number of slots and CPUs.
THEOREM ProcType == SafeSpec => []TypeOK
<1>1. IInv => TypeOK
  BY DEF IInv
<1> QED
  BY <1>1, ProcInvariant, PTL

\* A process runs on one CPU at most, and nobody touches a process, or frees its
\* stack, while a CPU is still on that stack (LAB4/proc.c:264-266, :287-298).
THEOREM ProcStackOwned == SafeSpec => []StackOwned
<1>1. IInv => StackOwned
  BY DEF IInv
<1> QED
  BY <1>1, ProcInvariant, PTL

\* sched() hands ptable.lock from thread to scheduler to thread, and each path
\* back releases it exactly once (LAB4/proc.c:358-382).
THEOREM ProcLockHandedBack == SafeSpec => []LockHandedBack
<1>1. IInv => LockHandedBack
  BY DEF IInv
<1> QED
  BY <1>1, ProcInvariant, PTL

\* Whatever the order of forks, exits and waits, every process but init has a
\* live parent to reap it (LAB4/proc.c:255-262).
THEOREM ProcParentAlive == SafeSpec => []ParentAlive
<1>1. IInv => ParentAlive
  BY DEF IInv
<1> QED
  BY <1>1, ProcInvariant, PTL

\* No wakeup of wait() is lost (LAB4/proc.c:253-260, :309).
THEOREM ProcWaiterHasReason == SafeSpec => []WaiterHasReason
<1>1. IInv => WaiterHasReason
  BY DEF IInv
<1> QED
  BY <1>1, ProcInvariant, PTL

\* Pids in use are different from each other and from 0 (LAB4/proc.c:90).
THEOREM ProcUniquePids == SafeSpec => []UniquePids
<1>1. IInv => UniquePids
  BY DEF IInv
<1> QED
  BY <1>1, ProcInvariant, PTL

\* A slot in state EMBRYO belongs to one fork, and no CPU is on its stack
\* (LAB4/proc.c:94-115).
THEOREM ProcEmbryoHasForker == SafeSpec => []EmbryoHasForker
<1>1. IInv => EmbryoHasForker
  <2> SUFFICES ASSUME IInv, NEW s \in Slot, state[s] = "EMBRYO"
               PROVE  /\ \E p \in Slot : np[p] = s /\ pc[p] \in {"forkcopy", "forkready"}
                      /\ \A p, q \in Slot : np[p] = s /\ np[q] = s => p = q
                      /\ \A c \in CPU : cpu[c] # s
    BY DEF EmbryoHasForker
  <2>1. s # None
    BY ProcAssumption DEF Slot
  <2>2. \E p \in Slot : np[p] = s /\ pc[p] \in {"forkcopy", "forkready"}
    BY <2>1 DEF IInv, EmbryoOK, ForkOK
  <2>3. \A p, q \in Slot : np[p] = s /\ np[q] = s => p = q
    BY <2>1 DEF IInv, ForkOK
  <2>4. \A c \in CPU : cpu[c] # s
    BY <2>1 DEF IInv, CpuOK
  <2> QED
    BY <2>2, <2>3, <2>4
<1> QED
  BY <1>1, ProcInvariant, PTL
=============================================================================
