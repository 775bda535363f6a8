-------------------------------- MODULE Proc --------------------------------
(***************************************************************************)
(* Processes of the xv6 kernel (LAB4/proc.c, LAB4/trap.c, LAB4/init.c): the*)
(* process table, fork, exit, wait, kill, sleep, and the scheduler of each *)
(* CPU.  Everything between an acquire and a release of ptable.lock that   *)
(* stays on one kernel stack is one action.  A thread that gives its CPU up*)
(* does so with ptable.lock held; the lock then belongs to the CPU, whose  *)
(* scheduler passes it on to the thread it runs next, or releases it at the*)
(* end of its scan.                                                        *)
(***************************************************************************)
EXTENDS Integers

CONSTANTS NPROC,   \* slots of the process table
          CPU,     \* the processors
          None,    \* the null pointer; nobody
          Ticks,   \* the address of the kernel variable ticks, a channel
          UserCalls,\* what user programs do, a subset of Calls
          MaxPid   \* bound: when nextpid is past it, allocproc finds no slot

Calls == {"fork", "exit", "wait", "kill", "sleep", "fault"}

ASSUME ProcAssumption == /\ NPROC \in Nat \ {0}
                         /\ MaxPid \in Nat \ {0}
                         /\ None \notin CPU
                         /\ None \notin Nat
                         /\ Ticks \notin Nat \cup {None}
                         /\ UserCalls \subseteq Calls
                         /\ CPU \cap Nat = {}

Slot == 0 .. NPROC - 1
initproc == 0          \* userinit() takes the first slot

VARIABLES state,    \* p->state
          pid,      \* p->pid
          parent,   \* p->parent
          killed,   \* p->killed
          chan,     \* p->chan: a slot (its address), Ticks or None
          nextpid,  \* the next process id
          context,  \* p->context: the call that returns at the next swtch to it
          pc,       \* where the thread is, when context is "none"
          np,       \* fork's local np
          cpu,      \* c->proc
          scan,     \* scheduler's loop variable, per CPU
          holder,   \* the CPU holding ptable.lock
          tickslock,\* the process holding tickslock
          shell,    \* init's local pid
          panicked  \* panic() has frozen the machine

table == <<state, pid, parent, killed, chan, nextpid>>
thread == <<context, pc, np, shell>>
sched == <<cpu, scan, holder>>
vars == <<table, thread, sched, tickslock, panicked>>

States == {"UNUSED", "EMBRYO", "SLEEPING", "RUNNABLE", "RUNNING", "ZOMBIE"}
Live == {"RUNNABLE", "RUNNING", "SLEEPING"}
Contexts == {"none", "forkret", "yield", "sleep", "wait", "exit"}
Labels == {"user", "syscall", "trapret", "forkcopy", "forkready", "waitscan",
           "exit", "sleepcheck", "sleepgo", "sleepreacquire"}

TypeOK == /\ state \in [Slot -> States]
          /\ pid \in [Slot -> 0 .. MaxPid]
          /\ parent \in [Slot -> Slot \cup {None}]
          /\ killed \in [Slot -> BOOLEAN]
          /\ chan \in [Slot -> Slot \cup {None, Ticks}]
          /\ nextpid \in 1 .. MaxPid + 1
          /\ context \in [Slot -> Contexts]
          /\ pc \in [Slot -> Labels]
          /\ np \in [Slot -> Slot \cup {None}]
          /\ cpu \in [CPU -> Slot \cup {None}]
          /\ scan \in [CPU -> 0 .. NPROC]
          /\ holder \in CPU \cup {None}
          /\ tickslock \in Slot \cup {None}
          /\ shell \in 0 .. MaxPid
          /\ panicked \in BOOLEAN

\* After userinit(): init is RUNNABLE and will start at forkret.
Init == /\ state = [s \in Slot |-> IF s = initproc THEN "RUNNABLE" ELSE "UNUSED"]
        /\ pid = [s \in Slot |-> IF s = initproc THEN 1 ELSE 0]
        /\ parent = [s \in Slot |-> None]
        /\ killed = [s \in Slot |-> FALSE]
        /\ chan = [s \in Slot |-> None]
        /\ nextpid = 2
        /\ context = [s \in Slot |-> "forkret"]
        /\ pc = [s \in Slot |-> "user"]
        /\ np = [s \in Slot |-> None]
        /\ cpu = [c \in CPU |-> None]
        /\ scan = [c \in CPU |-> 0]
        /\ holder = None
        /\ tickslock = None
        /\ shell = 0
        /\ panicked = FALSE

\* The thread of p executes on c.
Runs(c, p) == /\ ~panicked
              /\ cpu[c] = p
              /\ state[p] = "RUNNING"
              /\ context[p] = "none"

Goto(p, l) == pc' = [pc EXCEPT ![p] = l]

\* wakeup1(ch), applied to the states f.
Woken(f, ch) == [s \in Slot |->
                   IF f[s] = "SLEEPING" /\ chan[s] = ch THEN "RUNNABLE" ELSE f[s]]

\* Mutant of GiveUp: ptable.lock is released before swtch.
GiveUpUnlocked(c, p, ctx, f) == /\ state' = f
                                /\ context' = [context EXCEPT ![p] = ctx]
                                /\ holder' = None

\* p gives up c inside the call ctx, its state being st; c takes ptable.lock
\* with it into sched().
GiveUp(c, p, ctx, f) == /\ state' = f
                        /\ context' = [context EXCEPT ![p] = ctx]
                        /\ holder' = c

(***************************************************************************)
(* The scheduler of a CPU.                                                 *)
(***************************************************************************)
\* sched(): swtch from the thread to the scheduler, which holds ptable.lock.
Swtch(c) == /\ ~panicked
            /\ cpu[c] # None
            /\ holder = c
            /\ state[cpu[c]] # "RUNNING"
            /\ cpu' = [cpu EXCEPT ![c] = None]
            /\ UNCHANGED <<table, thread, scan, holder, tickslock, panicked>>

\* The top of scheduler()'s for(;;): acquire(&ptable.lock), p = ptable.proc.
SchedAcquire(c) == /\ ~panicked
                   /\ cpu[c] = None
                   /\ holder = None
                   /\ holder' = c
                   /\ scan' = [scan EXCEPT ![c] = 0]
                   /\ UNCHANGED <<table, thread, cpu, tickslock, panicked>>

\* Mutants of Dispatch: the loop variable skips a slot; the scan starts again
\* from the first slot after every process.
DispatchSkips(c, p) == /\ ~panicked
                       /\ cpu[c] = None
                       /\ holder = c
                       /\ p >= scan[c]
                       /\ state[p] = "RUNNABLE"
                       /\ \A q \in scan[c] .. p - 1 : state[q] # "RUNNABLE"
                       /\ cpu' = [cpu EXCEPT ![c] = p]
                       /\ state' = [state EXCEPT ![p] = "RUNNING"]
                       /\ scan' = [scan EXCEPT ![c] = p + 2]
                       /\ UNCHANGED <<pid, parent, killed, chan, nextpid, thread,
                                      holder, tickslock, panicked>>
DispatchRestarts(c, p) == /\ ~panicked
                          /\ cpu[c] = None
                          /\ holder = c
                          /\ state[p] = "RUNNABLE"
                          /\ \A q \in 0 .. p - 1 : state[q] # "RUNNABLE"
                          /\ cpu' = [cpu EXCEPT ![c] = p]
                          /\ state' = [state EXCEPT ![p] = "RUNNING"]
                          /\ UNCHANGED <<pid, parent, killed, chan, nextpid, thread,
                                         scan, holder, tickslock, panicked>>

\* The first RUNNABLE process from the loop variable on is run.
Dispatch(c, p) == /\ ~panicked
                  /\ cpu[c] = None
                  /\ holder = c
                  /\ p >= scan[c]
                  /\ state[p] = "RUNNABLE"
                  /\ \A q \in scan[c] .. p - 1 : state[q] # "RUNNABLE"
                  /\ cpu' = [cpu EXCEPT ![c] = p]
                  /\ state' = [state EXCEPT ![p] = "RUNNING"]
                  /\ scan' = [scan EXCEPT ![c] = p + 1]
                  /\ UNCHANGED <<pid, parent, killed, chan, nextpid, thread,
                                 holder, tickslock, panicked>>

\* The end of the table: release(&ptable.lock).
PassEnd(c) == /\ ~panicked
              /\ cpu[c] = None
              /\ holder = c
              /\ \A q \in Slot : q >= scan[c] => state[q] # "RUNNABLE"
              /\ holder' = None
              /\ UNCHANGED <<table, thread, cpu, scan, tickslock, panicked>>

\* The thread of p, just switched to with ptable.lock held, returns from ctx.
Return(c, p, ctx) == /\ ~panicked
                     /\ cpu[c] = p
                     /\ holder = c
                     /\ state[p] = "RUNNING"
                     /\ context[p] = ctx
                     /\ context' = [context EXCEPT ![p] = "none"]
                     /\ UNCHANGED <<state, pid, parent, killed, nextpid, np, shell,
                                    cpu, scan, tickslock, panicked>>

\* Mutant of Forkret: ptable.lock is not released.
ForkretLocked(c, p) == /\ Return(c, p, "forkret")
                       /\ Goto(p, "user")
                       /\ UNCHANGED <<chan, holder>>

\* A new process: release(&ptable.lock), and on to user mode.
Forkret(c, p) == /\ Return(c, p, "forkret")
                 /\ holder' = None
                 /\ Goto(p, "user")
                 /\ UNCHANGED chan

\* The end of yield(): release(&ptable.lock).
YieldReturn(c, p) == /\ Return(c, p, "yield")
                     /\ holder' = None
                     /\ UNCHANGED <<chan, pc>>

\* The end of sleep(&ticks, &tickslock): tidy up, release(&ptable.lock).
SleepReturn(c, p) == /\ Return(c, p, "sleep")
                     /\ chan' = [chan EXCEPT ![p] = None]
                     /\ holder' = None
                     /\ Goto(p, "sleepreacquire")

\* The end of sleep(curproc, &ptable.lock): wait scans again, still locked.
WaitReturn(c, p) == /\ Return(c, p, "wait")
                    /\ chan' = [chan EXCEPT ![p] = None]
                    /\ Goto(p, "waitscan")
                    /\ UNCHANGED holder

\* syscall() calls what the process has asked for.
Syscall(c, p) == Runs(c, p) /\ pc[p] = "syscall"

\* The calls the program of p may make next.  init.c: init forks a shell, then
\* waits until that shell is gone.  The others make any of UserCalls.
May(p, call) == IF p = initproc
                  THEN call = (IF shell = 0 THEN "fork" ELSE "wait")
                  ELSE call \in UserCalls

(***************************************************************************)
(* trap(): the way into and out of the kernel.                             *)
(***************************************************************************)
\* exit() is called: init must not, anybody else goes on to close its files.
CallExit(p) == IF p = initproc
                 THEN panicked' = TRUE /\ UNCHANGED pc
                 ELSE Goto(p, "exit") /\ UNCHANGED panicked

\* A trap from user mode finds p->killed set.
TrapKilled(c, p) == /\ Runs(c, p)
                    /\ pc[p] = "user"
                    /\ killed[p]
                    /\ CallExit(p)
                    /\ UNCHANGED <<table, context, np, shell, sched, tickslock>>

\* A process in user mode makes a system call, and trap() sees it not killed: a
\* kill from here on finds it inside the call.
TrapSyscall(c, p) == /\ Runs(c, p)
                     /\ pc[p] = "user"
                     /\ ~killed[p]
                     /\ Goto(p, "syscall")
                     /\ UNCHANGED <<table, context, np, shell, sched, tickslock,
                                    panicked>>

\* The end of a system call: exit if killed, else back to user mode.
TrapReturn(c, p) == /\ Runs(c, p)
                    /\ pc[p] = "trapret"
                    /\ IF killed[p] THEN CallExit(p)
                                    ELSE Goto(p, "user") /\ UNCHANGED panicked
                    /\ UNCHANGED <<table, context, np, shell, sched, tickslock>>

\* A fault in user mode: killed is set, without the lock, and the process exits.
UserFault(c, p) == /\ Runs(c, p)
                   /\ pc[p] = "user"
                   /\ May(p, "fault")
                   /\ killed' = [killed EXCEPT ![p] = TRUE]
                   /\ CallExit(p)
                   /\ UNCHANGED <<state, pid, parent, chan, nextpid, context, np,
                                  shell, sched, tickslock>>

\* Where the timer can interrupt a thread: interrupts are on, no lock is held.
Preemptible(p) == pc[p] \in {"user", "syscall", "trapret", "forkcopy", "forkready",
                             "exit", "sleepreacquire"}

\* A clock tick: yield().
Yield(c, p) == /\ Runs(c, p)
               /\ Preemptible(p)
               /\ holder = None
               /\ GiveUp(c, p, "yield", [state EXCEPT ![p] = "RUNNABLE"])
               /\ UNCHANGED <<pid, parent, killed, chan, nextpid, pc, np, shell,
                              cpu, scan, tickslock, panicked>>

\* The clock tick on cpu 0: wakeup(&ticks), holding tickslock.
TimerTick == /\ ~panicked
             /\ tickslock = None
             /\ holder = None
             /\ state' = Woken(state, Ticks)
             /\ UNCHANGED <<pid, parent, killed, chan, nextpid, thread, sched,
                            tickslock, panicked>>

(***************************************************************************)
(* fork().                                                                 *)
(***************************************************************************)
\* fork returns -1; init.c then says "init: fork failed" and exits: panic.
ForkReturnsError(p) == /\ Goto(p, "trapret")
                       /\ panicked' = (p = initproc)

\* Mutant of ForkAlloc: nextpid is not incremented.
ForkAllocSamePid(c, p) ==
  /\ Syscall(c, p)
  /\ May(p, "fork")
  /\ holder = None
  /\ \E s \in Slot :
       /\ state[s] = "UNUSED"
       /\ \A q \in 0 .. s - 1 : state[q] # "UNUSED"
       /\ state' = [state EXCEPT ![s] = "EMBRYO"]
       /\ pid' = [pid EXCEPT ![s] = nextpid]
       /\ np' = [np EXCEPT ![p] = s]
       /\ context' = [context EXCEPT ![s] = "forkret"]
  /\ Goto(p, "forkcopy")
  /\ UNCHANGED <<parent, killed, chan, nextpid, shell, sched, tickslock, panicked>>

\* allocproc() scans the table under ptable.lock and takes the first UNUSED
\* slot; only state and pid are written.
ForkAlloc(c, p) ==
  /\ Syscall(c, p)
  /\ May(p, "fork")
  /\ holder = None
  /\ nextpid <= MaxPid
  /\ \E s \in Slot :
       /\ state[s] = "UNUSED"
       /\ \A q \in 0 .. s - 1 : state[q] # "UNUSED"
       /\ state' = [state EXCEPT ![s] = "EMBRYO"]
       /\ pid' = [pid EXCEPT ![s] = nextpid]
       /\ np' = [np EXCEPT ![p] = s]
       /\ context' = [context EXCEPT ![s] = "forkret"]
  /\ nextpid' = nextpid + 1
  /\ Goto(p, "forkcopy")
  /\ UNCHANGED <<parent, killed, chan, shell, sched, tickslock, panicked>>

\* No slot is UNUSED.
ForkNoSlot(c, p) == /\ Syscall(c, p)
                    /\ May(p, "fork")
                    /\ holder = None
                    /\ nextpid > MaxPid \/ \A s \in Slot : state[s] # "UNUSED"
                    /\ ForkReturnsError(p)
                    /\ UNCHANGED <<table, context, np, shell, sched, tickslock>>

\* kalloc() or copyuvm() has no memory: the slot is given back without the lock,
\* and with its new pid.
ForkNoMemory(c, p) == /\ Runs(c, p)
                      /\ pc[p] = "forkcopy"
                      /\ state' = [state EXCEPT ![np[p]] = "UNUSED"]
                      /\ np' = [np EXCEPT ![p] = None]
                      /\ ForkReturnsError(p)
                      /\ UNCHANGED <<pid, parent, killed, chan, nextpid, context,
                                     shell, sched, tickslock>>

\* np->parent = curproc, without the lock.
ForkCopy(c, p) == /\ Runs(c, p)
                  /\ pc[p] = "forkcopy"
                  /\ parent' = [parent EXCEPT ![np[p]] = p]
                  /\ Goto(p, "forkready")
                  /\ UNCHANGED <<state, pid, killed, chan, nextpid, context, np,
                                 shell, sched, tickslock, panicked>>

\* Mutant of ForkReady: the new process stays EMBRYO.
ForkReadyEmbryo(c, p) == /\ Runs(c, p)
                         /\ pc[p] = "forkready"
                         /\ holder = None
                         /\ shell' = IF p = initproc THEN pid[np[p]] ELSE shell
                         /\ np' = [np EXCEPT ![p] = None]
                         /\ Goto(p, "trapret")
                         /\ UNCHANGED <<table, context, sched, tickslock, panicked>>

\* np->state = RUNNABLE under ptable.lock; fork returns the pid.
ForkReady(c, p) == /\ Runs(c, p)
                   /\ pc[p] = "forkready"
                   /\ holder = None
                   /\ state' = [state EXCEPT ![np[p]] = "RUNNABLE"]
                   /\ shell' = IF p = initproc THEN pid[np[p]] ELSE shell
                   /\ np' = [np EXCEPT ![p] = None]
                   /\ Goto(p, "trapret")
                   /\ UNCHANGED <<pid, parent, killed, chan, nextpid, context,
                                  sched, tickslock, panicked>>

(***************************************************************************)
(* exit() and wait().                                                      *)
(***************************************************************************)
\* The system call.
SysExit(c, p) == /\ Syscall(c, p)
                 /\ May(p, "exit")
                 /\ CallExit(p)
                 /\ UNCHANGED <<table, context, np, shell, sched, tickslock>>

\* Mutant of Exit: the children keep their parent.
ExitKeepsChildren(c, p) ==
  /\ Runs(c, p)
  /\ pc[p] = "exit"
  /\ holder = None
  /\ GiveUp(c, p, "exit", [Woken(state, parent[p]) EXCEPT ![p] = "ZOMBIE"])
  /\ UNCHANGED <<pid, parent, killed, chan, nextpid, pc, np, shell, cpu, scan,
                 tickslock, panicked>>
\* Under ptable.lock: wake the parent, pass the children to init and wake init
\* if one is a zombie, become a ZOMBIE, enter sched() for good.
Exit(c, p) ==
  LET kids  == {s \in Slot : parent[s] = p}
      woken == Woken(state, parent[p])
  IN  /\ Runs(c, p)
      /\ pc[p] = "exit"
      /\ holder = None
      /\ parent' = [s \in Slot |-> IF s \in kids THEN initproc ELSE parent[s]]
      /\ GiveUp(c, p, "exit",
                [IF \E s \in kids : state[s] = "ZOMBIE"
                   THEN Woken(woken, initproc) ELSE woken
                 EXCEPT ![p] = "ZOMBIE"])
      /\ UNCHANGED <<pid, killed, chan, nextpid, pc, np, shell, cpu, scan,
                     tickslock, panicked>>

Wait(c, p) == /\ Syscall(c, p)
              /\ May(p, "wait")
              /\ holder = None
              /\ holder' = c
              /\ Goto(p, "waitscan")
              /\ UNCHANGED <<table, context, np, shell, cpu, scan, tickslock,
                             panicked>>

Children(p) == {s \in Slot : parent[s] = p}
ZombieChildren(p) == {s \in Children(p) : state[s] = "ZOMBIE"}

\* The first zombie child in the table is freed and its pid returned.
WaitReap(c, p) ==
  /\ Runs(c, p)
  /\ pc[p] = "waitscan"
  /\ \E k \in ZombieChildren(p) :
       /\ \A s \in ZombieChildren(p) : k <= s
       /\ pid' = [pid EXCEPT ![k] = 0]
       /\ parent' = [parent EXCEPT ![k] = None]
       /\ killed' = [killed EXCEPT ![k] = FALSE]
       /\ state' = [state EXCEPT ![k] = "UNUSED"]
       /\ shell' = IF p = initproc /\ pid[k] = shell THEN 0 ELSE shell
  /\ holder' = None
  /\ Goto(p, "trapret")
  /\ UNCHANGED <<chan, nextpid, context, np, cpu, scan, tickslock, panicked>>

\* No children, or killed: wait returns -1.
WaitError(c, p) == /\ Runs(c, p)
                   /\ pc[p] = "waitscan"
                   /\ ZombieChildren(p) = {}
                   /\ Children(p) = {} \/ killed[p]
                   /\ shell' = IF p = initproc THEN 0 ELSE shell
                   /\ holder' = None
                   /\ Goto(p, "trapret")
                   /\ UNCHANGED <<table, context, np, cpu, scan, tickslock,
                                  panicked>>

\* sleep(curproc, &ptable.lock).
WaitSleep(c, p) == /\ Runs(c, p)
                   /\ pc[p] = "waitscan"
                   /\ ZombieChildren(p) = {}
                   /\ Children(p) # {}
                   /\ ~killed[p]
                   /\ chan' = [chan EXCEPT ![p] = p]
                   /\ GiveUp(c, p, "wait", [state EXCEPT ![p] = "SLEEPING"])
                   /\ UNCHANGED <<pid, parent, killed, nextpid, pc, np, shell, cpu,
                                  scan, tickslock, panicked>>

(***************************************************************************)
(* kill(): the first slot with that pid, whatever its state.               *)
(***************************************************************************)

\* Mutant of Kill: the victim is not woken.
KillSleeps(c, p, x) ==
  LET hit == {s \in Slot : pid[s] = x /\ \A q \in 0 .. s - 1 : pid[q] # x}
  IN  /\ Syscall(c, p)
      /\ May(p, "kill")
      /\ holder = None
      /\ killed' = [s \in Slot |-> s \in hit \/ killed[s]]
      /\ Goto(p, "trapret")
      /\ UNCHANGED <<state, pid, parent, chan, nextpid, context, np, shell, sched,
                     tickslock, panicked>>

Kill(c, p, x) ==
  LET hit == {s \in Slot : pid[s] = x /\ \A q \in 0 .. s - 1 : pid[q] # x}
  IN  /\ Syscall(c, p)
      /\ May(p, "kill")
      /\ holder = None
      /\ killed' = [s \in Slot |-> s \in hit \/ killed[s]]
      /\ state' = [s \in Slot |-> IF s \in hit /\ state[s] = "SLEEPING"
                                    THEN "RUNNABLE" ELSE state[s]]
      /\ Goto(p, "trapret")
      /\ UNCHANGED <<pid, parent, chan, nextpid, context, np, shell, sched,
                     tickslock, panicked>>

(***************************************************************************)
(* sys_sleep(): how long is left to chance.                                *)
(***************************************************************************)
SysSleep(c, p) == /\ Syscall(c, p)
                  /\ May(p, "sleep")
                  /\ tickslock = None
                  /\ tickslock' = p
                  /\ Goto(p, "sleepcheck")
                  /\ UNCHANGED <<table, context, np, shell, sched, panicked>>

\* The loop's tests: time is up, or the process was killed: return.
SleepDone(c, p) == /\ Runs(c, p)
                   /\ pc[p] = "sleepcheck"
                   /\ tickslock' = None
                   /\ Goto(p, "trapret")
                   /\ UNCHANGED <<table, context, np, shell, sched, panicked>>

\* Time is not up and killed was not set when it was read, without ptable.lock.
SleepMore(c, p) == /\ Runs(c, p)
                   /\ pc[p] = "sleepcheck"
                   /\ ~killed[p]
                   /\ Goto(p, "sleepgo")
                   /\ UNCHANGED <<table, context, np, shell, sched, tickslock,
                                  panicked>>

\* sleep(&ticks, &tickslock).
SleepGo(c, p) == /\ Runs(c, p)
                 /\ pc[p] = "sleepgo"
                 /\ holder = None
                 /\ tickslock' = None
                 /\ chan' = [chan EXCEPT ![p] = Ticks]
                 /\ GiveUp(c, p, "sleep", [state EXCEPT ![p] = "SLEEPING"])
                 /\ UNCHANGED <<pid, parent, killed, nextpid, pc, np, shell, cpu,
                                scan, panicked>>

\* acquire(lk) at the end of sleep().
SleepReacquire(c, p) == /\ Runs(c, p)
                        /\ pc[p] = "sleepreacquire"
                        /\ tickslock = None
                        /\ tickslock' = p
                        /\ Goto(p, "sleepcheck")
                        /\ UNCHANGED <<table, context, np, shell, sched, panicked>>

-----------------------------------------------------------------------------
\* The steps of a CPU's scheduler, up to the return from swtch.
SchedStep(c) == \/ Swtch(c)
                \/ SchedAcquire(c)
                \/ PassEnd(c)
                \/ \E p \in Slot : \/ Dispatch(c, p)
                                   \/ Forkret(c, p)     \/ YieldReturn(c, p)
                                   \/ SleepReturn(c, p) \/ WaitReturn(c, p)

\* The steps of a thread in the kernel, all but giving the CPU up at a tick.
KernelStep(c, p) == \/ TrapKilled(c, p)   \/ TrapReturn(c, p)
                    \/ ForkAlloc(c, p)    \/ ForkNoSlot(c, p)
                    \/ ForkNoMemory(c, p) \/ ForkCopy(c, p)  \/ ForkReady(c, p)
                    \/ SysExit(c, p)      \/ Exit(c, p)      \/ Wait(c, p)
                    \/ WaitReap(c, p)     \/ WaitError(c, p) \/ WaitSleep(c, p)
                    \/ SysSleep(c, p)
                    \/ SleepDone(c, p)    \/ SleepMore(c, p)
                    \/ SleepGo(c, p)      \/ SleepReacquire(c, p)
                    \/ \E x \in 0 .. MaxPid : Kill(c, p, x)

\* What a user program may do or not.
UserStep(c, p) == UserFault(c, p) \/ TrapSyscall(c, p)

Next == \/ \E c \in CPU : SchedStep(c)
        \/ \E c \in CPU, p \in Slot : \/ KernelStep(c, p)
                                      \/ Yield(c, p)
                                      \/ UserStep(c, p)
        \/ TimerTick

SafeSpec == Init /\ [][Next]_vars

\* A CPU executes its scheduler, and its clock ticks, so a thread in user mode
\* yields and then meets the killed tests of trap(); a thread that is given the
\* CPU again and again gets its kernel code done; init's program makes its next
\* call.  The fairness is strong because another CPU may hold ptable.lock each
\* time, and because a tick may interrupt a thread each time it runs.
Fairness ==
  /\ \A c \in CPU : /\ SF_vars(SchedStep(c))
                    /\ SF_vars(\E p \in Slot : Yield(c, p))
  /\ \A p \in Slot : SF_vars(\E c \in CPU : KernelStep(c, p))
  /\ SF_vars(\E c \in CPU : UserStep(c, initproc))
  /\ SF_vars(TimerTick)

Spec == SafeSpec /\ Fairness

-----------------------------------------------------------------------------
\* A process is RUNNING only on one CPU, and a CPU whose thread is not RUNNING
\* any more still holds ptable.lock: nobody else runs the process, or frees the
\* kernel stack of a ZOMBIE, while a CPU is on that stack (LAB4/proc.c:264-266,
\* :388-390, :439-442 against :334-352 and :287-298).
StackOwned ==
  /\ \A p \in Slot : state[p] = "RUNNING" => \E c \in CPU : cpu[c] = p
  /\ \A c, d \in CPU : cpu[c] = cpu[d] /\ cpu[c] # None => c = d
  /\ \A c \in CPU : cpu[c] # None /\ state[cpu[c]] # "RUNNING" => holder = c

\* A thread executes outside of the calls that give the CPU up with ptable.lock
\* held only in wait's scan: every return path of sched releases the lock, and
\* once only (LAB4/proc.c:391, :401, :449, against :379-381).
LockHandedBack ==
  \A c \in CPU : cpu[c] # None /\ context[cpu[c]] = "none"
                   => (holder = c <=> pc[cpu[c]] = "waitscan")

\* The process that is to reap a slot exists: a process that is not init has a
\* parent, which has neither exited nor been freed, whoever exited in whatever
\* order (LAB4/proc.c:255-262).
ParentAlive ==
  \A s \in Slot : state[s] \notin {"UNUSED", "EMBRYO"} /\ s # initproc =>
     /\ parent[s] # None
     /\ state[parent[s]] \in Live

\* A process asleep in wait has a child, no child that it could reap, and has not
\* been killed: no exit, re-parenting or kill went by without waking it
\* (LAB4/proc.c:253-260, :304-310, :487-490).
WaiterHasReason ==
  \A p \in Slot : state[p] = "SLEEPING" /\ chan[p] = p =>
     /\ Children(p) # {}
     /\ ZombieChildren(p) = {}
     /\ ~killed[p]

\* Live processes have different pids, none of them 0, also after forks that
\* failed half way (LAB4/proc.c:90, :193-198).
UniquePids ==
  \A s, t \in Slot : state[s] # "UNUSED" /\ state[t] # "UNUSED" =>
     /\ pid[s] # 0
     /\ pid[s] = pid[t] => s = t

\* A slot being set up belongs to one fork, and to nobody's wait or scheduler,
\* though fork writes it without the lock (LAB4/proc.c:94-115, :193-213).
EmbryoHasForker ==
  \A s \in Slot : state[s] = "EMBRYO" =>
     /\ \E p \in Slot : np[p] = s /\ pc[p] \in {"forkcopy", "forkready"}
     /\ \A p, q \in Slot : np[p] = s /\ np[q] = s => p = q
     /\ \A c \in CPU : cpu[c] # s

-----------------------------------------------------------------------------
\* The inductive invariant behind the properties above.

\* What the saved context of a thread says about the state of its process.
ContextOK ==
  \A p \in Slot :
    /\ context[p] = "none" => state[p] = "RUNNING"
    /\ context[p] = "exit" => state[p] \in {"ZOMBIE", "UNUSED"}
    /\ state[p] = "EMBRYO" => context[p] = "forkret"
    /\ state[p] = "ZOMBIE" => context[p] = "exit"
    /\ state[p] = "SLEEPING" => context[p] \in {"sleep", "wait"}
    /\ state[p] = "RUNNABLE" => context[p] # "none"
    /\ context[p] = "yield" => Preemptible(p)

\* A CPU is on the stack of a process that has one, and holds ptable.lock until
\* the call that gave the CPU up has returned.
CpuOK ==
  \A c \in CPU : cpu[c] # None =>
    /\ state[cpu[c]] \notin {"UNUSED", "EMBRYO"}
    /\ context[cpu[c]] # "none" => holder = c

\* The np of a fork is a slot in state EMBRYO, of that fork only, and has a
\* parent once np->parent is written.
ForkOK ==
  /\ \A p \in Slot :
       /\ np[p] # None <=> pc[p] \in {"forkcopy", "forkready"}
       /\ np[p] # None => /\ state[np[p]] = "EMBRYO"
                          /\ state[p] \in Live
                          /\ context[p] \in {"none", "yield"}
                          /\ parent[np[p]] = IF pc[p] = "forkready" THEN p ELSE None
       /\ state[p] = "UNUSED" => parent[p] = None
  /\ \A p, q \in Slot : np[p] = np[q] /\ np[p] # None => p = q

EmbryoOK == \A s \in Slot : state[s] = "EMBRYO" => \E p \in Slot : np[p] = s

\* Parents are alive, init above all, and nobody is his own.
FamilyOK ==
  /\ state[initproc] \in Live
  /\ pc[initproc] # "exit"
  /\ parent[initproc] = None
  /\ \A s \in Slot : /\ parent[s] # s
                     /\ parent[s] # None => state[parent[s]] \in Live

PidsOK == \A s \in Slot : pid[s] < nextpid

IInv == /\ TypeOK
        /\ StackOwned
        /\ LockHandedBack
        /\ ContextOK
        /\ CpuOK
        /\ ForkOK
        /\ EmbryoOK
        /\ FamilyOK
        /\ ParentAlive
        /\ WaiterHasReason
        /\ PidsOK
        /\ UniquePids

-----------------------------------------------------------------------------
\* Kill the process with the given pid (LAB4/proc.c:476): a new process has not
\* been killed.
BornAlive ==
  [][\A s \in Slot : state[s] = "UNUSED" /\ state'[s] = "EMBRYO" => ~killed'[s]]_vars

\* The scan of the table gives every RUNNABLE process its turn, no matter how
\* many others yield and become RUNNABLE again (LAB4/proc.c:329-355).
RunnableRuns ==
  \A p \in Slot : state[p] = "RUNNABLE" ~> (state[p] = "RUNNING" \/ panicked)

\* A killed process does not go on for ever: it is woken, meets a killed test of
\* trap() and becomes a zombie, and its slot is not kept by it (LAB4/proc.c:476-478,
\* LAB4/trap.c:40-45, :100-111).
KilledDies ==
  \A p \in Slot :
     (killed[p] /\ state[p] \in Live)
        ~> (state[p] \in {"ZOMBIE", "UNUSED"} \/ panicked)

\* A zombie whose parent is init is reaped: init is woken for it, also when it
\* became init's child as a zombie (LAB4/proc.c:255-262, LAB4/init.c:22-39).
OrphanReaped ==
  \A s \in Slot : (state[s] = "ZOMBIE" /\ parent[s] = initproc)
                     ~> (state[s] # "ZOMBIE" \/ panicked)
=============================================================================
