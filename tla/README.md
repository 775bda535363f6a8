# Specifications of the xv6 kernel and its lab extensions

The repository holds five copies of the x86 teaching kernel xv6, one per lab
(`LAB1` to `LAB5`), each extended by its lab's assignment. Most kernel files
(`bio.c`, `log.c`, `spinlock.c`, `ide.c`, `fs.c`, `file.c`, `pipe.c`,
`vm.c`, ...) are the same in all of them, and `proc.c` and `trap.c` are the same
in LAB1, LAB4 and LAB5. This directory models the base kernel as it stands in
`LAB4`, and the labs' own additions where they are.

All paths below are relative to the repository's root. `rwlock.c:18` without a
directory is a file of `LAB4`.

## 1. Inventory

| part | state | operations | interacts with | hard behaviour | what makes it correct |
|---|---|---|---|---|---|
| spin locks (`spinlock.c`) | `locked`, `cpu`, per-CPU `ncli` | acquire, release | everything | spinning CPUs, interrupts off | exclusion; `sched` with exactly one lock |
| sleep/wakeup (`proc.c:418-474`) | `p->chan`, `p->state` | sleep, wakeup, kill | every blocking call | test, then sleep, against wakeup | no lost wakeup |
| processes, scheduler (`proc.c`, `trap.c`, `init.c`) | the table, `c->proc`, `nextpid` | fork, exit, wait, kill, yield, scheduler | all system calls | CPUs, preemption, locks handed over by `swtch` | one CPU per stack; zombies reaped; kills take effect |
| semaphores (`rwlock.c:11-30`) | `value`, lock | sem_wait, sem_signal | rwlock, barber | many waiters, wakeup of all | units neither lost nor taken twice |
| reader-writer lock (`rwlock.c:32-71`, `sysproc.c:96-131`) | two semaphores, two counts, `shared_value` | reader, writer | semaphores | first reader in, last one out | writers alone |
| sleeping barber (`sysproc.c:134-191`, `barber.c`) | six semaphores | barber_sleep, cut_hair, customer_arr | semaphores | three roles of one mutex | every customer comes out |
| write-ahead log (`log.c`) | header, `outstanding`, `committing`, disk | begin_op, log_write, end_op, commit, recovery | buffer cache, all file system calls | crashes, group commit | all or nothing, durable |
| buffer cache, sleep locks (`bio.c`, `sleeplock.c`) | buffers, flags, `refcnt`, LRU list | bget, bread, bwrite, brelse | log, IDE | one buffer per block, pinning | no two buffers of one block |
| IDE driver (`ide.c`) | `idequeue`, flags | iderw, ideintr | cache | interrupt against callers | each request answered once |
| pipes (`pipe.c`) | ring, open flags | read, write, close | files, sleep | full, empty, closed ends, kills | bytes in order, nobody stuck |
| files, inodes (`file.c`, `fs.c`, `sysfile.c`) | `ref`, `nlink`, caches | open, dup, close, link, unlink, iput | log, pipes | last reference against a new one | no use after free, no leak |
| memory (`kalloc.c`, `vm.c`, `exec.c`) | free list, page tables | kalloc, kfree, copyuvm, exec | fork, sbrk | failures half way | |
| console (`console.c`, the same in all labs) | input ring, history, clipboard | consoleintr, consoleread | keyboard | indices that only grow | indices stay inside |
| users, logs (`LAB2/syscall.c`) | global tables | login, logout, make_user, get_logs | dispatch | no lock | |
| multi-level scheduler (`LAB3/proc.c:441-555`) | class, level, deadline, ticks | scheduler, change_queue, set_deadline | trap | ageing, quantum | no starvation, no self-deadlock |
| shared memory, monitor (`LAB5/shmem.c`, `monitor.c`) | regions, `ref_count` | open, close, increase | fork, exit, vm | no lock, fork not counted | |

Components exchange nothing but shared state under locks, and wakeups. A
process enters the kernel through `trap()`; interrupts (clock, disk, keyboard)
enter it on any CPU whose interrupts are on. `PROJECT.json` lists every part with
its status, and the hazards line by line.

## 2. Modules

| module | models | abstract specification |
|---|---|---|
| `Semaphore` | `sem_wait`, `sem_signal`, with `sleep`, `wakeup`, `kill` inlined, one step per lock operation | `CountingSemaphore` |
| `Proc` | process table, trap returns, scheduler | |
| `RWLock` | reader and writer over semaphores | |
| `Barber` | the three roles over semaphores | |
| `Log` | the log, the part of the cache it needs, the disk, crashes | `AtomicDisk` |
| `Bcache` | buffer cache, sleep locks, disk queue and interrupt | `BlockStore` |
| `File`, `Pipe` | open files and descriptors; pipes and the calls that make, share, use and close them | `Fifo` |
| `Inode` | inode cache, disk inodes, bitmap, one directory and its calls | |
| `SemaphoreProofs`, `ProcProofs`, `RWLockProofs`, `BarberProofs`, `BcacheProofs`, `LogProofs`, `PipeProofs`, `InodeProofs` | the theorems about the module each is named after | |
| `MC...` | instances for TLC | |

`Semaphore` implements `CountingSemaphore`, in which a wait takes its unit, and a
signal adds one, in a single step. `RWLock` and `Barber` use semaphores at that
level. `Bcache` justifies what `Log` and `Inode` assume: a process that holds a block
has the only copy of it, with the contents its last user left (`BlockStore`); `Log`
looks at the cache from the log's side and adds the crashes. `Pipe` extends `File`,
whose operators are the table operations it composes with its own.

### Semaphore

`value`, `slock` (holder of `s->lock`), `plock` (holder of `ptable.lock`), `state`
and a program counter per caller. The actions follow the statements: `WaitAcquire`,
`WaitTest` (the `while`), `SleepAcquire` (ptable.lock is taken, and only then
`s->lock` released), `SleepSched`, `SleepReturn`, `SleepReacquire`, `WaitTake`;
`SignalAcquire`, `SignalGive`, `SignalWakeup`, `SignalRelease`; and `Kill`, which makes
a sleeper runnable without a signal. `sem_wait` does not look at `killed`.

### Proc

One variable per field of `struct proc` and `struct cpu` that the code branches on.
Everything between acquire and release of `ptable.lock` on one kernel stack is one
action. A thread that gives up its CPU does so in two steps: it changes its state
inside `GiveUp`, with the lock held by its CPU (`holder = c`), and `Swtch` leaves the
stack. The scheduler (`SchedAcquire`, `Dispatch`, `PassEnd`) keeps the lock and
hands it to the thread it runs, which returns from the call saved in `context`
(`Forkret`, `YieldReturn`, `SleepReturn`, `WaitReturn`). `fork` is `ForkAlloc`,
`ForkCopy` and `ForkReady`, with a failure after each allocation; the fields it
writes without the lock are written in steps of their own. `exit` and `wait` are
one step per stay under the lock. `sys_sleep` stands for all loops that read
`killed` without `ptable.lock` and then sleep. Init's program is that of `init.c`:
fork a shell, wait until it is gone; the other processes make any call, or fault.
A call has two steps before its own: `trap` tests `killed` (`TrapSyscall`), then the
call is chosen (`Syscall`), and a kill may come in between. `panicked` freezes the machine.

Left out: memory and files of a process, `growproc`, `procdump`, the length of a
sleep. `fork`'s `kalloc` and `copyuvm` may fail at any time.

### RWLock and Barber

One action per semaphore operation and per critical section. `RWLock` keeps
`my_rw_lock.lock` as a variable of its own, because `reader` calls `sem_wait` with it
held: where that would sleep, `sched` panics (`proc.c:373-374`), which is the step
`ReaderFirst` takes. `shared_value++` is a load and a store. `Barber` reads the values
of the semaphores without their locks, as the code does.

### Log

The disk is `home` (the file system's blocks), `header` and `logdisk`; `lh`,
`outstanding`, `committing` are `struct log`; `cache`, `dirty` (B_DIRTY) and `locked`
stand for the buffers. What is done under `log.lock` is one action. `log_write` tests
the length of the log before it takes the lock, so `LogWriteCheck` and
`LogWriteAppend` are two. `write_log` and `install_trans` write one block per step, and
`Crash` may come between any two of them, in recovery also. `Recycle` lets the
cache drop any unlocked buffer that is not pinned. `Kill` makes a process
that sleeps in `begin_op` runnable early: it tests again. The block behind the log on the
disk is `After`: a transaction that is too long is written there.

`AtomicDisk` has `stable` (what a crash leaves), `current` (what calls see) and
`active`. Under the refinement, `stable` is what recovery would make of the disk
as it is, and `current` is the cache over the disk; writing the header is the
abstract `Commit`, and every other write of a commit or a recovery is a stutter.

### Bcache

The buffers with their fields, the list through `next` (`mru`), the holder of each
sleep lock, the driver's queue, the command the controller works on (`ctl`) and its
interrupt (`irq`). One action is one stay under a spin lock: the two ways out of
`bget`, `acquiresleep`, `iderw` up to its sleep, `ideintr`, the two halves of
`brelse`. The users of the cache are a process that only reads, one that changes the
block and calls `log_write`, and the log that writes it (`Bwrite`, which also ends
the pin). `Kill` wakes a process that sleeps for a buffer's lock or for the disk before either is
there: `acquiresleep` and `iderw` test again in their loops. A process holds one buffer at a time: the
pairs of `install_trans` and `write_log` (`log.c:75-76`, `183-184`) and of `bmap`, and the order of
their two locks, are not covered. `MaxPinned` stands for the log's length. Under the refinement a block's
content is that of its buffer if it has one with data, else the disk's; its user is
the process between the end of `bread` and `releasesleep`.

### File and Pipe

`File` has the table of open files and the descriptors. In `Pipe` a pipe's memory is
one page, which `pipe()` may find taken, so that all of its failures happen. What
`piperead` and `pipewrite` do under `p->lock` up to a sleep, or to the end, is one
action; falling asleep is another (`PipereadSleep`, `PipewriteSleep`), because `kill`
does not take that lock. `Fill` writes at the counters modulo `PIPESIZE`, and the counters
wrap around at `Width`, a multiple of it as 2^32 is of 512. Bytes that were
read count as junk afterwards: that none is read twice is then visible.
`fileclose` drops its reference in one step, closes the pipe's end in the
next (`Pipeclose`). `Kill` is enabled where its effect can differ, in a read or a write. `unsaid` is a
history variable: a killed writer that returns from a full pipe has not called
`wakeup` for the bytes it wrote (`pipe.c:86-88`), so a reader may be asleep with bytes there
until the next read, write or close. `SleeperHasReason` allows exactly that: it does not
say that such a reader is woken, and the code does not wake it.

### Inode

`icache` (with `copy` for the fields `ilock` reads, `None` while `valid` is 0), `dinode`,
`bitmap` and `dir` are the cache, the disk and one directory. A call is cut where other
processes may see its progress: at `icache.lock`, at each update of the disk,
and where it holds no lock; sleep locks are guards. `iput` is `IputTest`, `Itrunc`,
`ItruncUpdate`, `Ifree` and `IputDrop`. Every way out of `create`, `link` and `unlink` is there, with
the panics; after one the model stutters (`Frozen`). A file has one block at most, given to
it by the first write. The argument of a call is chosen when it is first used.
Calls whose names are not found change nothing and are not steps.

## 3. Runs

| run | instance | states | shows |
|---|---|---|---|
| `semaphore` | 4 callers, 1 unit, at most 2 | | lock exclusion, no lost wakeup, no negative value; implements `CountingSemaphore` with its progress |
| `proc` | 3 slots, 2 CPUs, 4 pids, all calls | | type, stack ownership, lock hand-over, parents, wait, pids, slots being set up |
| `proc_live` | 3 slots, 1 CPU, 3 pids, no `exit` call: processes end by a kill or a fault | | turns for all, kills take effect |
| `log` | 2 calls of at most 2 blocks, 3 blocks, log of 4 | | commits alone, idle log is durable; implements `AtomicDisk` |
| `log_space` | 3 calls of 1 block, log of 2 | | entries inside the array, sleepers have a reason and wake |
| `rwlock` | 4 processes, 2 writes | | writers alone, the unit has one owner and the counts are right, each store adds one to what it replaces |
| `barber` | 5 customers, 2 chairs | | mutex, chairs and haircuts conserved, nobody turned away for nothing |
| `barber_stuck` | 2 customers, 2 chairs | | **violation**: barber and customers wait for each other |
| `bcache` | 3 processes, 3 blocks, 2 buffers, 1 pin | 216,028 | the buffer of a block is unique and stays, sleepers are woken; implements `BlockStore` |
| `pipe` | 2 processes, 3 files, 2 descriptors, 2 bytes, counters modulo 4 | 1,576,376 | references and ends agree, sleepers have a reason; implements `Fifo` |
| `inode` | 3 processes, 2 names, 2 inodes, 2 slots, 1 block | 1,618,131 | references, write-through, names, links and blocks |
| `inode_leak` | 2 processes | | **violation**: an inode without name and reference stays |

**Bounds.** Three slots are init, a parent and its child, which is the smallest
family in which a process is handed to init; two CPUs are needed for every race on
`ptable.lock`; the fourth pid lets a slot be used again. `MaxPid` ends the
behaviour of `allocproc` (it then finds no slot), not a number the kernel tests.
The semaphore's `MaxValue` bounds when a signal may start. In `log` a transaction has
up to three blocks and the log room for three, so its length stays legal and
`ImplementsAtomicDisk` speaks of the log's protocol alone; `log_space`
has calls that fill it. `MaxValue` of `RWLock` bounds the writes, readers are not
bounded. In `bcache` three processes on three blocks want more than the two buffers, so
that each is recycled, the cache runs out, one process waits for another's lock, and the queue
holds two requests. In `pipe` a write of two bytes meets a pipe with one free, the
buffer's and the counters' wrap-around come at different times, and with two
descriptors each process can hold both ends, share one, or fail to get them; three file structures are the console's
and a pipe's, so that a `pipe()` or a second one fails. `MaxKilled` bounds the
killed processes at one time, `MaxCount` the bytes of a call, which may ask for none. In `inode` one inode is freed and
its number used again while another call still has the old slot, and the third
process runs into a full cache. Processes, customers, names, blocks and bytes are
interchangeable, hence the symmetry in the safety runs of `Log`, `Barber`, `Bcache`, `Pipe` and
`Inode`: no property singles one out (`CHOOSE` is applied to sets with one element or of numbers only).

**Deadlock** is not checked where the system may stop: all callers of a semaphore may
wait with no unit, a panic freezes the machine, all customers may have gone home, all
processes of `Pipe` may have exited or wait for each other's bytes.
`Log` has no such state (a crash is always possible), `Inode` neither (a panic is a
stutter): both are checked, and `Inode`'s order of locks therefore has no cycle.

**Further configurations**, which take longer or show again what section 4 says; they
are run by hand with `tlc -config X.cfg M`:

| configuration | module | result |
|---|---|---|
| `MCPipeLive.cfg` | `MCPipe` | `OtherEndGone` holds under `FairSpec` (225,992 states): who sleeps in a pipe comes out when the other end is closed |
| `MCProcOrphans.cfg` | `MCProc` | four slots: `OrphanReaped` holds, init is woken for a child that is a zombie already |
| `MCProcBorn.cfg` | `MCProc` | `BornAlive` is violated |
| `MCLogOverrun.cfg` | `MCLog` | `LogInBounds` is violated |
| `MCRWLockSleep.cfg` | `MCRWLock` | `SleepsUnlocked` is violated |
| `MCPipeKill.cfg` | `MCPipe` | `KilledComesOut` is violated |

**Fairness.** `Semaphore`: a caller that can execute its next statement does (weak);
nobody must call anything. `Proc`: each CPU executes its scheduler and takes its
clock ticks, threads in the kernel execute, init makes its next call. This
fairness is strong: another CPU may hold `ptable.lock` each time one tries (an
`xchg` spin lock is not fair, but a CPU that spins is not passed over for ever on a
machine with a fair bus), and a thread is interrupted at any of its turns but not
at the same statement for ever. User programs other than init are not fair: they
may never call anything. `Log`: a process inside the log's code goes on (weak), an
operation ends some day (strong, as it may write any number of times before), the
boot sequence goes on; crashes may come at any time and need not. `Barber`'s
fairness is stronger than the semaphores give, which only makes its
counterexample stronger. `Pipe` (`FairSpec`): a process in the kernel gets on, spinning
for `p->lock` included (strong), and one that is killed or exits does exit.

## 4. What the violations say

1. Each customer signals `sems[0]` whether the barber sleeps or not (`sysproc.c:171`).
   The unit that is left lets the barber into `cut_hair` without a customer, where it
   waits with the mutex (`sysproc.c:184-185`). Run `barber_stuck`.
2. `iput` reads `ref`, gives up both locks and decrements later (`fs.c:335-351`). A close that
   has tested while the file still had its name, and the unlink of that name that sees the
   close's reference, each leave the inode to the other: it stays on the disk with
   its blocks, with no name and no reference, although the comment at `fs.c:327` promises that
   it is freed. Run `inode_leak`.
3. `kill` compares pids of free slots as well (`proc.c:486`): `kill(0)` succeeds and the
   next process to use the slot dies at its first trap (`MCProcBorn.cfg`).
4. `log_write` tests `log.lh.n` outside `log.lock` (`log.c:218-223`) and `mkfs` counts the
   header among the LOGSIZE blocks (`mkfs.c:25`). Two calls that use all they were
   granted can write one block past the log (`MCLogOverrun.cfg`). Calls that each log fewer
   than `MAXOPBLOCKS` blocks do not get there: `LogShortCalls` proves it. `LogFits` is about
   the array in memory, which has one entry more than the disk has blocks for.
5. `reader` waits for `write_sem` with a spin lock held (`rwlock.c:40`); with a writer
   inside, `sched` panics (`MCRWLockSleep.cfg`).
6. `kill` does not take `p->lock`: between a pipe's test of `killed` and its sleep
   (`pipe.c:86-91`, `107-111`) it finds nobody to wake, and the process sleeps on until
   the pipe changes (`MCPipeKill.cfg`); "Wake process from sleep if necessary" is
   the comment at `proc.c:488`.

The passing runs of these modules hold in all states of the same systems, up to and
including those in which they have stopped.

## 5. Proofs

All theorems are checked by tlapm with SMT (Z3), Zenon and LS4, for every value of the
constants. Each proof module has the same shape: the inductive invariant `IInv` as a
conjunction of named parts, lemmas about what each action does, one lemma or step per part
that an action can disturb, and theorems that combine them. Every property of a passing run
that is not about liveness is a theorem. The invariants were first checked with
TLC on small constants.

The assumptions are those stated in the component's module: sizes are natural numbers, not
zero where the code has at least one of the thing; `None` is not a process, a block or a
byte; sets whose members the code counts (processes, names, blocks of the log) are finite, as tables in a kernel are.

| module | what `IInv` adds to the properties, and why they need it |
|---|---|
| `SemaphoreProofs` | that no unit is taken twice rests on `LockExclusion` and on `TestStillTrue`, what a caller learnt from its test and nobody can change while it holds the lock; `NoLostWakeup` on the order of the two locks, `PtableExclusion` |
| `ProcProofs` | `ContextOK` ties the state of a process to the call its saved context returns into, `CpuOK` says that a CPU keeps the lock until that call has returned, `ForkOK` gives each slot being set up to one fork although `fork` writes it without the lock, `FamilyOK` keeps init alive and parents live, `PidsOK` bounds pids by `nextpid` |
| `RWLockProofs` | `ReadUnitOwned` (one reader at a time between its two semaphore calls), `LockOwned` and `EndsKnown` (who has found itself first or last still is), `LoadFresh` (a writer's loaded value is not out of date) |
| `BarberProofs` | nothing but the types: the account of the semaphores, `UnitsConserved`, is inductive as it stands |
| `BcacheProofs` | `CountsKept` and `OneCopy` for the references, `LockHeld` and `LockAwaited` for the sleep locks, `FlagsKnown` and `PinsKept` for what may be recycled, `QueueKept` and `CommandKept` for queue and controller, `DiskKept`: a clean buffer is what the disk has |
| `LogProofs` | `Reserved`: entries plus what `begin_op` reserved for the calls in progress fit, a reservation shrinking with each block its call has logged (`WroteKept`); `CommitKnown` and `BootKnown`: what header and log are at each statement of a commit and a recovery; `DirtyLogged`, `Clean` |
| `PipeProofs` | `NewFiles` and `FilesToClose` (who is about to give or take which reference), `OneEnd` (an end is one file, or one that is being closed), `InPipe` (who reads or writes has a descriptor for that end), `BytesKept` over counters that wrap around |
| `InodeProofs` | `CallOK` (what a call has got, by its statement), `Locked` and `DirLocked` (who holds which sleep lock), `Synced` (a copy is what the disk has, but for a block just taken or given back whose `iupdate` is due), `Entry` (what `create` and `unlink` saw in the directory stays), `FreeOK` and `NewOK` (nobody works on a free inode, only its creator on a new one), `ChangeOK` (an inode that is being freed keeps one reference and no link) |

Refinements. `SemaphoreRefines`, `BcacheImplementsBlockStore` and
`PipeImplementsFifo` hold for all constants: each step of the detailed module is
one of the abstract module or leaves it unchanged. `LogImplementsAtomicDisk` has
the condition `[]LogInBounds`, that no transaction writes the block behind the log. The
condition is needed: `MCLogOverrun.cfg` shows the code reach that block (section 4, item 4),
which is a block of the file system and is then overwritten with the last entry.
`LogShortCalls` gives a condition that can be read off the callers: as long as no call in
progress has logged as many blocks as `begin_op` reserved for it (`MAXOPBLOCKS`), the entries stay
inside the log's blocks and the log is the atomic disk. `filewrite` bounds
its calls itself (`file.c:127-137`).

`PipeProofs` needs arithmetic that the solvers do not have: that `% PIPESIZE` of a counter
modulo `Width` is that of the true count (`Width` is a multiple of `PIPESIZE`), which it proves
first. `InodeProofs` first gives each step's effect on every part of the state (the lemmas named
`...Is`), sorts the steps into ten classes by what they do to cache, disk inodes and bitmap
(`Keeps`, `Takes`, `Reads`, `Allocates`, `Changes`, `Enters`, `Truncates`, `Frees`, `Drops`, or nothing but a panic, `Stuck`), and
proves the parts about data once per class, the parts about references, locks and links per step.
`DiskConsistent` has the calls under way in it: `Links` counts `Pending` calls, `BlocksOwned`
takes a file's block from its copy in memory while there is one.

Outside the theorems: pids are mathematical integers below `MaxPid` (the overflow of `nextpid`
after 2^31 forks), and `nlink`, `ref` and `read_count` are natural numbers.

Only model-checked: `RunnableRuns`, `KilledDies`, `SleeperWakes`, `OtherEndGone`, `OrphanReaped` and the fairness part of
`ImplementsSemaphore`, because liveness and ENABLED are out of the prover's reach; and the
violations, which are counterexamples.

## 6. Not modelled

`PROJECT.json` gives the reason for each part.

- Boot, interrupt controllers, keyboard and serial port are input and output or run once;
  `vm.c`, `exec.c` and `kalloc.c` are sequential under a lock or on private data; the
  user programs are the source of the calls, and the models let any call come. The five
  copies of each kernel file are one component.
- The console (the same file in all labs) writes past `input_buf` with the 128th key
  and lets the left arrow move `input.e` below `input.r`; its behaviour is then undefined.
- LAB2's login tables and call counts make no promise that could be checked.
- LAB3's `proc.c` does not compile (`first` is declared twice in `fork`, lines 247 and 249),
  and its scheduler locks itself out as soon as a batch process is runnable
  (`proc.c:517`, `852`). There is no running system to be faithful to.
- LAB5 never initialises its tables (`shmem_init`, `monitor_init_sys` have no caller), so the
  states its code is written for are not reached.
- In the parts that are modelled: memory of a process, `growproc`, the length of sleeps;
  disk errors (nothing above the driver handles them); subdirectories, devices, path names and files of
  several blocks; crashes in `Inode`, whose calls are inside transactions and so are
  covered by `Log`.

## 7. Plan

In this order: `CountingSemaphore` under `RWLock` and `Barber` as an instance, so that the
refinement carries their theorems down to `sleep` and `wakeup`; crashes and the log's
transactions in `Inode`, with the theorem that a crash leaves `DiskConsistent` but for
inodes in use without a name; the line discipline of the console for sessions
that stay inside `input_buf`.
