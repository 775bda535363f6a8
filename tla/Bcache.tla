------------------------------- MODULE Bcache -------------------------------
(***************************************************************************)
(* The buffer cache (LAB4/bio.c), the sleep locks of its buffers           *)
(* (LAB4/sleeplock.c) and the IDE driver with its request queue            *)
(* (LAB4/ide.c).  One action is what happens under one spin lock           *)
(* (bcache.lock, b->lock.lk, idelock); the processes, the controller and   *)
(* the interrupt handler interleave in between.  Each process uses one     *)
(* buffer at a time, as a reader, as the file system (which hands its      *)
(* change to the log) or as the log (which writes the block).              *)
(***************************************************************************)
EXTENDS Integers, Sequences, FiniteSets

CONSTANTS Proc,      \* the processes
          Block,     \* the blocks of the disk
          Data,      \* what a block may contain
          Zero,      \* the contents of a fresh disk
          None,      \* nobody, nothing
          NBUF,      \* buffers of the cache (param.h)
          MaxPinned  \* bound: blocks the log holds in the cache at once

Buf == 1 .. NBUF

ASSUME BcacheAssumption == /\ IsFiniteSet(Proc)
                           /\ None \notin Proc \cup Block \cup Data \cup Buf
                           /\ Zero \in Data
                           /\ NBUF \in Nat \ {0}
                           /\ MaxPinned \in Nat

VARIABLES buf,      \* the buffers: block, flags, refcnt and data
          mru,      \* the list through next: head.next is mru[1]
          lk,       \* the holder of each buffer's sleep lock, or None
          pinned,   \* the blocks in the log's header, not yet installed
          idequeue, \* the buffers waiting for the disk; the first is active
          ctl,      \* the command the controller works on, or None
          irq,      \* the controller has finished and interrupts
          disk,     \* the contents of the disk
          pc,       \* the next statement of each process
          want,     \* the block each process uses or asks for
          cur,      \* b, the buffer bget found for it
          panicked  \* panic() has frozen the machine

cachevars == <<buf, mru, lk, pinned>>
idevars == <<idequeue, ctl, irq, disk>>
procvars == <<pc, want, cur>>
vars == <<cachevars, idevars, procvars, panicked>>

Labels == {"idle", "bget", "lock", "locksleep", "bread", "held",
           "iderw", "iosleep", "iowake", "unref"}

Flags == SUBSET {"VALID", "DIRTY"}

TypeOK == /\ buf \in [Buf -> [block : Block \cup {None}, flags : Flags,
                              refcnt : Nat, data : Data]]
          /\ mru \in [1 .. NBUF -> Buf]
          /\ lk \in [Buf -> Proc \cup {None}]
          /\ pinned \in SUBSET Block
          /\ idequeue \in Seq(Buf)
          /\ ctl \in [block : Block, data : Data \cup {None}] \cup {None}
          /\ irq \in BOOLEAN
          /\ disk \in [Block -> Data]
          /\ pc \in [Proc -> Labels]
          /\ want \in [Proc -> Block \cup {None}]
          /\ cur \in [Proc -> Buf \cup {None}]
          /\ panicked \in BOOLEAN

\* binit(): every buffer goes to the head of the list in turn.
Init == /\ buf = [b \in Buf |-> [block |-> None, flags |-> {},
                                 refcnt |-> 0, data |-> Zero]]
        /\ mru = [i \in 1 .. NBUF |-> NBUF + 1 - i]
        /\ lk = [b \in Buf |-> None]
        /\ pinned = {}
        /\ idequeue = <<>>
        /\ ctl = None
        /\ irq = FALSE
        /\ disk = [k \in Block |-> Zero]
        /\ pc = [p \in Proc |-> "idle"]
        /\ want = [p \in Proc |-> None]
        /\ cur = [p \in Proc |-> None]
        /\ panicked = FALSE

At(p, l) == pc[p] = l /\ ~panicked
Goto(p, l) == pc' = [pc EXCEPT ![p] = l]

(***************************************************************************)
(* bread(dev, blockno), with bget inlined.                                 *)
(***************************************************************************)
CallBread(p) == \E k \in Block : /\ At(p, "idle")
                                 /\ want' = [want EXCEPT ![p] = k]
                                 /\ Goto(p, "bget")
                                 /\ UNCHANGED <<cachevars, idevars, cur, panicked>>

Hits(k) == {b \in Buf : buf[b].block = k}

\* Mutant of BgetHit: the reference count is left alone.
BgetHitUncounted(p) == \E b \in Hits(want[p]) :
    /\ At(p, "bget")
    /\ cur' = [cur EXCEPT ![p] = b]
    /\ Goto(p, "lock")
    /\ UNCHANGED <<cachevars, idevars, want, panicked>>

\* The block is cached: count a reference, then go for the buffer's lock.
BgetHit(p) == \E b \in Hits(want[p]) :
    /\ At(p, "bget")
    /\ buf' = [buf EXCEPT ![b].refcnt = @ + 1]
    /\ cur' = [cur EXCEPT ![p] = b]
    /\ Goto(p, "lock")
    /\ UNCHANGED <<mru, lk, pinned, idevars, want, panicked>>

\* Mutant of Recyclable: a buffer the log has modified counts as unused.
RecyclableDirty(b) == buf[b].refcnt = 0

\* Nobody refers to the buffer, and the log does not need it.
Recyclable(b) == buf[b].refcnt = 0 /\ "DIRTY" \notin buf[b].flags

\* Not cached: the last recyclable buffer of the list, from head.prev on.
BgetMiss(p) == \E i \in 1 .. NBUF :
    LET b == mru[i] IN
    /\ At(p, "bget")
    /\ Hits(want[p]) = {}
    /\ Recyclable(b)
    /\ \A j \in i + 1 .. NBUF : ~Recyclable(mru[j])
    /\ buf' = [buf EXCEPT ![b].block = want[p], ![b].flags = {}, ![b].refcnt = 1]
    /\ cur' = [cur EXCEPT ![p] = b]
    /\ Goto(p, "lock")
    /\ UNCHANGED <<mru, lk, pinned, idevars, want, panicked>>

\* panic("bget: no buffers").
BgetPanic(p) == /\ At(p, "bget")
                /\ Hits(want[p]) = {}
                /\ \A b \in Buf : ~Recyclable(b)
                /\ panicked' = TRUE
                /\ UNCHANGED <<cachevars, idevars, procvars>>

\* acquiresleep(&b->lock): the lock is free.
AcquireSleep(p) == LET b == cur[p] IN
    /\ At(p, "lock")
    /\ lk[b] = None
    /\ lk' = [lk EXCEPT ![b] = p]
    /\ Goto(p, "bread")
    /\ UNCHANGED <<buf, mru, pinned, idevars, want, cur, panicked>>

\* acquiresleep: somebody has it; test and going to sleep are under lk->lk.
AcquireSleepWait(p) == /\ At(p, "lock")
                       /\ lk[cur[p]] # None
                       /\ Goto(p, "locksleep")
                       /\ UNCHANGED <<cachevars, idevars, want, cur, panicked>>

\* bread: the buffer has the contents already, or the disk must be asked.
BreadTest(p) == /\ At(p, "bread")
                /\ Goto(p, IF "VALID" \in buf[cur[p]].flags THEN "held" ELSE "iderw")
                /\ UNCHANGED <<cachevars, idevars, want, cur, panicked>>

(***************************************************************************)
(* What a process does with the buffer it holds.                           *)
(***************************************************************************)
\* The file system changes the block and calls log_write, which marks the
\* buffer dirty and notes the block; the log keeps it until it is installed.
LogWrite(p) == \E d \in Data : LET b == cur[p] IN
    /\ At(p, "held")
    /\ want[p] \in pinned \/ Cardinality(pinned) < MaxPinned
    /\ pinned' = pinned \cup {want[p]}
    /\ buf' = [buf EXCEPT ![b].data = d, ![b].flags = @ \cup {"DIRTY"}]
    /\ UNCHANGED <<mru, lk, idevars, procvars, panicked>>

\* The log fills the buffer and calls bwrite; install_trans does so for a
\* block it noted, write_log and write_head for the blocks of the log.
Bwrite(p) == \E d \in Data : LET b == cur[p] IN
    /\ At(p, "held")
    /\ pinned' = pinned \ {want[p]}
    /\ buf' = [buf EXCEPT ![b].data = d, ![b].flags = @ \cup {"DIRTY"}]
    /\ Goto(p, "iderw")
    /\ UNCHANGED <<mru, lk, idevars, want, cur, panicked>>

\* Those asleep on the sleep lock of b are made runnable.
WakeLock(b, p, l) ==
    pc' = [q \in Proc |-> CASE q = p -> l
                            [] q # p /\ pc[q] = "locksleep" /\ cur[q] = b -> "lock"
                            [] OTHER -> pc[q]]

\* brelse(b), first half: releasesleep(&b->lock).
Brelse(p) == /\ At(p, "held")
             /\ lk' = [lk EXCEPT ![cur[p]] = None]
             /\ WakeLock(cur[p], p, "unref")
             /\ UNCHANGED <<buf, mru, pinned, idevars, want, cur, panicked>>

\* Mutant of ToHead: b is put at the head and stays where it was.
ToHeadTwice(b) == <<b>> \o mru

\* The list with b moved to its head: those before it make room.
ToHead(b) == LET at == CHOOSE i \in 1 .. NBUF : mru[i] = b IN
    [i \in 1 .. NBUF |-> IF i = 1 THEN b ELSE IF i <= at THEN mru[i - 1] ELSE mru[i]]

\* brelse(b), second half, under bcache.lock.
Unref(p) == LET b == cur[p] IN
    /\ At(p, "unref")
    /\ buf' = [buf EXCEPT ![b].refcnt = @ - 1]
    /\ mru' = IF buf[b].refcnt = 1 THEN ToHead(b) ELSE mru
    /\ cur' = [cur EXCEPT ![p] = None]
    /\ want' = [want EXCEPT ![p] = None]
    /\ Goto(p, "idle")
    /\ UNCHANGED <<lk, pinned, idevars, panicked>>

(***************************************************************************)
(* The disk.                                                               *)
(***************************************************************************)
\* idestart(b): the command and, for a write, the data go to the controller.
Command(b) == [block |-> buf[b].block,
               data  |-> IF "DIRTY" \in buf[b].flags THEN buf[b].data ELSE None]

\* iderw(b) under idelock: append b, start the disk if it was idle, sleep.
Iderw(p) == LET b == cur[p] IN
    /\ At(p, "iderw")
    /\ idequeue' = Append(idequeue, b)
    /\ ctl' = IF idequeue = <<>> THEN Command(b) ELSE ctl
    /\ Goto(p, "iosleep")
    /\ UNCHANGED <<cachevars, irq, disk, want, cur, panicked>>

\* The controller carries its command out and raises the interrupt.
Controller == /\ ctl # None /\ ~panicked
              /\ ~irq
              /\ disk' = IF ctl.data = None THEN disk
                         ELSE [disk EXCEPT ![ctl.block] = ctl.data]
              /\ irq' = TRUE
              /\ UNCHANGED <<cachevars, idequeue, ctl, procvars, panicked>>

\* Mutant of Ideintr: the next request is not started.
IdeintrStops ==
    LET b == Head(idequeue)
        rest == Tail(idequeue) IN
    /\ irq /\ ~panicked
    /\ idequeue' = rest
    /\ buf' = [buf EXCEPT ![b].flags = {"VALID"},
                          ![b].data = IF "DIRTY" \in buf[b].flags THEN @
                                      ELSE disk[ctl.block]]
    /\ pc' = [q \in Proc |-> IF pc[q] = "iosleep" /\ cur[q] = b THEN "iowake" ELSE pc[q]]
    /\ ctl' = None
    /\ irq' = FALSE
    /\ UNCHANGED <<mru, lk, pinned, disk, want, cur, panicked>>

\* ideintr(): the first buffer is done; take in what was read, wake its
\* process, start the next request.
Ideintr ==
    LET b == Head(idequeue)
        rest == Tail(idequeue) IN
    /\ irq /\ ~panicked
    /\ idequeue' = rest
    /\ buf' = [buf EXCEPT ![b].flags = {"VALID"},
                          ![b].data = IF "DIRTY" \in buf[b].flags THEN @
                                      ELSE disk[ctl.block]]
    /\ pc' = [q \in Proc |-> IF pc[q] = "iosleep" /\ cur[q] = b THEN "iowake" ELSE pc[q]]
    /\ ctl' = IF rest = <<>> THEN None ELSE Command(Head(rest))
    /\ irq' = FALSE
    /\ UNCHANGED <<mru, lk, pinned, disk, want, cur, panicked>>

\* iderw: the process wakes and tests the flags again.
IderwRetest(p) == /\ At(p, "iowake")
                  /\ Goto(p, IF buf[cur[p]].flags = {"VALID"} THEN "held" ELSE "iosleep")
                  /\ UNCHANGED <<cachevars, idevars, want, cur, panicked>>

\* kill() makes a process runnable that is asleep on a buffer's lock or for the
\* disk: both of them test again what they wait for.
Kill(p) == /\ \/ At(p, "locksleep") /\ Goto(p, "lock")
              \/ At(p, "iosleep") /\ Goto(p, "iowake")
           /\ UNCHANGED <<cachevars, idevars, want, cur, panicked>>

ProcStep(p) == \/ CallBread(p) \/ BgetHit(p) \/ BgetMiss(p) \/ BgetPanic(p)
               \/ AcquireSleep(p) \/ AcquireSleepWait(p) \/ BreadTest(p)
               \/ LogWrite(p) \/ Bwrite(p) \/ Brelse(p) \/ Unref(p)
               \/ Iderw(p) \/ IderwRetest(p)

Next == (\E p \in Proc : ProcStep(p) \/ Kill(p)) \/ Controller \/ Ideintr

Spec == Init /\ [][Next]_vars

(***************************************************************************)
(* Properties.                                                             *)
(***************************************************************************)
\* A process with a buffer: it has counted its reference and not given it up.
Refers(p) == cur[p] # None

\* From the moment bget finds a buffer until brelse gives it up the buffer is
\* the one and only copy of the block, and its count is the number of such
\* processes: it is never recycled under a process that waits for its lock, for
\* the disk, or uses it; and as no reference is left behind, bget panics only
\* when as many blocks as there are buffers are in use or noted by the log at
\* once (bio.c:69-92, 126-138).
BufferStays ==
    /\ \A p \in Proc : Refers(p) => Hits(want[p]) = {cur[p]}
    /\ \A b \in Buf : buf[b].refcnt = Cardinality({p \in Proc : cur[p] = b})
    /\ panicked =>
          Cardinality({want[p] : p \in {q \in Proc : Refers(q)}} \cup pinned) = NBUF

\* A process asleep on a sleep lock is one its holder will wake; one asleep
\* in iderw has its buffer in the queue, once; and while the queue is not
\* empty the controller works on the first buffer (sleeplock.c:26-40,
\* ide.c:111-128, 149-163): nobody sleeps for a wakeup that is not coming.
SleeperHasWaker ==
    /\ \A p \in Proc : pc[p] = "locksleep" => lk[cur[p]] \notin {None, p}
    /\ \A p \in Proc : pc[p] = "iosleep" =>
           Cardinality({i \in DOMAIN idequeue : idequeue[i] = cur[p]}) = 1
    /\ IF idequeue = <<>> THEN ctl = None
       ELSE ctl = Command(Head(idequeue))

\* The cache as its callers see it.
View(k) == LET cached == {b \in Hits(k) : buf[b].flags # {}} IN
           IF cached = {} THEN disk[k] ELSE buf[CHOOSE b \in cached : TRUE].data

\* The processes between bread and brelse of a block.
Using(k) == {p \in Proc : /\ want[p] = k
                          /\ \/ pc[p] = "held"
                             \/ pc[p] \in {"iderw", "iosleep", "iowake"}
                                /\ "DIRTY" \in buf[cur[p]].flags
                             \/ pc[p] = "iowake" /\ buf[cur[p]].flags = {"VALID"}}

Store == INSTANCE BlockStore WITH content <- [k \in Block |-> View(k)],
                                  users <- [k \in Block |-> Using(k)]

\* One process at a time uses a block, and finds in it what the last one
\* left, across recycling, the log's pins, reads and writes of the disk.
ImplementsBlockStore == Store!Spec
=============================================================================
