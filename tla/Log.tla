-------------------------------- MODULE Log --------------------------------
(***************************************************************************)
(* The write-ahead log of the file system (LAB4/log.c) with the part of the*)
(* buffer cache it relies on (LAB4/bio.c: cached contents, B_DIRTY, buffer *)
(* locks).  What is under log.lock is one action; every block written to   *)
(* the disk is an action of its own; the machine may crash between any two,*)
(* also during recovery.  A block of BSIZE = 512 bytes is one disk sector, *)
(* so a single write is atomic.                                            *)
(***************************************************************************)
EXTENDS Integers, Sequences, FiniteSets

CONSTANTS Block,        \* home blocks
          Data,         \* what a block may contain
          Proc,         \* the processes that make file system calls
          None,         \* nobody; not cached
          Zero,         \* the contents mkfs gives the blocks
          After,        \* the home block that follows the log on the disk
          MAXOPBLOCKS,  \* blocks that one call writes at most (param.h)
          LOGSIZE,      \* entries of log.lh.block (param.h)
          nlog          \* log.size: blocks of the on-disk log with its header

\* mkfs.c makes nlog = LOGSIZE.
ASSUME LogAssumption == /\ IsFiniteSet(Proc) /\ IsFiniteSet(Block)
                        /\ None \notin Data \cup Proc
                        /\ Zero \in Data
                        /\ After \in Block
                        /\ MAXOPBLOCKS \in Nat \ {0}
                        /\ LOGSIZE \in Nat \ {0}
                        /\ nlog = LOGSIZE

VARIABLES home,        \* disk: the home blocks
          header,      \* disk: the header block of the log, its n entries
          logdisk,     \* disk: the log blocks behind the header
          lh,          \* log.lh, the n entries of block
          outstanding, \* log.outstanding
          committing,  \* log.committing
          cache,       \* bcache: contents of the home blocks, or None
          dirty,       \* the cached blocks with B_DIRTY
          locked,      \* the holder of each buffer's sleep lock, or None
          pc,          \* the next statement of each process
          wrote,       \* the blocks each call has logged so far
          tail,        \* the loop variable of write_log and install_trans
          boot,        \* initlog's progress; "up" when it is done
          panicked     \* panic() has frozen the machine

disk == <<home, header, logdisk>>
log == <<lh, outstanding, committing>>
bcache == <<cache, dirty, locked>>
vars == <<disk, log, bcache, pc, wrote, tail, boot, panicked>>

Labels == {"out", "begin", "sleep", "op", "append",
           "write_log", "write_head", "install", "clear", "done"}

TypeOK == /\ home \in [Block -> Data]
          /\ header \in Seq(Block)
          /\ logdisk \in [1 .. nlog - 1 -> Data]
          /\ lh \in Seq(Block)
          /\ outstanding \in Nat
          /\ committing \in BOOLEAN
          /\ cache \in [Block -> Data \cup {None}]
          /\ dirty \in SUBSET Block
          /\ locked \in [Block -> Proc \cup {None}]
          /\ pc \in [Proc -> Labels]
          /\ wrote \in [Proc -> SUBSET Block]
          /\ tail \in Nat
          /\ boot \in {"read_head", "install", "clear", "up"}
          /\ panicked \in BOOLEAN

\* The first boot, on the disk mkfs made: the header block is zero.
Init == /\ home = [b \in Block |-> Zero]
        /\ header = <<>>
        /\ logdisk = [i \in 1 .. nlog - 1 |-> Zero]
        /\ lh = <<>>
        /\ outstanding = 0
        /\ committing = FALSE
        /\ cache = [b \in Block |-> None]
        /\ dirty = {}
        /\ locked = [b \in Block |-> None]
        /\ pc = [p \in Proc |-> "out"]
        /\ wrote = [p \in Proc |-> {}]
        /\ tail = 1
        /\ boot = "read_head"
        /\ panicked = FALSE

Entries(s) == {s[i] : i \in DOMAIN s}
Goto(p, l) == pc' = [pc EXCEPT ![p] = l]

\* The kernel runs system calls once initlog has recovered the disk.
Running == boot = "up" /\ ~panicked

\* What a buffer of block b holds after bread: the cache, or else the disk.
View(b) == IF cache[b] # None THEN cache[b] ELSE home[b]

\* Block log.start + i: the log has nlog - 1 of them, the next is After.
LogBlock(i) == IF i < nlog THEN logdisk[i] ELSE View(After)

(***************************************************************************)
(* begin_op().                                                             *)
(***************************************************************************)
CallBeginOp(p) == /\ Running
                  /\ pc[p] = "out"
                  /\ Goto(p, "begin")
                  /\ UNCHANGED <<disk, log, bcache, wrote, tail, boot, panicked>>

\* Mutant: a call's own reservation only.
NoSpaceIgnoresOutstanding == Len(lh) + MAXOPBLOCKS > LOGSIZE

\* The test of the log space in begin_op.
NoSpace == Len(lh) + (outstanding + 1) * MAXOPBLOCKS > LOGSIZE

BeginOpSleep(p) == /\ Running
                   /\ pc[p] = "begin"
                   /\ committing \/ NoSpace
                   /\ Goto(p, "sleep")
                   /\ UNCHANGED <<disk, log, bcache, wrote, tail, boot, panicked>>

\* kill() makes a process asleep in begin_op runnable again: the loop tests anew.
Kill(p) == /\ Running
           /\ pc[p] = "sleep"
           /\ Goto(p, "begin")
           /\ UNCHANGED <<disk, log, bcache, wrote, tail, boot, panicked>>

\* Mutant: begin_op does not look at log.committing.
BeginOpDuringCommit(p) == /\ Running
                          /\ pc[p] = "begin"
                          /\ ~NoSpace
                          /\ outstanding' = outstanding + 1
                          /\ Goto(p, "op")
                          /\ UNCHANGED <<disk, lh, committing, bcache, wrote, tail, boot, panicked>>

BeginOp(p) == /\ Running
              /\ pc[p] = "begin"
              /\ ~committing
              /\ ~NoSpace
              /\ outstanding' = outstanding + 1
              /\ Goto(p, "op")
              /\ UNCHANGED <<disk, lh, committing, bcache, wrote, tail, boot, panicked>>

(***************************************************************************)
(* A call's write: bread, a change of b->data, log_write, brelse.          *)
(***************************************************************************)
\* The call changes the locked buffer, and log_write makes its two tests
\* without log.lock.  A call writes MAXOPBLOCKS blocks at most.
LogWriteCheck(p, b, d) ==
  /\ Running
  /\ pc[p] = "op"
  /\ locked[b] = None
  /\ Cardinality(wrote[p] \cup {b}) <= MAXOPBLOCKS
  /\ cache' = [cache EXCEPT ![b] = d]
  /\ locked' = [locked EXCEPT ![b] = p]
  /\ IF Len(lh) >= LOGSIZE \/ Len(lh) >= nlog - 1 \/ outstanding < 1
       THEN panicked' = TRUE /\ UNCHANGED pc
       ELSE Goto(p, "append") /\ UNCHANGED panicked
  /\ UNCHANGED <<disk, log, dirty, wrote, tail, boot>>

\* Mutant: log_write leaves the buffer clean.
LogWriteUnpinned(p, b) ==
    /\ Running
    /\ pc[p] = "append"
    /\ locked[b] = p
    /\ lh' = IF b \in Entries(lh) THEN lh ELSE Append(lh, b)
    /\ dirty' = dirty
    /\ locked' = [locked EXCEPT ![b] = None]
    /\ wrote' = [wrote EXCEPT ![p] = @ \cup {b}]
    /\ Goto(p, "op")
    /\ UNCHANGED <<disk, outstanding, committing, cache, tail, boot, panicked>>

\* Under log.lock: the block gets an entry unless it has one; its buffer is
\* pinned by B_DIRTY.  Then brelse.
LogWriteAppend(p, b) ==
  /\ Running
  /\ pc[p] = "append"
  /\ locked[b] = p
  /\ lh' = IF b \in Entries(lh) THEN lh ELSE Append(lh, b)
  /\ dirty' = dirty \cup {b}
  /\ locked' = [locked EXCEPT ![b] = None]
  /\ wrote' = [wrote EXCEPT ![p] = @ \cup {b}]
  /\ Goto(p, "op")
  /\ UNCHANGED <<disk, outstanding, committing, cache, tail, boot, panicked>>

\* bget() reads a block in, or recycles its buffer if nobody uses it and it is
\* not B_DIRTY.
ReadIn(b) == /\ Running
             /\ cache[b] = None
             /\ cache' = [cache EXCEPT ![b] = home[b]]
             /\ UNCHANGED <<disk, log, dirty, locked, pc, wrote, tail, boot, panicked>>

Recycle(b) == /\ Running
              /\ cache[b] # None
              /\ locked[b] = None
              /\ b \notin dirty
              /\ cache' = [cache EXCEPT ![b] = None]
              /\ UNCHANGED <<disk, log, dirty, locked, pc, wrote, tail, boot, panicked>>

(***************************************************************************)
(* end_op() and commit().                                                  *)
(***************************************************************************)
\* wakeup(&log).
WakeLog(f) == [p \in Proc |-> IF f[p] = "sleep" THEN "begin" ELSE f[p]]

\* Mutant: no wakeup after the decrement.
EndOpSilent(p) == /\ Running
                  /\ pc[p] = "op"
                  /\ outstanding # 1 \/ committing
                  /\ outstanding' = outstanding - 1
                  /\ wrote' = [wrote EXCEPT ![p] = {}]
                  /\ panicked' = committing
                  /\ pc' = IF committing THEN pc ELSE [pc EXCEPT ![p] = "out"]
                  /\ UNCHANGED <<disk, lh, committing, bcache, tail, boot>>

\* Not the last call: panic("log.committing") during a commit, or else wake those
\* that wait for space.
EndOp(p) == /\ Running
            /\ pc[p] = "op"
            /\ outstanding # 1 \/ committing
            /\ outstanding' = outstanding - 1
            /\ wrote' = [wrote EXCEPT ![p] = {}]
            /\ panicked' = committing
            /\ pc' = IF committing THEN pc ELSE WakeLog([pc EXCEPT ![p] = "out"])
            /\ UNCHANGED <<disk, lh, committing, bcache, tail, boot>>

\* The last call commits.
EndOpCommit(p) == /\ Running
                  /\ pc[p] = "op"
                  /\ outstanding = 1
                  /\ ~committing
                  /\ outstanding' = 0
                  /\ committing' = TRUE
                  /\ wrote' = [wrote EXCEPT ![p] = {}]
                  /\ tail' = 1
                  /\ Goto(p, IF lh = <<>> THEN "done" ELSE "write_log")
                  /\ UNCHANGED <<disk, lh, bcache, boot, panicked>>

\* write_log(): one block from the cache to block log.start + tail.
WriteLogBlock(d) ==
  IF tail < nlog
    THEN /\ logdisk' = [logdisk EXCEPT ![tail] = d]
         /\ UNCHANGED <<home, bcache>>
    ELSE /\ home' = [home EXCEPT ![After] = d]
         /\ cache' = [cache EXCEPT ![After] = d]
         /\ dirty' = dirty \ {After}
         /\ UNCHANGED <<logdisk, locked>>

WriteLog(p) == /\ Running
               /\ pc[p] = "write_log"
               /\ WriteLogBlock(View(lh[tail]))
               /\ tail' = IF tail < Len(lh) THEN tail + 1 ELSE 1
               /\ Goto(p, IF tail < Len(lh) THEN "write_log" ELSE "write_head")
               /\ UNCHANGED <<header, log, wrote, boot, panicked>>

\* write_head(): the true point of the commit.
WriteHead(p) == /\ Running
                /\ pc[p] = "write_head"
                /\ header' = lh
                /\ tail' = 1
                /\ Goto(p, "install")
                /\ UNCHANGED <<home, logdisk, log, bcache, wrote, boot, panicked>>

\* One round of install_trans(): a log block is copied to its home block, whose
\* buffer is clean again.
InstallBlock == /\ home' = [home EXCEPT ![lh[tail]] = LogBlock(tail)]
                /\ cache' = [cache EXCEPT ![lh[tail]] = LogBlock(tail)]
                /\ dirty' = dirty \ {lh[tail]}
                /\ tail' = IF tail < Len(lh) THEN tail + 1 ELSE 1

\* Mutant: the loop ends after its first round.
InstallTransOnce(p) == /\ Running
                       /\ pc[p] = "install"
                       /\ InstallBlock
                       /\ Goto(p, "clear")
                       /\ UNCHANGED <<header, logdisk, log, locked, wrote, boot, panicked>>

InstallTrans(p) == /\ Running
                   /\ pc[p] = "install"
                   /\ InstallBlock
                   /\ Goto(p, IF tail < Len(lh) THEN "install" ELSE "clear")
                   /\ UNCHANGED <<header, logdisk, log, locked, wrote, boot, panicked>>

\* log.lh.n = 0; write_head().
ClearLog(p) == /\ Running
               /\ pc[p] = "clear"
               /\ lh' = <<>>
               /\ header' = <<>>
               /\ Goto(p, "done")
               /\ UNCHANGED <<home, logdisk, outstanding, committing, bcache, wrote,
                              tail, boot, panicked>>

\* Mutant: no wakeup at the end of a commit.
EndCommitSilent(p) == /\ Running
                      /\ pc[p] = "done"
                      /\ committing' = FALSE
                      /\ pc' = [pc EXCEPT ![p] = "out"]
                      /\ UNCHANGED <<disk, lh, outstanding, bcache, wrote, tail, boot, panicked>>

\* Mutant: the decrement is repeated.
EndCommitDecrements(p) == /\ Running
                          /\ pc[p] = "done"
                          /\ committing' = FALSE
                          /\ outstanding' = outstanding - 1
                          /\ pc' = WakeLog([pc EXCEPT ![p] = "out"])
                          /\ UNCHANGED <<disk, lh, bcache, wrote, tail, boot, panicked>>

\* Back in end_op, under log.lock.
EndCommit(p) == /\ Running
                /\ pc[p] = "done"
                /\ committing' = FALSE
                /\ pc' = WakeLog([pc EXCEPT ![p] = "out"])
                /\ UNCHANGED <<disk, lh, outstanding, bcache, wrote, tail, boot, panicked>>

(***************************************************************************)
(* Crash, and initlog() with recover_from_log() at the next boot.          *)
(***************************************************************************)
\* Everything but the disk is lost.
Crash == /\ lh' = <<>>
         /\ outstanding' = 0
         /\ committing' = FALSE
         /\ cache' = [b \in Block |-> None]
         /\ dirty' = {}
         /\ locked' = [b \in Block |-> None]
         /\ pc' = [p \in Proc |-> "out"]
         /\ wrote' = [p \in Proc |-> {}]
         /\ tail' = 1
         /\ boot' = "read_head"
         /\ panicked' = FALSE
         /\ UNCHANGED disk

ReadHead == /\ boot = "read_head"
            /\ lh' = header
            /\ tail' = 1
            /\ boot' = IF header = <<>> THEN "clear" ELSE "install"
            /\ UNCHANGED <<disk, outstanding, committing, bcache, pc, wrote, panicked>>

RecoverInstall == /\ boot = "install"
                  /\ InstallBlock
                  /\ boot' = IF tail < Len(lh) THEN "install" ELSE "clear"
                  /\ UNCHANGED <<header, logdisk, log, locked, pc, wrote, panicked>>

RecoverClear == /\ boot = "clear"
                /\ lh' = <<>>
                /\ header' = <<>>
                /\ boot' = "up"
                /\ UNCHANGED <<home, logdisk, outstanding, committing, bcache, pc,
                               wrote, tail, panicked>>

-----------------------------------------------------------------------------
CallEndOp(p) == EndOp(p) \/ EndOpCommit(p)

LogStep(p) == \/ BeginOp(p)      \/ BeginOpSleep(p)
              \/ \E b \in Block : LogWriteAppend(p, b)
              \/ WriteLog(p)     \/ WriteHead(p)       \/ InstallTrans(p)
              \/ ClearLog(p)     \/ EndCommit(p)

Boot == ReadHead \/ RecoverInstall \/ RecoverClear

Next == \/ \E p \in Proc : \/ CallBeginOp(p)
                           \/ Kill(p)
                           \/ LogStep(p)
                           \/ CallEndOp(p)
                           \/ \E b \in Block, d \in Data : LogWriteCheck(p, b, d)
        \/ \E b \in Block : ReadIn(b) \/ Recycle(b)
        \/ Boot
        \/ Crash

SafeSpec == Init /\ [][Next]_vars

\* A process inside begin_op, log_write or commit goes on; an operation ends some
\* day, however often it writes before.
Fairness == /\ \A p \in Proc : WF_vars(LogStep(p)) /\ SF_vars(CallEndOp(p))
            /\ WF_vars(Boot)

Spec == SafeSpec /\ Fairness

-----------------------------------------------------------------------------
InOp(p) == pc[p] \in {"op", "append"}
InCommit(p) == pc[p] \in {"write_log", "write_head", "install", "clear", "done"}

\* The blocks that recovery, started now, would leave on the disk.
Recovered(i) == IF i < nlog THEN logdisk[i] ELSE home[After]
Stable == [b \in Block |-> IF b \in Entries(header)
                             THEN Recovered(CHOOSE i \in DOMAIN header : header[i] = b)
                             ELSE home[b]]

\* No call is between begin_op and end_op while the log commits, only one process
\* commits, and outstanding counts the calls; end_op cannot panic
\* (LAB4/log.c:130-136, :151-157, :170).
CommitAlone ==
  /\ \A p, q \in Proc : InCommit(p) => ~InOp(q) /\ (InCommit(q) => p = q)
  /\ committing <=> \E p \in Proc : InCommit(p)
  /\ outstanding = Cardinality({p \in Proc : InOp(p)})

\* The entries stay inside log.lh.block[LOGSIZE], although log_write tests n
\* before it takes log.lock, and no block has two entries (LAB4/log.c:132-136,
\* :218-230).
LogFits == /\ Len(lh) <= LOGSIZE
           /\ \A i, j \in DOMAIN lh : lh[i] = lh[j] => i = j

\* A process asleep in begin_op has a reason: its wakeup was not lost
\* (LAB4/log.c:130-134, :161, :170-171).
SleeperHasReason == \A p \in Proc : pc[p] = "sleep" => committing \/ NoSpace

\* When no call is in progress and no commit either, all that the calls did is on
\* the disk at its home, and the log is empty (LAB4/log.c:165-173, :193-202).
IdleIsDurable ==
  boot = "up" /\ ~committing /\ outstanding = 0 =>
     header = <<>> /\ lh = <<>> /\ \A b \in Block : View(b) = home[b]

\* "if (log.lh.n >= LOGSIZE || log.lh.n >= log.size - 1) panic" (LAB4/log.c:218): a
\* transaction stays inside the blocks that mkfs gives the log, and never goes on
\* with the block behind them.
LogInBounds == Len(lh) <= nlog - 1

\* Nobody sleeps in begin_op for ever, unless the kernel has panicked
\* (LAB4/log.c:131, :134 against :161, :171).
SleeperWakes == \A p \in Proc : pc[p] = "sleep" ~> (pc[p] # "sleep" \/ panicked)

-----------------------------------------------------------------------------
\* The refinement: a crash would leave Stable; the calls see the buffers, or,
\* before recovery is complete, what recovery will leave.
Current == IF boot = "up" THEN [b \in Block |-> View(b)] ELSE Stable

AD == INSTANCE AtomicDisk WITH stable <- Stable,
                               current <- Current,
                               active <- {p \in Proc : InOp(p)}

\* The log implements the atomic disk: whole calls, all or nothing, across a
\* crash at any point, recovery included (LAB4/log.c:9-21, :193-202).
ImplementsAtomicDisk == AD!Spec
=============================================================================
