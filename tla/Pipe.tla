-------------------------------- MODULE Pipe --------------------------------
(***************************************************************************)
(* Pipes (LAB4/pipe.c) together with the open files that are their ends    *)
(* (File) and the system calls that make, share and close these: pipe,     *)
(* dup, fork, close, exit.  There is one page of memory for one pipe at a  *)
(* time, so that pipe() fails half way when it is in use.  Writers sleep on*)
(* &p->nwrite, readers on &p->nread; what runs under p->lock up to a sleep *)
(* is one action, and going to sleep is another, because kill does not     *)
(* take p->lock.                                                           *)
(***************************************************************************)
EXTENDS File

CONSTANTS Data,      \* what a byte may be
          PIPESIZE,  \* bytes the pipe holds
          Width,     \* nread and nwrite count modulo Width, 2^32 in the code
          MaxCount,  \* bound: bytes of one read or write
          MaxKilled  \* bound: processes that are killed and have not exited yet

ASSUME PipeAssumption == /\ PIPESIZE \in Nat \ {0}
                         /\ Width \in Nat
                         /\ Width % PIPESIZE = 0 /\ Width > PIPESIZE
                         /\ MaxCount \in Nat \ {0}
                         /\ MaxKilled \in Nat
                         /\ None \notin Proc \cup Data

VARIABLES data,      \* p->data, None where a byte is junk
          nread,     \* p->nread
          nwrite,    \* p->nwrite
          readopen,  \* p->readopen
          writeopen, \* p->writeopen
          page,      \* is the page of the pipe allocated?
          plock,     \* the holder of p->lock, or None
          out,       \* the bytes a read has just returned, else <<>>
          pc,        \* the next statement of each process
          call,      \* local variables of each process's system call: count,
                     \* the bytes to read or still to write; new, the files
                     \* pipealloc has got; todo, the files to close; closing,
                     \* the end in fileclose's copy of a file
          exiting,   \* the processes in exit
          killed,    \* the processes with p->killed
          unsaid     \* history: the last writer left without a wakeup

filevars == <<ftable, ofile>>
pipe == <<data, nread, nwrite, readopen, writeopen, page>>
flags == <<exiting, killed, unsaid>>
vars == <<filevars, pipe, plock, out, pc, call, flags>>

ReadLabels == {"read", "readsleep", "readasleep"}
WriteLabels == {"write", "writesleep", "writeasleep"}
Labels == ReadLabels \cup WriteLabels \cup
          {"unused", "user", "filealloc", "kalloc", "fdalloc", "close", "pipeclose"}

\* kfree fills a page with junk.
Junk == [i \in 0 .. PIPESIZE - 1 |-> None]

TypeOK == /\ FileTypeOK
          /\ data \in [0 .. PIPESIZE - 1 -> Data \cup {None}]
          /\ nread \in 0 .. Width - 1
          /\ nwrite \in 0 .. Width - 1
          /\ {readopen, writeopen, page, unsaid} \subseteq BOOLEAN
          /\ plock \in Proc \cup {None}
          /\ out \in Seq(Data)
          /\ pc \in [Proc -> Labels]
          /\ call \in [Proc -> [count : 0 .. MaxCount, new : Seq(Slot), todo : Seq(Slot),
                                closing : {"none", "read", "write"}]]
          /\ exiting \in SUBSET Proc
          /\ killed \in SUBSET Proc

\* One process with the console open; the others are forked.
Init == /\ \E p \in Proc : /\ FileInit(p)
                          /\ pc = [q \in Proc |-> IF q = p THEN "user" ELSE "unused"]
        /\ data = Junk
        /\ nread = 0 /\ nwrite = 0
        /\ readopen = FALSE /\ writeopen = FALSE
        /\ page = FALSE
        /\ plock = None
        /\ out = <<>>
        /\ call = [p \in Proc |-> [count |-> 0, new |-> <<>>, todo |-> <<>>,
                                   closing |-> "none"]]
        /\ exiting = {}
        /\ killed = {}
        /\ unsaid = FALSE

\* p goes on at l, and those asleep at label s are made runnable and go on at t.
Waking(p, l, s, t) ==
    [q \in Proc |-> IF q = p THEN l ELSE IF pc[q] = s THEN t ELSE pc[q]]

\* All actions but one return no bytes from a read.
Quiet == out' = <<>>
Goto(p, l) == pc' = [pc EXCEPT ![p] = l] /\ Quiet
GotoWaking(p, l, s, t) == pc' = Waking(p, l, s, t) /\ Quiet

\* A process in its program, neither killed nor in exit.
InUser(p) == pc[p] = "user" /\ p \notin killed \cup exiting

\* p->nwrite - p->nread, unsigned.
Used == (nwrite - nread) % Width

\* The files of fs are still to be closed, if there are any.
CloseOr(fs) == IF fs = <<>> THEN "user" ELSE "close"

EndOf(writable) == IF writable THEN "write" ELSE "read"

(***************************************************************************)
(* pipe().                                                                 *)
(***************************************************************************)
SysPipe(p) == /\ InUser(p)
              /\ Goto(p, "filealloc")
              /\ UNCHANGED <<filevars, pipe, plock, call, flags>>

\* filealloc, for the read end and then for the write end.
PipeFile(p) == \E f \in Slot :
    /\ pc[p] = "filealloc"
    /\ Filealloc(f)
    /\ call' = [call EXCEPT ![p].new = Append(@, f)]
    /\ Goto(p, IF call[p].new = <<>> THEN "filealloc" ELSE "kalloc")
    /\ UNCHANGED <<ofile, pipe, plock, flags>>

\* No file structure or no memory: the files that there are, are closed.
PipeBad(p) == /\ \/ pc[p] = "filealloc" /\ Free = {}
                 \/ pc[p] = "kalloc" /\ page
              /\ call' = [call EXCEPT ![p].todo = call[p].new, ![p].new = <<>>]
              /\ Goto(p, CloseOr(call[p].new))
              /\ UNCHANGED <<filevars, pipe, plock, flags>>

\* kalloc succeeds: the pipe and its two files are set up.
PipeMake(p) == /\ pc[p] = "kalloc"
               /\ ~page
               /\ page' = TRUE
               /\ readopen' = TRUE
               /\ writeopen' = TRUE
               /\ nread' = 0
               /\ nwrite' = 0
               /\ ftable' = [ftable EXCEPT
                      ![call[p].new[1]] = [@ EXCEPT !.type = "PIPE", !.writable = FALSE],
                      ![call[p].new[2]] = [@ EXCEPT !.type = "PIPE", !.writable = TRUE]]
               /\ Goto(p, "fdalloc")
               /\ UNCHANGED <<ofile, data, plock, call, flags>>

\* sys_pipe: the pipe gets its two descriptors.
PipeFds(p) == /\ pc[p] = "fdalloc"
              /\ Cardinality(Unused(p)) >= 2
              /\ ofile' = [ofile EXCEPT ![p] = WithFds(p, call[p].new)]
              /\ call' = [call EXCEPT ![p].new = <<>>]
              /\ Goto(p, "user")
              /\ UNCHANGED <<ftable, pipe, plock, flags>>

\* sys_pipe: there are no two descriptors, and both files are closed.
PipeNoFds(p) == /\ pc[p] = "fdalloc"
                /\ Cardinality(Unused(p)) < 2
                /\ call' = [call EXCEPT ![p].todo = call[p].new, ![p].new = <<>>]
                /\ Goto(p, "close")
                /\ UNCHANGED <<filevars, pipe, plock, flags>>

(***************************************************************************)
(* dup(), fork(), close(), exit(), kill().                                 *)
(***************************************************************************)
SysDup(p) == \E d \in Fd : /\ InUser(p)
                           /\ ofile[p][d] # None
                           /\ DupFile(p, ofile[p][d])
                           /\ UNCHANGED <<pipe, plock, pc, call, flags>>
                           /\ Quiet

Fork(p) == \E c \in Proc : /\ InUser(p)
                           /\ pc[c] = "unused"
                           /\ ForkFiles(p, c)
                           /\ Goto(c, "user")
                           /\ UNCHANGED <<pipe, plock, call, flags>>

\* The descriptor is free at once, the file is closed next.
CloseFd(p, d) == /\ ofile[p][d] # None
                 /\ ofile' = [ofile EXCEPT ![p][d] = None]
                 /\ call' = [call EXCEPT ![p].todo = <<ofile[p][d]>>]
                 /\ Goto(p, "close")
                 /\ UNCHANGED <<ftable, pipe, plock>>

SysClose(p) == \E d \in Fd : InUser(p) /\ CloseFd(p, d) /\ UNCHANGED flags

\* exit(), called or forced by a kill: the descriptors one after the other.  exit
\* clears a descriptor after fileclose; as only its own process looks at it,
\* the model may clear it before, as close does.
ExitClose(p) == \E d \in Fd : /\ pc[p] = "user"
                              /\ \A e \in Fd : e < d => ofile[p][e] = None
                              /\ CloseFd(p, d)
                              /\ exiting' = exiting \cup ({p} \ killed)
                              /\ UNCHANGED <<killed, unsaid>>

ExitDone(p) == /\ pc[p] = "user"
               /\ Unused(p) = Fd
               /\ Goto(p, "unused")
               /\ exiting' = exiting \ {p}
               /\ killed' = killed \ {p}
               /\ UNCHANGED <<filevars, pipe, plock, call, unsaid>>

\* fileclose(f): the last reference to an end of a pipe closes that end, from
\* a copy of the structure and after ftable.lock is released.
Fileclose(p) == LET f == Head(call[p].todo) IN
    /\ pc[p] = "close"
    /\ DropFile(f)
    /\ IF ftable[f].ref = 1 /\ ftable[f].type = "PIPE"
       THEN /\ call' = [call EXCEPT ![p].todo = Tail(@),
                                    ![p].closing = EndOf(ftable[f].writable)]
            /\ Goto(p, "pipeclose")
       ELSE /\ call' = [call EXCEPT ![p].todo = Tail(@)]
            /\ Goto(p, CloseOr(Tail(call[p].todo)))
    /\ UNCHANGED <<ofile, pipe, plock, flags>>

\* Mutant of Pipeclose: each end wakes the sleepers of its own.
PipecloseSwapped(p) ==
    LET write == call[p].closing = "write" IN
    /\ pc[p] = "pipeclose"
    /\ plock = None
    /\ writeopen' = (writeopen /\ ~write)
    /\ readopen' = (readopen /\ write)
    /\ page' = (writeopen' \/ readopen')
    /\ call' = [call EXCEPT ![p].closing = "none"]
    /\ IF write THEN GotoWaking(p, CloseOr(call[p].todo), "writeasleep", "write")
       ELSE GotoWaking(p, CloseOr(call[p].todo), "readasleep", "read")
    /\ IF page' THEN UNCHANGED <<data, nread, nwrite>>
       ELSE data' = Junk /\ nread' = 0 /\ nwrite' = 0
    /\ UNCHANGED <<filevars, plock, flags>>

\* pipeclose(): mark the end closed, wake the other end; free the page when
\* both ends are closed.
Pipeclose(p) ==
    LET write == call[p].closing = "write" IN
    /\ pc[p] = "pipeclose"
    /\ plock = None
    /\ writeopen' = (writeopen /\ ~write)
    /\ readopen' = (readopen /\ write)
    /\ page' = (writeopen' \/ readopen')
    /\ call' = [call EXCEPT ![p].closing = "none"]
    /\ IF write THEN GotoWaking(p, CloseOr(call[p].todo), "readasleep", "read")
       ELSE GotoWaking(p, CloseOr(call[p].todo), "writeasleep", "write")
    /\ IF page' THEN UNCHANGED <<data, nread, nwrite>>
       ELSE data' = Junk /\ nread' = 0 /\ nwrite' = 0
    /\ UNCHANGED <<filevars, plock, flags>>

\* kill(): marks the process and makes it runnable if it is asleep.  Only read
\* and write look at the mark; anywhere else a killed process finishes its call
\* and exits, as if it called exit.
Kill(p) == /\ p \notin killed
           /\ Cardinality(killed) < MaxKilled
           /\ pc[p] \in ReadLabels \cup WriteLabels
           /\ killed' = killed \cup {p}
           /\ pc' = [pc EXCEPT ![p] = CASE @ = "readasleep" -> "read"
                                        [] @ = "writeasleep" -> "write"
                                        [] OTHER -> @]
           /\ Quiet
           /\ UNCHANGED <<filevars, pipe, plock, call, exiting, unsaid>>

(***************************************************************************)
(* read() and write() on a pipe.                                           *)
(***************************************************************************)
CallWith(p, n, l) == /\ call' = [call EXCEPT ![p].count = n]
                     /\ Goto(p, l)
                     /\ UNCHANGED <<filevars, pipe, plock, flags>>

SysRead(p) == \E n \in 0 .. MaxCount : /\ InUser(p)
                                       /\ p \in Holders(FALSE)
                                       /\ CallWith(p, n, "read")

SysWrite(p) == \E n \in 0 .. MaxCount : /\ InUser(p)
                                        /\ p \in Holders(TRUE)
                                        /\ CallWith(p, n, "write")

\* piperead's while: nothing to read, somebody may write, and no kill yet.
PipereadWait(p) == /\ pc[p] = "read"
                   /\ plock = None
                   /\ nread = nwrite /\ writeopen
                   /\ p \notin killed
                   /\ plock' = p
                   /\ Goto(p, "readsleep")
                   /\ UNCHANGED <<filevars, pipe, call, flags>>

PipereadKilled(p) == /\ pc[p] = "read"
                     /\ plock = None
                     /\ nread = nwrite /\ writeopen
                     /\ p \in killed
                     /\ CallWith(p, 0, "user")

\* sleep(&p->nread, &p->lock) releases the lock.
PipereadSleep(p) == /\ pc[p] = "readsleep"
                    /\ plock' = None
                    /\ Goto(p, "readasleep")
                    /\ UNCHANGED <<filevars, pipe, call, flags>>

\* A byte that was read counts as junk: it is not to be read again.
Emptied(k) == [i \in 0 .. PIPESIZE - 1 |->
                  IF (i - nread) % PIPESIZE < k THEN None ELSE data[i]]

\* Copy what there is, up to n bytes, and wake the writers; at the end of the
\* file that is nothing.
PipereadCopy(p) == LET k == Min({call[p].count, Used}) IN
    /\ pc[p] = "read"
    /\ plock = None
    /\ nread # nwrite \/ ~writeopen
    /\ out' = [i \in 1 .. k |-> data[(nread + i - 1) % PIPESIZE]]
    /\ data' = Emptied(k)
    /\ nread' = (nread + k) % Width
    /\ call' = [call EXCEPT ![p].count = 0]
    /\ pc' = Waking(p, "user", "writeasleep", "write")
    /\ UNCHANGED <<filevars, nwrite, readopen, writeopen, plock, page, flags>>

\* Mutant of Fill: the counters, not their remainders, index the buffer.
FillLinear(p, k) == \E s \in [1 .. k -> Data] :
    /\ data' = [i \in 0 .. PIPESIZE - 1 |->
                   IF i + 1 - nwrite \in 1 .. k THEN s[i + 1 - nwrite] ELSE data[i]]
    /\ nwrite' = (nwrite + k) % Width

\* The writer's next k bytes, whatever they are, go into the buffer.
Fill(p, k) == \E s \in [1 .. k -> Data] :
    /\ data' = [i \in 0 .. PIPESIZE - 1 |->
                   LET js == {j \in 1 .. k : (nwrite + j - 1) % PIPESIZE = i} IN
                   IF js = {} THEN data[i] ELSE s[Max(js)]]
    /\ nwrite' = (nwrite + k) % Width

Room == PIPESIZE - Used

\* What is left of the bytes fits: write it, wake the readers, return.
PipewriteDone(p) == LET n == call[p].count IN
    /\ pc[p] = "write"
    /\ plock = None
    /\ n <= Room
    /\ Fill(p, n)
    /\ call' = [call EXCEPT ![p].count = 0]
    /\ GotoWaking(p, "user", "readasleep", "read")
    /\ unsaid' = FALSE
    /\ UNCHANGED <<filevars, nread, readopen, writeopen, page, plock, exiting, killed>>

\* The pipe fills up, and nobody can read it or the writer is killed: -1,
\* without a wakeup of the readers.
PipewriteError(p) == /\ pc[p] = "write"
                     /\ plock = None
                     /\ call[p].count > Room
                     /\ ~readopen \/ p \in killed
                     /\ Fill(p, Room)
                     /\ call' = [call EXCEPT ![p].count = 0]
                     /\ Goto(p, "user")
                     /\ unsaid' = TRUE
                     /\ UNCHANGED <<filevars, nread, readopen, writeopen, page, plock,
                                    exiting, killed>>

\* Mutant of PipewriteWait: as if the pipe had been empty.
PipewriteWaitWhole(p) == /\ pc[p] = "write"
                         /\ plock = None
                         /\ call[p].count > Room
                         /\ readopen /\ p \notin killed
                         /\ Fill(p, Room)
                         /\ call' = [call EXCEPT ![p].count = @ - PIPESIZE]
                         /\ GotoWaking(p, "writesleep", "readasleep", "read")
                         /\ plock' = p
                         /\ unsaid' = FALSE
                         /\ UNCHANGED <<filevars, nread, readopen, writeopen, page,
                                        exiting, killed>>

\* The pipe fills up: wake the readers and go to sleep.
PipewriteWait(p) == /\ pc[p] = "write"
                    /\ plock = None
                    /\ call[p].count > Room
                    /\ readopen /\ p \notin killed
                    /\ Fill(p, Room)
                    /\ call' = [call EXCEPT ![p].count = @ - Room]
                    /\ GotoWaking(p, "writesleep", "readasleep", "read")
                    /\ plock' = p
                    /\ unsaid' = FALSE
                    /\ UNCHANGED <<filevars, nread, readopen, writeopen, page,
                                   exiting, killed>>

\* sleep(&p->nwrite, &p->lock) releases the lock.
PipewriteSleep(p) == /\ pc[p] = "writesleep"
                     /\ plock' = None
                     /\ Goto(p, "writeasleep")
                     /\ UNCHANGED <<filevars, pipe, call, flags>>

\* What a process in the kernel does next.
KernelStep(p) == \/ PipeFile(p) \/ PipeBad(p) \/ PipeMake(p) \/ PipeFds(p) \/ PipeNoFds(p)
                 \/ Fileclose(p) \/ Pipeclose(p)
                 \/ PipereadWait(p) \/ PipereadKilled(p) \/ PipereadSleep(p)
                 \/ PipereadCopy(p)
                 \/ PipewriteDone(p) \/ PipewriteError(p)
                 \/ PipewriteWait(p) \/ PipewriteSleep(p)

\* What a program may ask for.
UserStep(p) == \/ SysPipe(p) \/ SysDup(p) \/ Fork(p) \/ SysClose(p)
               \/ SysRead(p) \/ SysWrite(p)

Exit(p) == ExitClose(p) \/ ExitDone(p)

Next == \E p \in Proc : KernelStep(p) \/ UserStep(p) \/ Exit(p) \/ Kill(p)

Spec == Init /\ [][Next]_vars

\* Every process that is in the kernel gets on, spinning for p->lock included,
\* and one that is killed or has called exit exits.
Fairness == \A p \in Proc : /\ SF_vars(KernelStep(p))
                            /\ WF_vars(p \in killed \cup exiting /\ Exit(p))

FairSpec == Spec /\ Fairness

(***************************************************************************)
(* Properties.                                                             *)
(***************************************************************************)
\* The count of a file is the number of descriptors for it plus the calls
\* that are about to give or to take one; an end of the pipe is open while a
\* file for it is, or its pipeclose is on the way (file.c:59-77,
\* pipe.c:59-75): the page is never freed under a reader or a writer.
EndsCounted ==
    /\ \A f \in Slot : ftable[f].ref =
           Cardinality(Descriptors(f))
           + Cardinality({p \in Proc : \E i \in DOMAIN call[p].new : call[p].new[i] = f})
           + Cardinality({p \in Proc : \E i \in DOMAIN call[p].todo : call[p].todo[i] = f})
    /\ \A w \in BOOLEAN :
           (IF w THEN writeopen ELSE readopen) =
           \/ \E f \in Slot : ftable[f].type = "PIPE" /\ ftable[f].writable = w
           \/ \E p \in Proc : call[p].closing = EndOf(w)
    /\ page = (readopen \/ writeopen)

\* A reader sleeps only while the pipe is empty and somebody may write, or a
\* writer that was killed has left its bytes without a wakeup; a writer sleeps
\* only while the pipe is full and somebody may read (pipe.c:85-95, 106-118).
SleeperHasReason ==
    \A p \in Proc :
       /\ pc[p] \in {"readsleep", "readasleep"} => writeopen /\ (nread = nwrite \/ unsaid)
       /\ pc[p] \in {"writesleep", "writeasleep"} => readopen /\ Used = PIPESIZE

\* The bytes in the pipe, oldest first.
Bytes == [i \in 1 .. Used |-> data[(nread + i - 1) % PIPESIZE]]

Queue == INSTANCE Fifo WITH Capacity <- PIPESIZE,
                            chan <- IF page THEN Bytes ELSE <<>>,
                            users <- Holders(TRUE) \cup Holders(FALSE)

\* The pipe is a bounded queue of bytes: none is lost, added or reordered as
\* long as a process has a descriptor for it, across the wrap-around of the
\* buffer and of the counters.
ImplementsFifo == Queue!Spec

\* A reader that sleeps comes out when the last descriptor for the write end
\* is closed, by close, by exit or by a kill; a writer likewise (pipe.c:62-69).
OtherEndGone ==
    \A p \in Proc : /\ (pc[p] = "readasleep" /\ Holders(TRUE) = {}) ~> pc[p] # "readasleep"
                    /\ (pc[p] = "writeasleep" /\ Holders(FALSE) = {}) ~> pc[p] # "writeasleep"

\* "Wake process from sleep if necessary" (proc.c:488): a killed process comes
\* out of the pipe and exits.
KilledComesOut == \A p \in Proc : p \in killed ~> pc[p] = "unused"
=============================================================================
