----------------------------- MODULE BcacheProofs -----------------------------
(***************************************************************************)
(* Theorems about the buffer cache, its sleep locks and the IDE queue of   *)
(* LAB4/bio.c, sleeplock.c and ide.c, for any finite set of processes and  *)
(* any number of buffers: IInv is inductive, a buffer stays as long as it  *)
(* is referred to, a sleeper has somebody to wake it, and the cache is the *)
(* store of blocks that its callers are promised.                          *)
(***************************************************************************)
EXTENDS Bcache, TLAPS, FiniteSetTheorems, SequenceTheorems

\* The statements between acquiresleep and releasesleep.
Holding == {"bread", "held", "iderw", "iosleep", "iowake"}
\* The statements of a request to the disk, and a request that is not done: its
\* process is asleep, or has been woken too early.
Asking == {"iderw", "iosleep", "iowake"}
Queued(p) == pc[p] \in {"iosleep", "iowake"} /\ buf[cur[p]].flags # {"VALID"}

Count(b) == Cardinality({p \in Proc : cur[p] = b})

(***************************************************************************)
(* The inductive invariant, part by part.                                  *)
(***************************************************************************)
\* No buffer is lost from the list.
ListComplete == \A b \in Buf : \E i \in 1 .. NBUF : mru[i] = b

\* What a process knows of its buffer, by the statement it is at.
Located == \A p \in Proc :
  /\ want[p] = None <=> pc[p] = "idle"
  /\ cur[p] = None <=> pc[p] \in {"idle", "bget"}
  /\ cur[p] # None => buf[cur[p]].block = want[p]

OneCopy == \A a, b \in Buf :
  buf[a].block = buf[b].block /\ buf[a].block # None => a = b

CountsKept == \A b \in Buf : buf[b].refcnt = Count(b)

LockHeld == \A b \in Buf, p \in Proc : lk[b] = p <=> cur[p] = b /\ pc[p] \in Holding

LockAwaited == \A p \in Proc : pc[p] = "locksleep" => lk[cur[p]] # None

\* The flags, and what the holder of a buffer knows of them.
FlagsKnown ==
  /\ \A b \in Buf : /\ "DIRTY" \in buf[b].flags => "VALID" \in buf[b].flags
                    /\ buf[b].flags # {} => buf[b].block # None
  /\ \A p \in Proc : /\ pc[p] = "held" => "VALID" \in buf[cur[p]].flags
                     /\ pc[p] \in {"iderw", "iosleep"} => buf[cur[p]].flags # {"VALID"}

\* A block of the log is in the cache, modified; any other modified buffer is on
\* its way to the disk.
PinsKept ==
  /\ \A k \in pinned : \E b \in Buf : buf[b].block = k /\ "DIRTY" \in buf[b].flags
  /\ \A b \in Buf : "DIRTY" \in buf[b].flags /\ buf[b].block \notin pinned
       => \E p \in Proc : cur[p] = b /\ pc[p] \in Asking
  /\ \A p \in Proc : pc[p] \in Asking => want[p] \notin pinned

\* The queue has the buffers of the requests that are not done, each once.
QueueKept ==
  /\ \A i, j \in DOMAIN idequeue : idequeue[i] = idequeue[j] => i = j
  /\ \A i \in DOMAIN idequeue : \E p \in Proc : cur[p] = idequeue[i] /\ Queued(p)
  /\ \A p \in Proc : Queued(p) => \E i \in DOMAIN idequeue : idequeue[i] = cur[p]

CommandKept ==
  /\ IF idequeue = <<>> THEN ctl = None ELSE ctl = Command(Head(idequeue))
  /\ irq => ctl # None

\* The disk has what a clean buffer has, and what the controller has written.
DiskKept ==
  /\ \A b \in Buf : buf[b].flags = {"VALID"} => buf[b].data = disk[buf[b].block]
  /\ irq /\ ctl.data # None => disk[ctl.block] = ctl.data

\* bget panics only when every buffer is in use or noted by the log.
PanicJustified == panicked =>
  Cardinality({want[p] : p \in {q \in Proc : Refers(q)}} \cup pinned) = NBUF

IInv == /\ TypeOK       /\ ListComplete /\ Located   /\ OneCopy
        /\ CountsKept   /\ LockHeld     /\ LockAwaited /\ FlagsKnown
        /\ PinsKept     /\ QueueKept    /\ CommandKept /\ DiskKept
        /\ PanicJustified

One(b) == IF b THEN 1 ELSE 0

-----------------------------------------------------------------------------
\* A set of processes counts the same, one more or one less when one process moves.
LEMMA OneMoves ==
  ASSUME NEW S \in SUBSET Proc, NEW T \in SUBSET Proc, NEW p,
         \A q \in Proc : q # p => (q \in S <=> q \in T)
  PROVE  /\ Cardinality(S) \in Nat
         /\ Cardinality(T) \in Nat
         /\ Cardinality(T) + One(p \in S) = Cardinality(S) + One(p \in T)
<1>1. (p \in T => T = S \cup {p}) /\ (p \notin T => T = S \ {p})
  OBVIOUS
<1>2. IsFiniteSet(S) /\ IsFiniteSet(T)
  BY BcacheAssumption, FS_Subset
<1>3. Cardinality(S \cup {p}) = IF p \in S THEN Cardinality(S) ELSE Cardinality(S) + 1
  BY <1>2, FS_AddElement
<1>4. Cardinality(S \ {p}) = IF p \in S THEN Cardinality(S) - 1 ELSE Cardinality(S)
  BY <1>2, FS_RemoveElement
<1>5. Cardinality(S) \in Nat /\ Cardinality(T) \in Nat
  BY <1>2, FS_CardinalityType
<1>6. CASE p \in T
  <2>1. Cardinality(T) = Cardinality(S \cup {p})
    BY <1>1, <1>6
  <2> QED
    BY <1>3, <1>5, <1>6, <2>1 DEF One
<1>7. CASE p \notin T
  <2>1. Cardinality(T) = Cardinality(S \ {p})
    BY <1>1, <1>7
  <2> QED
    BY <1>4, <1>5, <1>7, <2>1 DEF One
<1> QED
  BY <1>6, <1>7

\* The counts of references when p gets the buffer x, or gives up its own.
Moved(p, x) == \A b \in Buf : /\ Count(b) \in Nat
                              /\ Count(b)' \in Nat
                              /\ Count(b)' + One(cur[p] = b) = Count(b) + One(x = b)

LEMMA CountMoves ==
  ASSUME TypeOK, NEW p \in Proc, NEW x \in Buf \cup {None}, cur' = [cur EXCEPT ![p] = x]
  PROVE  Moved(p, x)
<1> SUFFICES ASSUME NEW b \in Buf
             PROVE  /\ Count(b) \in Nat
                    /\ Count(b)' \in Nat
                    /\ Count(b)' + One(cur[p] = b) = Count(b) + One(x = b)
  BY DEF Moved
<1> DEFINE S == {q \in Proc : cur[q] = b}
           T == {q \in Proc : cur'[q] = b}
<1>1. /\ S \in SUBSET Proc /\ T \in SUBSET Proc
      /\ \A q \in Proc : q # p => (q \in S <=> q \in T)
  BY DEF TypeOK
<1>2. (p \in S <=> cur[p] = b) /\ (p \in T <=> x = b)
  BY DEF TypeOK
<1>3. Count(b) = Cardinality(S) /\ Count(b)' = Cardinality(T)
  BY DEF Count
<1> HIDE DEF S, T
<1>4. /\ Cardinality(S) \in Nat /\ Cardinality(T) \in Nat
      /\ Cardinality(T) + One(p \in S) = Cardinality(S) + One(p \in T)
  BY <1>1, OneMoves
<1> QED
  BY <1>2, <1>3, <1>4 DEF One

LEMMA CountStays == UNCHANGED cur => \A b \in Buf : Count(b)' = Count(b)
BY DEF Count

\* A count of 0 means that nobody refers to the buffer.
LEMMA CountZero ==
  ASSUME NEW b \in Buf
  PROVE  /\ Count(b) \in Nat
         /\ Count(b) = 0 => \A p \in Proc : cur[p] # b
         /\ (\E p \in Proc : cur[p] = b) => Count(b) > 0
<1>1. IsFiniteSet({p \in Proc : cur[p] = b})
  BY BcacheAssumption, FS_Subset
<1>2. Count(b) \in Nat
  BY <1>1, FS_CardinalityType DEF Count
<1>3. Count(b) = 0 <=> {p \in Proc : cur[p] = b} = {}
  BY <1>1, FS_EmptySet DEF Count
<1> QED
  BY <1>2, <1>3

LEMMA RefersIfCounted ==
  ASSUME NEW b \in Buf, Count(b) # 0
  PROVE  \E p \in Proc : cur[p] = b
<1>1. {p \in Proc : cur[p] = b} # {}
  BY FS_EmptySet DEF Count
<1> QED
  BY <1>1

\* binit() and the fresh disk (LAB4/bio.c:38-56).
LEMMA InitIInv == Init => IInv
<1> SUFFICES ASSUME Init PROVE IInv
  OBVIOUS
<1> USE BcacheAssumption DEF Init
<1>1. TypeOK
  <2>1. buf \in [Buf -> [block : Block \cup {None}, flags : Flags, refcnt : Nat, data : Data]]
    BY DEF Flags
  <2>2. mru \in [1 .. NBUF -> Buf]
    BY DEF Buf
  <2>3. irq \in BOOLEAN /\ panicked \in BOOLEAN
    BY Zenon
  <2>4. idequeue \in Seq(Buf)
    BY EmptySeq
  <2> QED
    BY <2>1, <2>2, <2>3, <2>4 DEF TypeOK, Labels
<1>2. ListComplete
  <2> SUFFICES ASSUME NEW b \in Buf PROVE \E i \in 1 .. NBUF : mru[i] = b
    BY DEF ListComplete
  <2>1. NBUF + 1 - b \in 1 .. NBUF /\ mru[NBUF + 1 - b] = b
    BY DEF Buf
  <2> QED
    BY <2>1
<1>3. CountsKept
  <2> SUFFICES ASSUME NEW b \in Buf PROVE Count(b) = 0
    BY DEF CountsKept
  <2>1. \A p \in Proc : cur[p] # b
    OBVIOUS
  <2> QED
    BY <2>1, FS_EmptySet DEF Count
<1>4. Located /\ OneCopy /\ LockHeld /\ LockAwaited /\ FlagsKnown
  BY DEF Located, OneCopy, LockHeld, LockAwaited, FlagsKnown, Asking, Holding
<1>5. PinsKept /\ CommandKept /\ DiskKept
  BY DEF PinsKept, CommandKept, DiskKept, Asking
<1>6. QueueKept
  BY DEF QueueKept, Queued
<1>7. PanicJustified
  BY DEF PanicJustified
<1> QED
  BY <1>1, <1>2, <1>3, <1>4, <1>5, <1>6, <1>7 DEF IInv

BufType == [Buf -> [block : Block \cup {None}, flags : Flags, refcnt : Nat, data : Data]]

\* A statement of p moves p from one label to another.
Steps(p, from, to) == /\ ~panicked /\ ~panicked'
                      /\ pc[p] = from
                      /\ pc' = [pc EXCEPT ![p] = to]

\* Buffer a keeps its contents.
Same(a) == /\ buf'[a].block = buf[a].block
           /\ buf'[a].flags = buf[a].flags
           /\ buf'[a].data = buf[a].data

\* Assignments to the fields of a buffer.
LEMMA RefcntSet ==
  ASSUME buf \in BufType, NEW b \in Buf, NEW r \in Nat, buf' = [buf EXCEPT ![b].refcnt = r]
  PROVE  /\ buf' \in BufType
         /\ buf'[b].refcnt = r
         /\ \A a \in Buf : Same(a) /\ (a # b => buf'[a] = buf[a])
BY DEF BufType, Same

LEMMA Recycled ==
  ASSUME buf \in BufType, NEW b \in Buf, NEW k \in Block,
         buf' = [buf EXCEPT ![b].block = k, ![b].flags = {}, ![b].refcnt = 1]
  PROVE  /\ buf' \in BufType
         /\ buf'[b].block = k /\ buf'[b].flags = {} /\ buf'[b].refcnt = 1
         /\ \A a \in Buf : a # b => buf'[a] = buf[a]
BY DEF BufType, Flags

LEMMA Modified ==
  ASSUME buf \in BufType, NEW b \in Buf, NEW d \in Data,
         buf' = [buf EXCEPT ![b].data = d, ![b].flags = @ \cup {"DIRTY"}]
  PROVE  /\ buf' \in BufType
         /\ buf'[b].block = buf[b].block
         /\ buf'[b].flags = buf[b].flags \cup {"DIRTY"}
         /\ buf'[b].refcnt = buf[b].refcnt
         /\ buf'[b].data = d
         /\ \A a \in Buf : a # b => buf'[a] = buf[a]
BY DEF BufType, Flags

LEMMA DoneIn ==
  ASSUME buf \in BufType, NEW b \in Buf, NEW d \in Data,
         buf' = [buf EXCEPT ![b].flags = {"VALID"}, ![b].data = d]
  PROVE  /\ buf' \in BufType
         /\ buf'[b].block = buf[b].block
         /\ buf'[b].flags = {"VALID"}
         /\ buf'[b].refcnt = buf[b].refcnt
         /\ buf'[b].data = d
         /\ \A a \in Buf : a # b => buf'[a] = buf[a]
BY DEF BufType, Flags

\* The list is complete again when a buffer has been moved to its head.
LEMMA ToHeadKept ==
  ASSUME TypeOK, ListComplete, NEW b \in Buf, mru' = ToHead(b)
  PROVE  mru' \in [1 .. NBUF -> Buf] /\ ListComplete'
<1> DEFINE at == CHOOSE i \in 1 .. NBUF : mru[i] = b
<1>1. at \in 1 .. NBUF /\ mru[at] = b
  BY DEF ListComplete
<1> HIDE DEF at
<1>2. mru' = [i \in 1 .. NBUF |-> IF i = 1 THEN b ELSE IF i <= at THEN mru[i - 1] ELSE mru[i]]
  BY DEF ToHead, at
<1>3. mru' \in [1 .. NBUF -> Buf]
  <2>1. mru \in [1 .. NBUF -> Buf]
    BY DEF TypeOK
  <2> QED
    BY <1>1, <1>2, <2>1, BcacheAssumption
<1>4. ASSUME NEW c \in Buf PROVE \E i \in 1 .. NBUF : mru'[i] = c
  <2>1. CASE c = b
    BY <1>1, <1>2, <2>1, BcacheAssumption
  <2>2. CASE c # b
    <3>1. PICK j \in 1 .. NBUF : mru[j] = c
      BY DEF ListComplete
    <3>2. CASE j < at
      <4>1. j + 1 \in 1 .. NBUF /\ mru'[j + 1] = c
        BY <1>1, <1>2, <3>1, <3>2, BcacheAssumption
      <4> QED
        BY <4>1
    <3>3. CASE j > at
      <4>1. mru'[j] = c
        BY <1>1, <1>2, <3>1, <3>3, BcacheAssumption
      <4> QED
        BY <4>1
    <3> QED
      BY <1>1, <2>2, <3>1, <3>2, <3>3, BcacheAssumption
  <2> QED
    BY <2>1, <2>2
<1> QED
  BY <1>3, <1>4 DEF ListComplete

\* Who shares a buffer, and who asked for the first request of the queue.
LEMMA Sharing ==
  ASSUME IInv
  PROVE  /\ \A p, q \in Proc : pc[p] \in Holding /\ pc[q] \in Holding /\ cur[p] = cur[q] => p = q
         /\ \A p, q \in Proc : cur[p] # None /\ cur[q] # None /\ want[p] = want[q]
               => cur[p] = cur[q]
         /\ idequeue # <<>> =>
               /\ Head(idequeue) = idequeue[1] /\ 1 \in DOMAIN idequeue
               /\ Head(idequeue) \in Buf
               /\ \E q \in Proc : cur[q] = Head(idequeue) /\ Queued(q)
<1>1. TypeOK /\ Located /\ OneCopy /\ LockHeld /\ QueueKept
  BY DEF IInv
<1>2. \A p, q \in Proc : pc[p] \in Holding /\ pc[q] \in Holding /\ cur[p] = cur[q] => p = q
  <2>1. \A p \in Proc : pc[p] \in Holding => cur[p] \in Buf
    BY <1>1 DEF TypeOK, Located, Holding
  <2> QED
    BY <1>1, <2>1 DEF LockHeld
<1>3. \A p, q \in Proc : cur[p] # None /\ cur[q] # None /\ want[p] = want[q] => cur[p] = cur[q]
  BY <1>1 DEF TypeOK, Located, OneCopy
<1>4. ASSUME idequeue # <<>>
      PROVE  /\ Head(idequeue) = idequeue[1] /\ 1 \in DOMAIN idequeue
             /\ Head(idequeue) \in Buf
             /\ \E q \in Proc : cur[q] = Head(idequeue) /\ Queued(q)
  <2>1. Head(idequeue) = idequeue[1] /\ 1 \in DOMAIN idequeue /\ Head(idequeue) \in Buf
    BY <1>1, <1>4 DEF TypeOK
  <2> QED
    BY <1>1, <2>1 DEF QueueKept, Queued
<1> QED
  BY <1>2, <1>3, <1>4

\* When bget finds no buffer, there are as many blocks in use as there are buffers.
LEMMA PanicCount ==
  ASSUME IInv, \A b \in Buf : ~Recyclable(b)
  PROVE  Cardinality({want[p] : p \in {q \in Proc : Refers(q)}} \cup pinned) = NBUF
<1>1. TypeOK /\ Located /\ OneCopy /\ CountsKept /\ FlagsKnown /\ PinsKept
  BY DEF IInv
<1> DEFINE f == [b \in Buf |-> buf[b].block]
           S == {want[p] : p \in {q \in Proc : Refers(q)}} \cup pinned
<1>2. ASSUME NEW b \in Buf PROVE f[b] \in S
  <2>1. CASE "DIRTY" \in buf[b].flags
    BY <1>1, <2>1 DEF PinsKept, Located, Refers, Asking
  <2>2. CASE buf[b].refcnt # 0
    <3>1. PICK p \in Proc : cur[p] = b
      BY <1>1, <2>2, RefersIfCounted DEF CountsKept
    <3> QED
      BY <1>1, <3>1, BcacheAssumption DEF Located, Refers
  <2> QED
    BY <2>1, <2>2 DEF Recyclable
<1>3. \A b \in Buf : f[b] # None
  <2>1. None \notin S
    BY <1>1, BcacheAssumption DEF TypeOK, Located, Refers
  <2> QED
    BY <1>2, <2>1
<1>4. f \in Injection(Buf, S)
  BY <1>1, <1>2, <1>3 DEF Injection, IsInjective, OneCopy
<1>5. \A k \in S : \E b \in Buf : f[b] = k
  BY <1>1 DEF PinsKept, Located, Refers, TypeOK
<1>6. f \in Bijection(Buf, S)
  BY <1>4, <1>5 DEF Bijection, Injection, Surjection
<1>7. ExistsBijection(1 .. NBUF, S)
  BY <1>6 DEF ExistsBijection, Buf
<1> QED
  BY <1>7, FS_CountingElements, BcacheAssumption


\* As long as no request is made or done, the queue stays as it should be.
LEMMA QueueStays ==
  ASSUME QueueKept, idequeue' = idequeue,
         \A q \in Proc : (Queued(q)' <=> Queued(q)) /\ (Queued(q) => cur'[q] = cur[q])
  PROVE  QueueKept'
<1>1. \A i \in DOMAIN idequeue' : \E p \in Proc : cur'[p] = idequeue'[i] /\ Queued(p)'
  BY DEF QueueKept
<1>2. \A p \in Proc : Queued(p)' => \E i \in DOMAIN idequeue' : idequeue'[i] = cur'[p]
  BY DEF QueueKept
<1>3. \A i, j \in DOMAIN idequeue' : idequeue'[i] = idequeue'[j] => i = j
  BY DEF QueueKept
<1> QED
  BY <1>1, <1>2, <1>3 DEF QueueKept

-----------------------------------------------------------------------------
LEMMA NextIInv == IInv /\ [Next]_vars => IInv'
<1> SUFFICES ASSUME IInv, [Next]_vars PROVE IInv'
  OBVIOUS
<1>1. /\ TypeOK /\ ListComplete /\ Located /\ OneCopy /\ CountsKept /\ LockHeld
      /\ LockAwaited /\ FlagsKnown /\ PinsKept /\ QueueKept /\ CommandKept /\ DiskKept
      /\ PanicJustified
  BY DEF IInv
<1>2. /\ buf \in BufType /\ lk \in [Buf -> Proc \cup {None}]
      /\ pc \in [Proc -> Labels] /\ want \in [Proc -> Block \cup {None}]
      /\ cur \in [Proc -> Buf \cup {None}]
  BY <1>1 DEF TypeOK, BufType
<1>3. irq' \in BOOLEAN /\ panicked' \in BOOLEAN
  BY <1>1, ZenonT(60)
     DEF TypeOK, vars, cachevars, idevars, procvars, Next, ProcStep, CallBread, BgetHit, BgetMiss, BgetPanic,
         AcquireSleep, AcquireSleepWait, BreadTest, LogWrite, Bwrite, Brelse, Unref, Iderw, IderwRetest,
         Kill, Controller, Ideintr
<1>4. \A p, q \in Proc : pc[p] \in Holding /\ pc[q] \in Holding /\ cur[p] = cur[q] => p = q
  BY Sharing
<1>5. \A p, q \in Proc : cur[p] # None /\ cur[q] # None /\ want[p] = want[q]
        => cur[p] = cur[q]
  BY Sharing
<1>6. idequeue # <<>> =>
        /\ Head(idequeue) = idequeue[1] /\ 1 \in DOMAIN idequeue
        /\ Head(idequeue) \in Buf
        /\ \E q \in Proc : cur[q] = Head(idequeue) /\ Queued(q)
  BY Sharing
<1>7. UNCHANGED cur => \A b \in Buf : Count(b)' = Count(b)
  BY CountStays
<1>8. None \notin Buf /\ None \notin Block /\ None \notin Proc /\ None \notin Data
  BY BcacheAssumption
<1>9. ASSUME NEW p \in Proc, CallBread(p) PROVE IInv'
  <2>1. PICK k \in Block : want' = [want EXCEPT ![p] = k]
    BY <1>9 DEF CallBread
  <2>2. /\ Steps(p, "idle", "bget")
        /\ UNCHANGED <<buf, mru, lk, pinned, idequeue, ctl, irq, disk, cur>>
    BY <1>9 DEF CallBread, At, Goto, Steps, cachevars, idevars
  <2>3. TypeOK'
    BY <1>1, <1>2, <1>8, <1>3, <2>1, <2>2 DEF TypeOK, BufType, Steps, Labels
  <2>4. ListComplete'
    BY <1>1, <1>2, <1>8, <2>1, <2>2 DEF ListComplete, Steps
  <2>5. Located'
    BY <1>1, <1>2, <1>8, <2>1, <2>2 DEF Located, Steps
  <2>6. OneCopy'
    BY <1>1, <1>2, <1>8, <2>1, <2>2 DEF OneCopy, Steps
  <2>7. CountsKept'
    BY <1>1, <1>7, <2>1, <2>2 DEF CountsKept, Steps
  <2>8. LockHeld'
    BY <1>1, <1>2, <1>8, <2>1, <2>2 DEF LockHeld, Located, Holding, Steps
  <2>9. LockAwaited'
    BY <1>1, <1>2, <1>8, <2>1, <2>2 DEF LockAwaited, LockHeld, Located, Holding, Steps
  <2>10. FlagsKnown'
    BY <1>1, <1>2, <1>8, <2>1, <2>2
       DEF FlagsKnown, LockHeld, Located, Holding, Asking, Steps
  <2>11. PinsKept'
    BY <1>1, <1>2, <1>8, <2>1, <2>2
       DEF PinsKept, LockHeld, Located, Holding, Asking, Steps
  <2>12. QueueKept'
    <3>1. \A q \in Proc : (Queued(q)' <=> Queued(q)) /\ (Queued(q) => cur'[q] = cur[q])
      BY <1>2, <2>2 DEF Queued, Steps
    <3> QED
      BY <1>1, <2>2, <3>1, QueueStays
  <2>13. CommandKept'
    BY <1>1, <1>2, <1>8, <2>1, <2>2 DEF CommandKept, Command, Steps
  <2>14. DiskKept'
    BY <1>1, <1>2, <1>8, <2>1, <2>2 DEF DiskKept, Steps
  <2>15. PanicJustified'
    BY <1>1, <1>2, <1>8, <2>1, <2>2 DEF PanicJustified, Steps
  <2> QED
    BY <2>3, <2>4, <2>5, <2>6, <2>7, <2>8, <2>9, <2>10, <2>11, <2>12, <2>13, <2>14,
       <2>15
       DEF IInv
<1>10. ASSUME NEW p \in Proc, BgetHit(p) PROVE IInv'
  <2>1. PICK b \in Hits(want[p]) : /\ buf' = [buf EXCEPT ![b].refcnt = @ + 1]
                                   /\ cur' = [cur EXCEPT ![p] = b]
    BY <1>10, Zenon DEF BgetHit
  <2>2. /\ Steps(p, "bget", "lock")
        /\ UNCHANGED <<mru, lk, pinned, idequeue, ctl, irq, disk, want>>
    BY <1>10 DEF BgetHit, At, Goto, Steps, idevars
  <2>3. b \in Buf /\ buf[b].block = want[p] /\ cur[p] = None
    BY <1>1, <2>1, <2>2 DEF Hits, Steps, Located
  <2>4. buf[b].refcnt + 1 \in Nat /\ cur' = [cur EXCEPT ![p] = b] /\ b \in Buf \cup {None}
    BY <1>2, <2>1, <2>3 DEF BufType
  <2>5. buf' = [buf EXCEPT ![b].refcnt = buf[b].refcnt + 1]
    BY <2>1
  <2>6. /\ buf' \in BufType
        /\ buf'[b].refcnt = buf[b].refcnt + 1
        /\ \A a \in Buf : Same(a) /\ (a # b => buf'[a] = buf[a])
    BY <1>2, <2>3, <2>4, <2>5, RefcntSet
  <2>7. \A a \in Buf : /\ Count(a) \in Nat
                       /\ Count(a)' \in Nat
                       /\ Count(a)' + One(cur[p] = a) = Count(a) + One(b = a)
    <3>1. TypeOK /\ b \in Buf \cup {None} /\ cur' = [cur EXCEPT ![p] = b]
      BY <1>1, <2>4
    <3>2. Moved(p, b)
      BY <3>1, CountMoves
    <3> QED
      BY <3>2 DEF Moved
  <2>8. TypeOK'
    BY <1>1, <1>2, <1>8, <1>3, <2>1, <2>2, <2>3, <2>6 DEF TypeOK, BufType, Steps, Labels
  <2>9. ListComplete'
    BY <1>1, <1>2, <1>8, <2>1, <2>2, <2>3, <2>6 DEF ListComplete, Steps
  <2>10. Located'
    BY <1>1, <1>2, <1>8, <2>1, <2>2, <2>3, <2>6 DEF Located, Same, Steps
  <2>11. OneCopy'
    BY <1>1, <1>2, <1>8, <2>1, <2>2, <2>3, <2>6 DEF OneCopy, Same, Steps
  <2>12. CountsKept'
    BY <1>1, <1>8, <2>3, <2>6, <2>7 DEF CountsKept, One
  <2>13. LockHeld'
    BY <1>1, <1>2, <1>8, <2>1, <2>2, <2>3, <2>6 DEF LockHeld, Located, Holding, Steps
  <2>14. LockAwaited'
    BY <1>1, <1>2, <1>8, <2>1, <2>2, <2>3, <2>6
       DEF LockAwaited, LockHeld, Located, Holding, Steps
  <2>15. FlagsKnown'
    BY <1>1, <1>2, <1>8, <2>1, <2>2, <2>3, <2>6
       DEF FlagsKnown, LockHeld, Located, Holding, Asking, Same, Steps
  <2>16. PinsKept'
    BY <1>1, <1>2, <1>8, <2>1, <2>2, <2>3, <2>6
       DEF PinsKept, LockHeld, Located, Holding, Asking, Same, Steps
  <2>17. QueueKept'
    <3>1. \A q \in Proc : (Queued(q)' <=> Queued(q)) /\ (Queued(q) => cur'[q] = cur[q])
      BY <1>1, <1>2, <1>8, <2>2, <2>3, <2>4, <2>6 DEF Queued, Located, Same, Steps
    <3> QED
      BY <1>1, <2>2, <3>1, QueueStays
  <2>18. CommandKept'
    BY <1>1, <1>2, <1>8, <2>1, <2>2, <2>3, <2>6 DEF CommandKept, Command, Same, Steps
  <2>19. DiskKept'
    BY <1>1, <1>2, <1>8, <2>1, <2>2, <2>3, <2>6 DEF DiskKept, Same, Steps
  <2>20. PanicJustified'
    BY <1>1, <1>2, <1>8, <2>1, <2>2, <2>3, <2>6 DEF PanicJustified, Steps
  <2> QED
    BY <2>8, <2>9, <2>10, <2>11, <2>12, <2>13, <2>14, <2>15, <2>16, <2>17, <2>18,
       <2>19, <2>20
       DEF IInv
<1>11. ASSUME NEW p \in Proc, BgetMiss(p) PROVE IInv'
  <2>1. PICK i \in 1 .. NBUF :
           /\ Recyclable(mru[i])
           /\ buf' = [buf EXCEPT ![mru[i]].block = want[p], ![mru[i]].flags = {},
                                 ![mru[i]].refcnt = 1]
           /\ cur' = [cur EXCEPT ![p] = mru[i]]
    BY <1>11, Zenon DEF BgetMiss
  <2>2. /\ Steps(p, "bget", "lock")
        /\ UNCHANGED <<mru, lk, pinned, idequeue, ctl, irq, disk, want>>
        /\ Hits(want[p]) = {}
    BY <1>11 DEF BgetMiss, At, Goto, Steps, idevars
  <2>3. want[p] \in Block /\ cur[p] = None
    BY <1>1, <1>2, <2>2 DEF Located, Steps
  <2> DEFINE b == mru[i]
  <2>4. b \in Buf
    BY <1>1 DEF TypeOK
  <2>5. buf[b].refcnt = 0 /\ "DIRTY" \notin buf[b].flags
    BY <2>1 DEF Recyclable
  <2>6. buf' = [buf EXCEPT ![b].block = want[p], ![b].flags = {}, ![b].refcnt = 1]
    BY <2>1
  <2>7. cur' = [cur EXCEPT ![p] = b]
    BY <2>1
  <2> HIDE DEF b
  <2>8. /\ buf' \in BufType
        /\ buf'[b].block = want[p] /\ buf'[b].flags = {} /\ buf'[b].refcnt = 1
        /\ \A a \in Buf : a # b => buf'[a] = buf[a]
    BY <1>2, <2>3, <2>4, <2>6, Recycled
  <2>9. \A a \in Buf : /\ Count(a) \in Nat
                       /\ Count(a)' \in Nat
                       /\ Count(a)' + One(cur[p] = a) = Count(a) + One(b = a)
    <3>1. TypeOK /\ b \in Buf \cup {None} /\ cur' = [cur EXCEPT ![p] = b]
      BY <1>1, <2>4, <2>7
    <3>2. Moved(p, b)
      BY <3>1, CountMoves
    <3> QED
      BY <3>2 DEF Moved
  <2>10. Count(b) = 0 /\ \A q \in Proc : cur[q] # b
    BY <1>1, <2>4, <2>5, CountZero DEF CountsKept
  <2>11. \A a \in Buf : buf[a].block # want[p]
    BY <2>2 DEF Hits
  <2>12. TypeOK'
    BY <1>1, <1>2, <1>8, <1>3, <2>2, <2>3, <2>4, <2>7, <2>8, <2>10
       DEF TypeOK, BufType, Steps, Labels
  <2>13. ListComplete'
    BY <1>1, <1>2, <1>8, <2>2, <2>3, <2>4, <2>7, <2>8, <2>10 DEF ListComplete, Steps
  <2>14. Located'
    BY <1>1, <1>2, <1>8, <2>2, <2>3, <2>4, <2>7, <2>8, <2>10 DEF Located, Steps
  <2>15. OneCopy'
    BY <1>1, <2>4, <2>8, <2>11 DEF OneCopy
  <2>16. CountsKept'
    BY <1>1, <1>8, <2>3, <2>4, <2>8, <2>9, <2>10 DEF CountsKept, One
  <2>17. LockHeld'
    BY <1>1, <1>2, <1>8, <2>2, <2>3, <2>4, <2>7, <2>8, <2>10
       DEF LockHeld, Located, Holding, Steps
  <2>18. LockAwaited'
    BY <1>1, <1>2, <1>8, <2>2, <2>3, <2>4, <2>7, <2>8, <2>10
       DEF LockAwaited, LockHeld, Located, Holding, Steps
  <2>19. FlagsKnown'
    BY <1>1, <1>2, <1>8, <2>2, <2>3, <2>4, <2>7, <2>8, <2>10
       DEF FlagsKnown, LockHeld, Located, Holding, Asking, Steps
  <2>20. PinsKept'
    <3>1. \A q \in Proc : pc'[q] \in Asking <=> pc[q] \in Asking
      BY <1>2, <2>2 DEF Steps, Asking
    <3>2. \A q \in Proc : q # p => cur'[q] = cur[q]
      BY <1>2, <2>7
    <3>3. pc[p] \notin Asking
      BY <2>2 DEF Steps, Asking
    <3> QED
      BY <1>1, <2>2, <2>4, <2>5, <2>8, <3>1, <3>2, <3>3 DEF PinsKept
  <2>21. QueueKept'
    <3>1. \A q \in Proc : (Queued(q)' <=> Queued(q)) /\ (Queued(q) => cur'[q] = cur[q])
      BY <1>1, <1>2, <1>8, <2>2, <2>7, <2>8, <2>10 DEF Queued, Located, Steps
    <3> QED
      BY <1>1, <2>2, <3>1, QueueStays
  <2>22. CommandKept'
    BY <1>1, <1>6, <2>2, <2>4, <2>8, <2>10 DEF CommandKept, Command
  <2>23. DiskKept'
    BY <1>1, <1>2, <1>8, <2>2, <2>3, <2>4, <2>7, <2>8, <2>10 DEF DiskKept, Steps
  <2>24. PanicJustified'
    BY <1>1, <1>2, <1>8, <2>2, <2>3, <2>4, <2>7, <2>8, <2>10 DEF PanicJustified, Steps
  <2> QED
    BY <2>12, <2>13, <2>14, <2>15, <2>16, <2>17, <2>18, <2>19, <2>20, <2>21, <2>22,
       <2>23, <2>24
       DEF IInv
<1>12. ASSUME NEW p \in Proc, BgetPanic(p) PROVE IInv'
  <2>1. /\ UNCHANGED <<buf, mru, lk, pinned, idequeue, ctl, irq, disk, pc, want, cur>>
        /\ \A b \in Buf : ~Recyclable(b)
    BY <1>12 DEF BgetPanic, cachevars, idevars, procvars
  <2>2. PanicJustified'
    BY <2>1, PanicCount DEF PanicJustified, Refers
  <2>3. QueueKept'
    BY <1>1, <2>1 DEF QueueKept, Queued
  <2> QED
    BY <1>1, <1>3, <2>1, <2>2, <2>3
       DEF IInv, TypeOK, ListComplete, Located, OneCopy, CountsKept, Count, LockHeld,
           LockAwaited, FlagsKnown, PinsKept, CommandKept, Command, DiskKept
<1>13. ASSUME NEW p \in Proc, AcquireSleep(p) PROVE IInv'
  <2>1. /\ Steps(p, "lock", "bread")
        /\ UNCHANGED <<buf, mru, pinned, idequeue, ctl, irq, disk, want, cur>>
        /\ lk[cur[p]] = None
        /\ lk' = [lk EXCEPT ![cur[p]] = p]
    BY <1>13 DEF AcquireSleep, At, Goto, Steps, idevars
  <2>2. cur[p] \in Buf
    BY <1>1, <1>2, <2>1 DEF Located, Steps
  <2>3. TypeOK'
    BY <1>1, <1>2, <1>8, <1>3, <2>1, <2>2 DEF TypeOK, BufType, Steps, Labels
  <2>4. ListComplete'
    BY <1>1, <1>2, <1>8, <2>1, <2>2 DEF ListComplete, Steps
  <2>5. Located'
    BY <1>1, <1>2, <1>8, <2>1, <2>2 DEF Located, Steps
  <2>6. OneCopy'
    BY <1>1, <1>2, <1>8, <2>1, <2>2 DEF OneCopy, Steps
  <2>7. CountsKept'
    BY <1>1, <1>7, <2>1, <2>2 DEF CountsKept, Steps
  <2>8. LockHeld'
    BY <1>1, <1>2, <1>8, <2>1, <2>2 DEF LockHeld, Located, Holding, Steps
  <2>9. LockAwaited'
    BY <1>1, <1>2, <1>8, <2>1, <2>2 DEF LockAwaited, LockHeld, Located, Holding, Steps
  <2>10. FlagsKnown'
    BY <1>1, <1>2, <1>8, <2>1, <2>2
       DEF FlagsKnown, LockHeld, Located, Holding, Asking, Steps
  <2>11. PinsKept'
    BY <1>1, <1>2, <1>8, <2>1, <2>2
       DEF PinsKept, LockHeld, Located, Holding, Asking, Steps
  <2>12. QueueKept'
    <3>1. \A q \in Proc : (Queued(q)' <=> Queued(q)) /\ (Queued(q) => cur'[q] = cur[q])
      BY <1>2, <2>1 DEF Queued, Steps
    <3> QED
      BY <1>1, <2>1, <3>1, QueueStays
  <2>13. CommandKept'
    BY <1>1, <1>2, <1>8, <2>1, <2>2 DEF CommandKept, Command, Steps
  <2>14. DiskKept'
    BY <1>1, <1>2, <1>8, <2>1, <2>2 DEF DiskKept, Steps
  <2>15. PanicJustified'
    BY <1>1, <1>2, <1>8, <2>1, <2>2 DEF PanicJustified, Steps
  <2> QED
    BY <2>3, <2>4, <2>5, <2>6, <2>7, <2>8, <2>9, <2>10, <2>11, <2>12, <2>13, <2>14,
       <2>15
       DEF IInv
<1>14. ASSUME NEW p \in Proc, AcquireSleepWait(p) PROVE IInv'
  <2>1. /\ Steps(p, "lock", "locksleep")
        /\ UNCHANGED <<buf, mru, lk, pinned, idequeue, ctl, irq, disk, want, cur>>
        /\ lk[cur[p]] # None
    BY <1>14 DEF AcquireSleepWait, At, Goto, Steps, cachevars, idevars
  <2>2. TypeOK'
    BY <1>1, <1>2, <1>8, <1>3, <2>1 DEF TypeOK, BufType, Steps, Labels
  <2>3. ListComplete'
    BY <1>1, <1>2, <1>8, <2>1 DEF ListComplete, Steps
  <2>4. Located'
    BY <1>1, <1>2, <1>8, <2>1 DEF Located, Steps
  <2>5. OneCopy'
    BY <1>1, <1>2, <1>8, <2>1 DEF OneCopy, Steps
  <2>6. CountsKept'
    BY <1>1, <1>7, <2>1 DEF CountsKept, Steps
  <2>7. LockHeld'
    BY <1>1, <1>2, <1>8, <2>1 DEF LockHeld, Located, Holding, Steps
  <2>8. LockAwaited'
    BY <1>1, <1>2, <1>8, <2>1 DEF LockAwaited, LockHeld, Located, Holding, Steps
  <2>9. FlagsKnown'
    BY <1>1, <1>2, <1>8, <2>1 DEF FlagsKnown, LockHeld, Located, Holding, Asking, Steps
  <2>10. PinsKept'
    BY <1>1, <1>2, <1>8, <2>1 DEF PinsKept, LockHeld, Located, Holding, Asking, Steps
  <2>11. QueueKept'
    <3>1. \A q \in Proc : (Queued(q)' <=> Queued(q)) /\ (Queued(q) => cur'[q] = cur[q])
      BY <1>2, <2>1 DEF Queued, Steps
    <3> QED
      BY <1>1, <2>1, <3>1, QueueStays
  <2>12. CommandKept'
    BY <1>1, <1>2, <1>8, <2>1 DEF CommandKept, Command, Steps
  <2>13. DiskKept'
    BY <1>1, <1>2, <1>8, <2>1 DEF DiskKept, Steps
  <2>14. PanicJustified'
    BY <1>1, <1>2, <1>8, <2>1 DEF PanicJustified, Steps
  <2> QED
    BY <2>2, <2>3, <2>4, <2>5, <2>6, <2>7, <2>8, <2>9, <2>10, <2>11, <2>12, <2>13,
       <2>14
       DEF IInv
<1>15. ASSUME NEW p \in Proc, BreadTest(p) PROVE IInv'
  <2>1. /\ Steps(p, "bread", IF "VALID" \in buf[cur[p]].flags THEN "held" ELSE "iderw")
        /\ UNCHANGED <<buf, mru, lk, pinned, idequeue, ctl, irq, disk, want, cur>>
    BY <1>15 DEF BreadTest, At, Goto, Steps, cachevars, idevars
  <2>2. cur[p] \in Buf /\ buf[cur[p]].block = want[p] /\ want[p] # None
    BY <1>1, <1>2, <2>1 DEF Located, Steps
  <2>3. "VALID" \notin buf[cur[p]].flags => want[p] \notin pinned
    BY <1>1, <2>2 DEF PinsKept, FlagsKnown, OneCopy
  <2>4. TypeOK'
    BY <1>1, <1>2, <1>8, <1>3, <2>1, <2>2 DEF TypeOK, BufType, Steps, Labels
  <2>5. ListComplete'
    BY <1>1, <1>2, <1>8, <2>1, <2>2 DEF ListComplete, Steps
  <2>6. Located'
    BY <1>1, <1>2, <1>8, <2>1, <2>2 DEF Located, Steps
  <2>7. OneCopy'
    BY <1>1, <1>2, <1>8, <2>1, <2>2 DEF OneCopy, Steps
  <2>8. CountsKept'
    BY <1>1, <1>7, <2>1, <2>2 DEF CountsKept, Steps
  <2>9. LockHeld'
    BY <1>1, <1>2, <1>8, <2>1, <2>2 DEF LockHeld, Located, Holding, Steps
  <2>10. LockAwaited'
    BY <1>1, <1>2, <1>8, <2>1, <2>2 DEF LockAwaited, LockHeld, Located, Holding, Steps
  <2>11. FlagsKnown'
    BY <1>1, <1>2, <1>8, <2>1, <2>2
       DEF FlagsKnown, LockHeld, Located, Holding, Asking, Steps
  <2>12. PinsKept'
    BY <1>1, <1>2, <2>1, <2>3 DEF PinsKept, Steps, Asking
  <2>13. QueueKept'
    <3>1. \A q \in Proc : (Queued(q)' <=> Queued(q)) /\ (Queued(q) => cur'[q] = cur[q])
      BY <1>2, <2>1 DEF Queued, Steps
    <3> QED
      BY <1>1, <2>1, <3>1, QueueStays
  <2>14. CommandKept'
    BY <1>1, <1>2, <1>8, <2>1, <2>2 DEF CommandKept, Command, Steps
  <2>15. DiskKept'
    BY <1>1, <1>2, <1>8, <2>1, <2>2 DEF DiskKept, Steps
  <2>16. PanicJustified'
    BY <1>1, <1>2, <1>8, <2>1, <2>2 DEF PanicJustified, Steps
  <2> QED
    BY <2>4, <2>5, <2>6, <2>7, <2>8, <2>9, <2>10, <2>11, <2>12, <2>13, <2>14, <2>15,
       <2>16
       DEF IInv
<1>16. ASSUME NEW p \in Proc, LogWrite(p) PROVE IInv'
  <2>1. PICK d \in Data :
           buf' = [buf EXCEPT ![cur[p]].data = d, ![cur[p]].flags = @ \cup {"DIRTY"}]
    BY <1>16, Zenon DEF LogWrite
  <2>2. /\ pc[p] = "held" /\ ~panicked /\ ~panicked'
        /\ UNCHANGED <<mru, lk, idequeue, ctl, irq, disk, pc, want, cur>>
        /\ pinned' = pinned \cup {want[p]}
    BY <1>16 DEF LogWrite, At, Goto, Steps, idevars, procvars
  <2> DEFINE b == cur[p]
  <2>3. /\ b \in Buf /\ buf[b].block = want[p] /\ want[p] \in Block
        /\ "VALID" \in buf[b].flags
    BY <1>1, <1>2, <2>2 DEF Located, FlagsKnown, Steps
  <2>4. \A q \in Proc : q # p /\ pc[q] \in Holding => cur[q] # b
    BY <1>4, <2>2 DEF Holding, Steps
  <2>5. buf' = [buf EXCEPT ![b].data = d, ![b].flags = @ \cup {"DIRTY"}]
    BY <2>1
  <2>6. b = cur[p]
    OBVIOUS
  <2> HIDE DEF b
  <2>7. /\ buf' \in BufType
        /\ buf'[b].block = buf[b].block
        /\ buf'[b].flags = buf[b].flags \cup {"DIRTY"}
        /\ buf'[b].refcnt = buf[b].refcnt
        /\ buf'[b].data = d
        /\ \A a \in Buf : a # b => buf'[a] = buf[a]
    BY <1>2, <2>3, <2>5, Modified
  <2>8. \A a \in Buf : buf'[a].block = buf[a].block /\ buf'[a].refcnt = buf[a].refcnt
    BY <2>7
  <2>9. TypeOK'
    BY <1>1, <1>2, <1>8, <1>3, <2>2, <2>3, <2>4, <2>6, <2>7 DEF TypeOK, BufType, Labels
  <2>10. ListComplete'
    BY <1>1, <1>2, <1>8, <2>2, <2>3, <2>4, <2>6, <2>7 DEF ListComplete
  <2>11. Located'
    BY <1>1, <1>2, <1>8, <2>2, <2>8 DEF Located, Steps
  <2>12. OneCopy'
    BY <1>1, <2>8 DEF OneCopy
  <2>13. CountsKept'
    BY <1>1, <1>7, <2>2, <2>8 DEF CountsKept
  <2>14. LockHeld'
    BY <1>1, <1>2, <1>8, <2>2, <2>3, <2>4, <2>6, <2>7 DEF LockHeld, Located, Holding
  <2>15. LockAwaited'
    BY <1>1, <1>2, <1>8, <2>2, <2>3, <2>4, <2>6, <2>7
       DEF LockAwaited, LockHeld, Located, Holding
  <2>16. FlagsKnown'
    BY <1>1, <1>2, <1>8, <2>2, <2>3, <2>4, <2>6, <2>7
       DEF FlagsKnown, LockHeld, Located, Holding, Asking
  <2>17. PinsKept'
    BY <1>1, <1>2, <1>5, <1>8, <2>2, <2>3, <2>4, <2>6, <2>7
       DEF PinsKept, Located, Asking, Holding
  <2>18. QueueKept'
    <3>1. \A q \in Proc : (Queued(q)' <=> Queued(q)) /\ (Queued(q) => cur'[q] = cur[q])
      BY <1>1, <1>2, <1>8, <2>2, <2>4, <2>7 DEF Queued, Located, Holding
    <3> QED
      BY <1>1, <2>2, <3>1, QueueStays
  <2>19. CommandKept'
    <3>1. idequeue # <<>> => Head(idequeue) \in Buf /\ Head(idequeue) # b
      BY <1>6, <2>2, <2>4 DEF Holding, Queued, Steps
    <3> QED
      BY <1>1, <2>2, <2>7, <3>1 DEF CommandKept, Command
  <2>20. DiskKept'
    BY <1>1, <2>2, <2>3, <2>7 DEF DiskKept
  <2>21. PanicJustified'
    BY <1>1, <1>2, <1>8, <2>2, <2>3, <2>4, <2>6, <2>7 DEF PanicJustified
  <2> QED
    BY <2>9, <2>10, <2>11, <2>12, <2>13, <2>14, <2>15, <2>16, <2>17, <2>18, <2>19,
       <2>20, <2>21
       DEF IInv
<1>17. ASSUME NEW p \in Proc, Bwrite(p) PROVE IInv'
  <2>1. PICK d \in Data :
           buf' = [buf EXCEPT ![cur[p]].data = d, ![cur[p]].flags = @ \cup {"DIRTY"}]
    BY <1>17, Zenon DEF Bwrite
  <2>2. /\ Steps(p, "held", "iderw")
        /\ UNCHANGED <<mru, lk, idequeue, ctl, irq, disk, want, cur>>
        /\ pinned' = pinned \ {want[p]}
    BY <1>17 DEF Bwrite, At, Goto, Steps, idevars, procvars
  <2> DEFINE b == cur[p]
  <2>3. /\ b \in Buf /\ buf[b].block = want[p] /\ want[p] \in Block
        /\ "VALID" \in buf[b].flags
    BY <1>1, <1>2, <2>2 DEF Located, FlagsKnown, Steps
  <2>4. \A q \in Proc : q # p /\ pc[q] \in Holding => cur[q] # b
    BY <1>4, <2>2 DEF Holding, Steps
  <2>5. buf' = [buf EXCEPT ![b].data = d, ![b].flags = @ \cup {"DIRTY"}]
    BY <2>1
  <2>6. b = cur[p]
    OBVIOUS
  <2> HIDE DEF b
  <2>7. /\ buf' \in BufType
        /\ buf'[b].block = buf[b].block
        /\ buf'[b].flags = buf[b].flags \cup {"DIRTY"}
        /\ buf'[b].refcnt = buf[b].refcnt
        /\ buf'[b].data = d
        /\ \A a \in Buf : a # b => buf'[a] = buf[a]
    BY <1>2, <2>3, <2>5, Modified
  <2>8. \A a \in Buf : buf'[a].block = buf[a].block /\ buf'[a].refcnt = buf[a].refcnt
    BY <2>7
  <2>9. TypeOK'
    BY <1>1, <1>2, <1>8, <1>3, <2>2, <2>3, <2>4, <2>6, <2>7
       DEF TypeOK, BufType, Steps, Labels
  <2>10. ListComplete'
    BY <1>1, <1>2, <1>8, <2>2, <2>3, <2>4, <2>6, <2>7 DEF ListComplete, Steps
  <2>11. Located'
    BY <1>1, <1>2, <1>8, <2>2, <2>8 DEF Located, Steps
  <2>12. OneCopy'
    BY <1>1, <2>8 DEF OneCopy
  <2>13. CountsKept'
    BY <1>1, <1>7, <2>2, <2>8 DEF CountsKept
  <2>14. LockHeld'
    BY <1>1, <1>2, <1>8, <2>2, <2>3, <2>4, <2>6, <2>7
       DEF LockHeld, Located, Holding, Steps
  <2>15. LockAwaited'
    BY <1>1, <1>2, <1>8, <2>2, <2>3, <2>4, <2>6, <2>7
       DEF LockAwaited, LockHeld, Located, Holding, Steps
  <2>16. FlagsKnown'
    <3>1. ASSUME NEW a \in Buf
          PROVE  /\ "DIRTY" \in buf'[a].flags => "VALID" \in buf'[a].flags
                 /\ buf'[a].flags # {} => buf'[a].block # None
      BY <1>1, <1>8, <2>3, <2>7 DEF FlagsKnown
    <3>2. ASSUME NEW r \in Proc
          PROVE  /\ pc'[r] = "held" => "VALID" \in buf'[cur'[r]].flags
                 /\ pc'[r] \in {"iderw", "iosleep"} => buf'[cur'[r]].flags # {"VALID"}
      <4>1. CASE r = p
        <5>1. buf'[b].flags # {"VALID"}
          BY <2>7
        <5> QED
          BY <1>2, <2>2, <2>6, <4>1, <5>1 DEF Steps, Asking
      <4>2. CASE r # p /\ pc[r] \in {"held", "iderw", "iosleep", "iowake"}
        <5>1. cur[r] # b /\ cur[r] \in Buf /\ pc'[r] = pc[r]
          BY <1>1, <1>2, <2>2, <2>4, <4>2 DEF Located, Holding, Steps
        <5>2. buf'[cur'[r]] = buf[cur[r]]
          BY <2>2, <2>7, <5>1
        <5> QED
          BY <1>1, <5>1, <5>2 DEF FlagsKnown
      <4>3. CASE r # p /\ pc[r] \notin {"held", "iderw", "iosleep", "iowake"}
        BY <1>2, <2>2, <4>3 DEF Asking, Steps
      <4> QED
        BY <4>1, <4>2, <4>3
    <3> QED
      BY <3>1, <3>2 DEF FlagsKnown
  <2>17. PinsKept'
    BY <1>1, <1>2, <1>5, <1>8, <2>2, <2>3, <2>4, <2>6, <2>7
       DEF PinsKept, OneCopy, Located, Asking, Holding, Steps
  <2>18. QueueKept'
    <3>1. \A q \in Proc : (Queued(q)' <=> Queued(q)) /\ (Queued(q) => cur'[q] = cur[q])
      BY <1>1, <1>2, <1>8, <2>2, <2>4, <2>7 DEF Queued, Located, Holding, Steps
    <3> QED
      BY <1>1, <2>2, <3>1, QueueStays
  <2>19. CommandKept'
    <3>1. idequeue # <<>> => Head(idequeue) \in Buf /\ Head(idequeue) # b
      BY <1>6, <2>2, <2>4 DEF Holding, Queued, Steps
    <3> QED
      BY <1>1, <2>2, <2>7, <3>1 DEF CommandKept, Command
  <2>20. DiskKept'
    BY <1>1, <2>2, <2>3, <2>7 DEF DiskKept
  <2>21. PanicJustified'
    BY <1>1, <1>2, <1>8, <2>2, <2>3, <2>4, <2>6, <2>7 DEF PanicJustified, Steps
  <2> QED
    BY <2>9, <2>10, <2>11, <2>12, <2>13, <2>14, <2>15, <2>16, <2>17, <2>18, <2>19,
       <2>20, <2>21
       DEF IInv
<1>18. ASSUME NEW p \in Proc, Brelse(p) PROVE IInv'
  <2>1. /\ pc[p] = "held" /\ ~panicked /\ ~panicked'
        /\ UNCHANGED <<buf, mru, pinned, idequeue, ctl, irq, disk, want, cur>>
        /\ lk' = [lk EXCEPT ![cur[p]] = None]
        /\ pc' = [q \in Proc |-> CASE q = p -> "unref"
                                   [] q # p /\ pc[q] = "locksleep" /\ cur[q] = cur[p] -> "lock"
                                   [] OTHER -> pc[q]]
    BY <1>18 DEF Brelse, At, WakeLock, idevars
  <2>2. cur[p] \in Buf
    BY <1>1, <1>2, <2>1 DEF Located
  <2>3. \A q \in Proc : q # p /\ pc[q] \in Holding => cur[q] # cur[p]
    BY <1>4, <2>1 DEF Holding
  <2>4. /\ pc' \in [Proc -> Labels] /\ pc'[p] = "unref"
        /\ \A q \in Proc : \/ q = p
                           \/ pc'[q] = pc[q] /\ ~(pc[q] = "locksleep" /\ cur[q] = cur[p])
                           \/ pc[q] = "locksleep" /\ cur[q] = cur[p] /\ pc'[q] = "lock"
    BY <1>2, <2>1 DEF Labels
  <2>5. /\ UNCHANGED <<buf, mru, pinned, idequeue, ctl, irq, disk, want, cur>>
        /\ lk' = [lk EXCEPT ![cur[p]] = None] /\ pc[p] = "held"
    BY <2>1
  <2>6. TypeOK'
    BY <1>1, <1>2, <1>8, <1>3, <2>1, <2>2, <2>3, <2>4 DEF TypeOK, BufType, Labels
  <2>7. ListComplete'
    BY <1>1, <1>2, <1>8, <2>1, <2>2, <2>3, <2>4 DEF ListComplete
  <2>8. Located'
    BY <1>1, <1>2, <1>8, <2>2, <2>3, <2>4, <2>5 DEF Located
  <2>9. OneCopy'
    BY <1>1, <1>2, <1>8, <2>1, <2>2, <2>3, <2>4 DEF OneCopy
  <2>10. CountsKept'
    BY <1>1, <1>7, <2>1, <2>2, <2>3, <2>4 DEF CountsKept
  <2>11. LockHeld'
    BY <1>1, <1>2, <1>8, <2>2, <2>3, <2>4, <2>5 DEF LockHeld, Located, Holding
  <2>12. LockAwaited'
    BY <1>1, <1>2, <1>8, <2>2, <2>3, <2>4, <2>5
       DEF LockAwaited, LockHeld, Located, Holding
  <2>13. FlagsKnown'
    BY <1>1, <1>2, <1>8, <2>2, <2>3, <2>4, <2>5
       DEF FlagsKnown, LockHeld, Located, Holding, Asking
  <2>14. PinsKept'
    BY <1>1, <1>2, <1>8, <2>2, <2>3, <2>4, <2>5
       DEF PinsKept, LockHeld, Located, Holding, Asking
  <2>15. QueueKept'
    BY <1>1, <1>2, <1>8, <2>2, <2>3, <2>4, <2>5 DEF QueueKept, Queued, Located
  <2>16. CommandKept'
    BY <1>1, <1>2, <1>8, <2>1, <2>2, <2>3, <2>4 DEF CommandKept, Command
  <2>17. DiskKept'
    BY <1>1, <1>2, <1>8, <2>1, <2>2, <2>3, <2>4 DEF DiskKept
  <2>18. PanicJustified'
    BY <1>1, <1>2, <1>8, <2>1, <2>2, <2>3, <2>4 DEF PanicJustified
  <2> QED
    BY <2>6, <2>7, <2>8, <2>9, <2>10, <2>11, <2>12, <2>13, <2>14, <2>15, <2>16, <2>17,
       <2>18
       DEF IInv
<1>19. ASSUME NEW p \in Proc, Unref(p) PROVE IInv'
  <2> DEFINE b == cur[p]
  <2>1. /\ Steps(p, "unref", "idle")
        /\ UNCHANGED <<lk, pinned, idequeue, ctl, irq, disk>>
        /\ cur' = [cur EXCEPT ![p] = None]
        /\ want' = [want EXCEPT ![p] = None]
        /\ buf' = [buf EXCEPT ![b].refcnt = buf[b].refcnt - 1]
        /\ mru' = IF buf[b].refcnt = 1 THEN ToHead(b) ELSE mru
    BY <1>19 DEF Unref, At, Goto, Steps, idevars
  <2>2. b \in Buf
    BY <1>1, <1>2, <2>1 DEF Located, Steps
  <2>3. b = cur[p]
    OBVIOUS
  <2> HIDE DEF b
  <2>4. Count(b) > 0 /\ Count(b) \in Nat
    BY <2>2, <2>3, CountZero
  <2>5. buf[b].refcnt - 1 \in Nat
    BY <1>1, <2>2, <2>4 DEF CountsKept
  <2>6. /\ buf' \in BufType
        /\ buf'[b].refcnt = buf[b].refcnt - 1
        /\ \A a \in Buf : Same(a) /\ (a # b => buf'[a] = buf[a])
    BY <1>2, <2>1, <2>2, <2>5, RefcntSet
  <2>7. \A a \in Buf : /\ Count(a) \in Nat
                       /\ Count(a)' \in Nat
                       /\ Count(a)' + One(cur[p] = a) = Count(a) + One(None = a)
    <3>1. TypeOK /\ None \in Buf \cup {None} /\ cur' = [cur EXCEPT ![p] = None]
      BY <1>1, <2>1
    <3>2. Moved(p, None)
      BY <3>1, CountMoves
    <3> QED
      BY <3>2 DEF Moved
  <2>8. mru' \in [1 .. NBUF -> Buf] /\ ListComplete'
    BY <1>1, <2>1, <2>2, ToHeadKept DEF TypeOK, ListComplete
  <2>9. TypeOK'
    BY <1>1, <1>2, <1>3, <2>1, <2>6, <2>8 DEF TypeOK, BufType, Steps, Labels
  <2>10. ListComplete'
    BY <2>8
  <2>11. Located'
    BY <1>1, <1>2, <1>8, <2>1, <2>2, <2>3, <2>6 DEF Located, Same, Steps
  <2>12. OneCopy'
    BY <1>1, <1>2, <1>8, <2>1, <2>2, <2>3, <2>6 DEF OneCopy, Same, Steps
  <2>13. CountsKept'
    BY <1>1, <1>8, <2>2, <2>3, <2>6, <2>7 DEF CountsKept, One
  <2>14. LockHeld'
    BY <1>1, <1>2, <1>8, <2>1, <2>2, <2>3, <2>6 DEF LockHeld, Located, Holding, Steps
  <2>15. LockAwaited'
    BY <1>1, <1>2, <1>8, <2>1, <2>2, <2>3, <2>6
       DEF LockAwaited, LockHeld, Located, Holding, Steps
  <2>16. FlagsKnown'
    BY <1>1, <1>2, <1>8, <2>1, <2>2, <2>3, <2>6
       DEF FlagsKnown, LockHeld, Located, Holding, Asking, Same, Steps
  <2>17. PinsKept'
    BY <1>1, <1>2, <1>8, <2>1, <2>2, <2>3, <2>6
       DEF PinsKept, LockHeld, Located, Holding, Asking, Same, Steps
  <2>18. QueueKept'
    <3>1. ASSUME NEW q \in Proc PROVE (Queued(q)' <=> Queued(q)) /\ (Queued(q) => cur'[q] = cur[q])
      <4>1. CASE q = p
        BY <1>2, <2>1, <4>1 DEF Queued, Steps
      <4>2. CASE q # p
        <5>1. pc'[q] = pc[q] /\ cur'[q] = cur[q]
          BY <1>2, <2>1, <4>2 DEF Steps
        <5>2. pc[q] \in {"iosleep", "iowake"} => cur[q] \in Buf
          BY <1>1, <1>2 DEF Located
        <5> QED
          BY <2>6, <5>1, <5>2 DEF Queued, Same
      <4> QED
        BY <4>1, <4>2
    <3> QED
      BY <1>1, <2>1, <3>1, QueueStays
  <2>19. CommandKept'
    BY <1>1, <1>2, <1>8, <2>1, <2>2, <2>3, <2>6 DEF CommandKept, Command, Same, Steps
  <2>20. DiskKept'
    BY <1>1, <1>2, <1>8, <2>1, <2>2, <2>3, <2>6 DEF DiskKept, Same, Steps
  <2>21. PanicJustified'
    BY <1>1, <1>2, <1>8, <2>1, <2>2, <2>3, <2>6 DEF PanicJustified, Steps
  <2> QED
    BY <2>9, <2>10, <2>11, <2>12, <2>13, <2>14, <2>15, <2>16, <2>17, <2>18, <2>19,
       <2>20, <2>21
       DEF IInv
<1>20. ASSUME NEW p \in Proc, Iderw(p) PROVE IInv'
  <2> DEFINE b == cur[p]
  <2>1. /\ Steps(p, "iderw", "iosleep")
        /\ UNCHANGED <<buf, mru, lk, pinned, irq, disk, want, cur>>
        /\ idequeue' = Append(idequeue, b)
        /\ ctl' = IF idequeue = <<>> THEN Command(b) ELSE ctl
    BY <1>20 DEF Iderw, At, Goto, Steps, cachevars
  <2>2. b \in Buf /\ buf[b].block \in Block
    BY <1>1, <1>2, <2>1 DEF Located, Steps
  <2>3. b = cur[p]
    OBVIOUS
  <2> HIDE DEF b
  <2>4. \A i \in DOMAIN idequeue : idequeue[i] # b
    BY <1>1, <1>4, <2>1, <2>3 DEF QueueKept, Queued, Steps, Holding
  <2>5. Command(b) \in [block : Block, data : Data \cup {None}]
    BY <1>2, <2>2 DEF Command, BufType
  <2>6. idequeue \in Seq(Buf)
    BY <1>1 DEF TypeOK
  <2>7. /\ idequeue' \in Seq(Buf) /\ idequeue' # <<>>
        /\ DOMAIN idequeue' = DOMAIN idequeue \cup {Len(idequeue) + 1}
        /\ Len(idequeue) + 1 \notin DOMAIN idequeue
        /\ \A i \in DOMAIN idequeue : idequeue'[i] = idequeue[i]
        /\ idequeue'[Len(idequeue) + 1] = b
        /\ Head(idequeue') = IF idequeue = <<>> THEN b ELSE Head(idequeue)
    BY <2>1, <2>2, <2>6
  <2>8. TypeOK'
    BY <1>1, <1>2, <1>3, <2>1, <2>5, <2>7 DEF TypeOK, Steps, Labels
  <2>9. ListComplete'
    BY <1>1, <1>2, <1>8, <2>1, <2>2, <2>3 DEF ListComplete, Steps
  <2>10. Located'
    BY <1>1, <1>2, <1>8, <2>1, <2>2, <2>3 DEF Located, Steps
  <2>11. OneCopy'
    BY <1>1, <1>2, <1>8, <2>1, <2>2, <2>3 DEF OneCopy, Steps
  <2>12. CountsKept'
    BY <1>1, <1>7, <2>1, <2>2, <2>3 DEF CountsKept, Steps
  <2>13. LockHeld'
    BY <1>1, <1>2, <1>8, <2>1, <2>2, <2>3 DEF LockHeld, Located, Holding, Steps
  <2>14. LockAwaited'
    BY <1>1, <1>2, <1>8, <2>1, <2>2, <2>3
       DEF LockAwaited, LockHeld, Located, Holding, Steps
  <2>15. FlagsKnown'
    BY <1>1, <1>2, <1>8, <2>1, <2>2, <2>3
       DEF FlagsKnown, LockHeld, Located, Holding, Asking, Steps
  <2>16. PinsKept'
    BY <1>1, <1>2, <1>8, <2>1, <2>2, <2>3
       DEF PinsKept, LockHeld, Located, Holding, Asking, Steps
  <2>17. QueueKept'
    <3>1. \A q \in Proc : q # p => (Queued(q)' <=> Queued(q))
      BY <1>2, <2>1 DEF Queued, Steps
    <3>2. ~Queued(p) /\ Queued(p)'
      BY <1>1, <1>2, <2>1 DEF Queued, FlagsKnown, Steps
    <3>3. cur' = cur /\ cur[p] = b
      BY <2>1, <2>3
    <3>4. \A i \in DOMAIN idequeue' : \E q \in Proc : cur'[q] = idequeue'[i] /\ Queued(q)'
      BY <1>1, <2>7, <3>1, <3>2, <3>3 DEF QueueKept
    <3>5. \A q \in Proc : Queued(q)' => \E i \in DOMAIN idequeue' : idequeue'[i] = cur'[q]
      BY <1>1, <2>7, <3>1, <3>2, <3>3 DEF QueueKept
    <3>6. \A i, j \in DOMAIN idequeue' : idequeue'[i] = idequeue'[j] => i = j
      BY <1>1, <2>4, <2>7 DEF QueueKept
    <3> QED
      BY <3>4, <3>5, <3>6 DEF QueueKept
  <2>18. CommandKept'
    BY <1>1, <2>1, <2>7 DEF CommandKept, Command
  <2>19. DiskKept'
    BY <1>1, <2>1 DEF DiskKept, CommandKept
  <2>20. PanicJustified'
    BY <1>1, <1>2, <1>8, <2>1, <2>2, <2>3 DEF PanicJustified, Steps
  <2> QED
    BY <2>8, <2>9, <2>10, <2>11, <2>12, <2>13, <2>14, <2>15, <2>16, <2>17, <2>18,
       <2>19, <2>20
       DEF IInv
<1>21. ASSUME NEW p \in Proc, IderwRetest(p) PROVE IInv'
  <2>1. /\ pc[p] = "iowake" /\ IF buf[cur[p]].flags = {"VALID"} THEN Steps(p, "iowake", "held")
                                 ELSE Steps(p, "iowake", "iosleep")
        /\ UNCHANGED <<buf, mru, lk, pinned, idequeue, ctl, irq, disk, want, cur>>
    BY <1>1, <1>21 DEF IderwRetest, At, Goto, Steps, FlagsKnown, cachevars, idevars
  <2>2. TypeOK'
    BY <1>1, <1>2, <1>8, <1>3, <2>1 DEF TypeOK, BufType, Steps, Labels
  <2>3. ListComplete'
    BY <1>1, <1>2, <1>8, <2>1 DEF ListComplete, Steps
  <2>4. Located'
    BY <1>1, <1>2, <1>8, <2>1 DEF Located, Steps
  <2>5. OneCopy'
    BY <1>1, <1>2, <1>8, <2>1 DEF OneCopy, Steps
  <2>6. CountsKept'
    BY <1>1, <1>7, <2>1 DEF CountsKept, Steps
  <2>7. LockHeld'
    BY <1>1, <1>2, <1>8, <2>1 DEF LockHeld, Located, Holding, Steps
  <2>8. LockAwaited'
    BY <1>1, <1>2, <1>8, <2>1 DEF LockAwaited, LockHeld, Located, Holding, Steps
  <2>9. FlagsKnown'
    BY <1>1, <1>2, <1>8, <2>1 DEF FlagsKnown, LockHeld, Located, Holding, Asking, Steps
  <2>10. PinsKept'
    BY <1>1, <1>2, <1>8, <2>1 DEF PinsKept, LockHeld, Located, Holding, Asking, Steps
  <2>11. QueueKept'
    <3>1. \A q \in Proc : (Queued(q)' <=> Queued(q)) /\ (Queued(q) => cur'[q] = cur[q])
      BY <1>2, <2>1 DEF Queued, Steps
    <3> QED
      BY <1>1, <2>1, <3>1, QueueStays
  <2>12. CommandKept'
    BY <1>1, <1>2, <1>8, <2>1 DEF CommandKept, Command, Steps
  <2>13. DiskKept'
    BY <1>1, <1>2, <1>8, <2>1 DEF DiskKept, Steps
  <2>14. PanicJustified'
    BY <1>1, <1>2, <1>8, <2>1 DEF PanicJustified, Steps
  <2> QED
    BY <2>2, <2>3, <2>4, <2>5, <2>6, <2>7, <2>8, <2>9, <2>10, <2>11, <2>12, <2>13,
       <2>14
       DEF IInv
<1>22. ASSUME NEW p \in Proc, Kill(p) PROVE IInv'
  <2>1. /\ Steps(p, "locksleep", "lock") \/ Steps(p, "iosleep", "iowake")
        /\ UNCHANGED <<buf, mru, lk, pinned, idequeue, ctl, irq, disk, want, cur>>
    BY <1>1, <1>22 DEF Kill, At, Goto, Steps, FlagsKnown, cachevars, idevars
  <2>2. TypeOK'
    BY <1>1, <1>2, <1>8, <1>3, <2>1 DEF TypeOK, BufType, Steps, Labels
  <2>3. ListComplete'
    BY <1>1, <1>2, <1>8, <2>1 DEF ListComplete, Steps
  <2>4. Located'
    BY <1>1, <1>2, <1>8, <2>1 DEF Located, Steps
  <2>5. OneCopy'
    BY <1>1, <1>2, <1>8, <2>1 DEF OneCopy, Steps
  <2>6. CountsKept'
    BY <1>1, <1>7, <2>1 DEF CountsKept, Steps
  <2>7. LockHeld'
    BY <1>1, <1>2, <1>8, <2>1 DEF LockHeld, Located, Holding, Steps
  <2>8. LockAwaited'
    BY <1>1, <1>2, <1>8, <2>1 DEF LockAwaited, LockHeld, Located, Holding, Steps
  <2>9. FlagsKnown'
    BY <1>1, <1>2, <1>8, <2>1 DEF FlagsKnown, LockHeld, Located, Holding, Asking, Steps
  <2>10. PinsKept'
    BY <1>1, <1>2, <1>8, <2>1 DEF PinsKept, LockHeld, Located, Holding, Asking, Steps
  <2>11. QueueKept'
    <3>1. \A q \in Proc : (Queued(q)' <=> Queued(q)) /\ (Queued(q) => cur'[q] = cur[q])
      BY <1>1, <1>2, <2>1 DEF Queued, FlagsKnown, Steps
    <3> QED
      BY <1>1, <2>1, <3>1, QueueStays
  <2>12. CommandKept'
    BY <1>1, <1>2, <1>8, <2>1 DEF CommandKept, Command, Steps
  <2>13. DiskKept'
    BY <1>1, <1>2, <1>8, <2>1 DEF DiskKept, Steps
  <2>14. PanicJustified'
    BY <1>1, <1>2, <1>8, <2>1 DEF PanicJustified, Steps
  <2> QED
    BY <2>2, <2>3, <2>4, <2>5, <2>6, <2>7, <2>8, <2>9, <2>10, <2>11, <2>12, <2>13,
       <2>14
       DEF IInv
<1>23. CASE Controller
  <2>1. /\ UNCHANGED <<buf, mru, lk, pinned, idequeue, ctl, pc, want, cur, panicked>>
        /\ ctl # None /\ ~panicked
        /\ disk' = IF ctl.data = None THEN disk ELSE [disk EXCEPT ![ctl.block] = ctl.data]
    BY <1>23 DEF Controller, cachevars, procvars
  <2>2. ctl = Command(Head(idequeue)) /\ idequeue # <<>>
    BY <1>1, <2>1 DEF CommandKept
  <2>3. ctl.block \in Block /\ ctl.data \in Data \cup {None}
    BY <1>1, <2>1 DEF TypeOK
  <2>4. disk' \in [Block -> Data] /\ (ctl.data # None => disk'[ctl.block] = ctl.data)
    BY <1>1, <2>1, <2>3 DEF TypeOK
  <2>5. TypeOK'
    BY <1>1, <1>3, <2>1, <2>4 DEF TypeOK
  <2>6. ListComplete'
    BY <1>1, <1>2, <1>8, <2>1 DEF ListComplete
  <2>7. Located'
    BY <1>1, <1>2, <1>8, <2>1 DEF Located
  <2>8. OneCopy'
    BY <1>1, <1>2, <1>8, <2>1 DEF OneCopy
  <2>9. CountsKept'
    BY <1>1, <1>7, <2>1 DEF CountsKept
  <2>10. LockHeld'
    BY <1>1, <1>2, <1>8, <2>1 DEF LockHeld, Located, Holding
  <2>11. LockAwaited'
    BY <1>1, <1>2, <1>8, <2>1 DEF LockAwaited, LockHeld, Located, Holding
  <2>12. FlagsKnown'
    BY <1>1, <1>2, <1>8, <2>1 DEF FlagsKnown, LockHeld, Located, Holding, Asking
  <2>13. PinsKept'
    BY <1>1, <1>2, <1>8, <2>1 DEF PinsKept, LockHeld, Located, Holding, Asking
  <2>14. QueueKept'
    BY <1>1, <1>2, <1>8, <2>1 DEF QueueKept, Queued, Located
  <2>15. CommandKept'
    BY <1>1, <1>2, <1>8, <2>1 DEF CommandKept, Command
  <2>16. DiskKept'
    <3>1. ASSUME NEW a \in Buf, buf[a].flags = {"VALID"} PROVE buf[a].data = disk'[buf[a].block]
      <4>1. CASE ctl.data = None
        BY <1>1, <2>1, <3>1, <4>1 DEF DiskKept
      <4>2. CASE ctl.data # None
        <5>1. "DIRTY" \in buf[Head(idequeue)].flags /\ ctl.block = buf[Head(idequeue)].block
          BY <2>2, <4>2 DEF Command
        <5>2. a # Head(idequeue)
          BY <3>1, <5>1
        <5>3. buf[a].block # ctl.block
          BY <1>1, <1>6, <1>8, <2>2, <2>3, <3>1, <5>1, <5>2 DEF OneCopy
        <5>4. disk'[buf[a].block] = disk[buf[a].block]
          BY <1>1, <1>2, <2>1, <2>3, <3>1, <5>3 DEF TypeOK
        <5> QED
          BY <1>1, <3>1, <5>4 DEF DiskKept
      <4> QED
        BY <4>1, <4>2
    <3> QED
      BY <2>1, <2>4, <3>1 DEF DiskKept
  <2>17. PanicJustified'
    BY <1>1, <1>2, <1>8, <2>1 DEF PanicJustified
  <2> QED
    BY <2>5, <2>6, <2>7, <2>8, <2>9, <2>10, <2>11, <2>12, <2>13, <2>14, <2>15, <2>16,
       <2>17
       DEF IInv
<1>24. CASE Ideintr
  <2> DEFINE b == Head(idequeue)
             d == IF "DIRTY" \in buf[b].flags THEN buf[b].data ELSE disk[ctl.block]
             rest == Tail(idequeue)
  <2>1. /\ UNCHANGED <<mru, lk, pinned, disk, want, cur, panicked>>
        /\ ~panicked /\ irq /\ irq' = FALSE
        /\ idequeue' = rest
        /\ buf' = [buf EXCEPT ![b].flags = {"VALID"}, ![b].data = d]
        /\ pc' = [r \in Proc |-> IF pc[r] = "iosleep" /\ cur[r] = b THEN "iowake" ELSE pc[r]]
        /\ ctl' = IF rest = <<>> THEN None ELSE Command(Head(rest))
    BY <1>24 DEF Ideintr
  <2>2. ctl # None /\ idequeue # <<>> /\ ctl = Command(b) /\ b \in Buf /\ b = idequeue[1]
    BY <1>1, <1>6, <2>1 DEF CommandKept
  <2>3. PICK q \in Proc : cur[q] = b /\ Queued(q)
    BY <1>6, <2>2
  <2>4. /\ pc' = [pc EXCEPT ![q] = "iowake"]
        /\ \A r \in Proc : r # q /\ pc[r] \in Holding => cur[r] # b
    <3>1. \A r \in Proc : r # q /\ pc[r] \in Holding => cur[r] # b
      BY <1>4, <2>3 DEF Queued, Holding
    <3>2. \A r \in Proc : pc[r] = "iosleep" /\ cur[r] = b => r = q
      BY <3>1 DEF Holding
    <3> QED
      BY <1>2, <2>1, <2>3, <3>1, <3>2 DEF Queued
  <2>5. buf[b].block = want[q] /\ want[q] \in Block /\ want[q] \notin pinned
    BY <1>1, <1>2, <1>8, <2>2, <2>3 DEF Located, PinsKept, Asking, Queued
  <2>6. ctl.block = want[q] /\ ctl.data = IF "DIRTY" \in buf[b].flags THEN buf[b].data ELSE None
    BY <2>2, <2>5 DEF Command
  <2>7. disk[want[q]] \in Data /\ buf[b].data \in Data
    BY <1>1, <1>2, <2>2, <2>5 DEF TypeOK, BufType
  <2>8. d \in Data /\ d = disk[want[q]]
    BY <1>1, <1>8, <2>1, <2>6, <2>7 DEF DiskKept
  <2>9. idequeue \in Seq(Buf)
    BY <1>1 DEF TypeOK
  <2> HIDE DEF b, d
  <2>10. /\ buf' \in BufType
         /\ buf'[b].block = buf[b].block
         /\ buf'[b].flags = {"VALID"}
         /\ buf'[b].refcnt = buf[b].refcnt
         /\ buf'[b].data = d
         /\ \A a \in Buf : a # b => buf'[a] = buf[a]
    <3>1. buf' = [buf EXCEPT ![b].flags = {"VALID"}, ![b].data = d]
      BY <2>1
    <3>2. buf \in BufType /\ b \in Buf /\ d \in Data
      BY <1>2, <2>2, <2>8
    <3> QED
      BY <3>1, <3>2, DoneIn
  <2>11. \A a \in Buf : buf'[a].block = buf[a].block /\ buf'[a].refcnt = buf[a].refcnt
    BY <2>10
  <2>12. /\ idequeue' \in Seq(Buf)
         /\ \A i \in DOMAIN idequeue' : /\ i + 1 \in DOMAIN idequeue /\ i + 1 # 1
                                        /\ idequeue'[i] = idequeue[i + 1]
         /\ \A i \in DOMAIN idequeue : i # 1 => /\ i - 1 \in DOMAIN idequeue'
                                                /\ idequeue'[i - 1] = idequeue[i]
         /\ DOMAIN idequeue' \subseteq Int
    BY <2>1, <2>2, <2>9
  <2>13. idequeue' # <<>> => /\ Head(idequeue') = idequeue[2] /\ 2 \in DOMAIN idequeue
                             /\ Head(idequeue') \in Buf
    BY <2>1, <2>2, <2>9
  <2>14. idequeue' # <<>> => Head(idequeue') # b /\ buf[Head(idequeue')].block \in Block
    <3>1. SUFFICES ASSUME idequeue' # <<>>
                   PROVE  Head(idequeue') # b /\ buf[Head(idequeue')].block \in Block
      OBVIOUS
    <3>2. Head(idequeue') # b
      BY <1>1, <1>6, <2>2, <2>13, <3>1 DEF QueueKept, Queued
    <3>3. PICK r \in Proc : cur[r] = Head(idequeue') /\ Queued(r)
      BY <1>1, <2>13, <3>1 DEF QueueKept, Queued
    <3> QED
      BY <1>1, <1>2, <1>8, <2>13, <3>1, <3>2, <3>3 DEF Located
  <2>15. idequeue' # <<>> => ctl' = Command(Head(idequeue')) /\ ctl' = Command(Head(idequeue))'
    BY <2>1, <2>10, <2>13, <2>14 DEF Command
  <2>16. ctl' \in [block : Block, data : Data \cup {None}] \cup {None}
    BY <1>2, <2>1, <2>13, <2>14, <2>15 DEF Command, BufType
  <2>17. TypeOK'
    BY <1>1, <1>2, <1>3, <2>1, <2>4, <2>10, <2>12, <2>16 DEF TypeOK, BufType, Labels
  <2>18. ListComplete'
    BY <1>1, <1>2, <1>8, <2>1, <2>2, <2>3, <2>4, <2>5, <2>10 DEF ListComplete
  <2>19. Located'
    <3>1. \A r \in Proc : /\ pc'[r] = "idle" <=> pc[r] = "idle"
                          /\ pc'[r] = "bget" <=> pc[r] = "bget"
      BY <1>2, <2>3, <2>4 DEF Queued
    <3> QED
      BY <1>1, <1>2, <2>1, <2>11, <3>1 DEF Located
  <2>20. OneCopy'
    BY <1>1, <2>11 DEF OneCopy
  <2>21. CountsKept'
    BY <1>1, <1>7, <2>1, <2>11 DEF CountsKept
  <2>22. LockHeld'
    BY <1>1, <1>2, <2>1, <2>3, <2>4 DEF LockHeld, Holding, Queued
  <2>23. LockAwaited'
    BY <1>1, <1>2, <2>1, <2>3, <2>4 DEF LockAwaited, Queued
  <2>24. FlagsKnown'
    <3>1. ASSUME NEW a \in Buf
          PROVE  /\ "DIRTY" \in buf'[a].flags => "VALID" \in buf'[a].flags
                 /\ buf'[a].flags # {} => buf'[a].block # None
      BY <1>1, <1>8, <2>5, <2>10 DEF FlagsKnown
    <3>2. ASSUME NEW r \in Proc
          PROVE  /\ pc'[r] = "held" => "VALID" \in buf'[cur'[r]].flags
                 /\ pc'[r] \in {"iderw", "iosleep"} => buf'[cur'[r]].flags # {"VALID"}
      <4>1. CASE r = q
        BY <1>2, <2>1, <2>3, <2>4, <2>10, <4>1 DEF Asking
      <4>2. CASE r # q /\ pc[r] \in {"held", "iderw", "iosleep", "iowake"}
        <5>1. cur[r] # b /\ cur[r] \in Buf /\ pc'[r] = pc[r]
          BY <1>1, <1>2, <2>4, <4>2 DEF Located, Holding
        <5>2. buf'[cur'[r]] = buf[cur[r]]
          BY <2>1, <2>10, <5>1
        <5> QED
          BY <1>1, <5>1, <5>2 DEF FlagsKnown
      <4>3. CASE r # q /\ pc[r] \notin {"held", "iderw", "iosleep", "iowake"}
        BY <1>2, <2>4, <4>3 DEF Asking
      <4> QED
        BY <4>1, <4>2, <4>3
    <3> QED
      BY <3>1, <3>2 DEF FlagsKnown
  <2>25. PinsKept'
    <3>1. ASSUME NEW k \in pinned
          PROVE  \E a \in Buf : buf'[a].block = k /\ "DIRTY" \in buf'[a].flags
      BY <1>1, <2>5, <2>10 DEF PinsKept
    <3>2. ASSUME NEW a \in Buf, "DIRTY" \in buf'[a].flags, buf'[a].block \notin pinned
          PROVE  \E r \in Proc : cur'[r] = a /\ pc'[r] \in Asking
      <4>1. a # b /\ buf'[a] = buf[a]
        BY <2>10, <3>2
      <4>2. PICK r \in Proc : cur[r] = a /\ pc[r] \in Asking
        BY <1>1, <3>2, <4>1 DEF PinsKept
      <4> QED
        BY <1>2, <2>1, <2>3, <2>4, <4>1, <4>2 DEF Asking
    <3>3. ASSUME NEW r \in Proc, pc'[r] \in Asking PROVE want'[r] \notin pinned
      <4>1. pc[r] \in Asking
        BY <1>2, <2>3, <2>4, <3>3 DEF Asking, Queued
      <4> QED
        BY <1>1, <2>1, <4>1 DEF PinsKept
    <3>4. pinned' = pinned
      BY <2>1
    <3> QED
      BY <3>1, <3>2, <3>3, <3>4 DEF PinsKept
  <2>26. QueueKept'
    <3>1. \A i, j \in DOMAIN idequeue' : idequeue'[i] = idequeue'[j] => i = j
      BY <1>1, <2>12 DEF QueueKept, Queued
    <3>2. ASSUME NEW i \in DOMAIN idequeue'
          PROVE  \E r \in Proc : cur'[r] = idequeue'[i] /\ Queued(r)'
      <4>1. idequeue'[i] # b
        BY <1>1, <1>6, <2>2, <2>12, <3>2 DEF QueueKept, Queued
      <4>2. i + 1 \in DOMAIN idequeue /\ idequeue'[i] = idequeue[i + 1]
        BY <2>12, <3>2
      <4>3. PICK r \in Proc : cur[r] = idequeue[i + 1] /\ Queued(r)
        BY <1>1, <4>2 DEF QueueKept
      <4>4. r # q /\ cur[r] # b
        BY <2>3, <4>1, <4>2, <4>3
      <4>5. pc'[r] = pc[r] /\ cur'[r] = cur[r]
        BY <1>2, <2>1, <2>4, <4>4
      <4>6. cur[r] \in Buf
        BY <1>1, <1>2, <4>3 DEF Queued, Located
      <4>7. Queued(r)'
        BY <2>10, <4>3, <4>4, <4>5, <4>6 DEF Queued
      <4> QED
        BY <4>2, <4>3, <4>5, <4>7
    <3>3. ASSUME NEW r \in Proc, Queued(r)'
          PROVE  \E i \in DOMAIN idequeue' : idequeue'[i] = cur'[r]
      <4>1. r # q /\ Queued(r) /\ cur[r] # b
        <5>1. cur'[r] = cur[r] /\ cur[r] # b
          BY <2>1, <2>10, <3>3 DEF Queued
        <5>2. r # q /\ pc'[r] = pc[r]
          BY <1>2, <2>3, <2>4, <5>1
        <5>3. cur[r] \in Buf
          BY <1>1, <1>2, <3>3, <5>2 DEF Queued, Located
        <5> QED
          BY <2>10, <3>3, <5>1, <5>2, <5>3 DEF Queued
      <4>2. PICK i \in DOMAIN idequeue : idequeue[i] = cur[r]
        BY <1>1, <4>1 DEF QueueKept
      <4>3. i # 1
        BY <2>2, <4>1, <4>2
      <4>4. i - 1 \in DOMAIN idequeue' /\ idequeue'[i - 1] = cur[r]
        BY <2>12, <4>2, <4>3
      <4>5. cur'[r] = cur[r]
        BY <2>1
      <4> QED
        BY <4>4, <4>5
    <3> QED
      BY <3>1, <3>2, <3>3 DEF QueueKept
  <2>27. CommandKept'
    BY <1>1, <2>1, <2>2, <2>15 DEF CommandKept
  <2>28. DiskKept'
    BY <1>1, <2>1, <2>2, <2>5, <2>8, <2>10 DEF DiskKept
  <2>29. PanicJustified'
    BY <2>1 DEF PanicJustified
  <2> QED
    BY <2>17, <2>18, <2>19, <2>20, <2>21, <2>22, <2>23, <2>24, <2>25, <2>26, <2>27,
       <2>28, <2>29
       DEF IInv
<1>25. CASE UNCHANGED vars
  <2>1. QueueKept'
    BY <1>1, <1>25, QueueStays DEF Queued, vars, cachevars, idevars, procvars
  <2> QED
    BY <1>1, <1>25, <2>1
       DEF vars, cachevars, idevars, procvars, IInv, TypeOK, ListComplete, Located, OneCopy,
           CountsKept, Count, LockHeld, LockAwaited, FlagsKnown, PinsKept, CommandKept, Command,
           DiskKept, PanicJustified, Refers
<1> QED
  BY <1>9, <1>10, <1>11, <1>12, <1>13, <1>14, <1>15, <1>16, <1>17, <1>18, <1>19, <1>20,
     <1>21, <1>22, <1>23, <1>24, <1>25
     DEF Next, ProcStep

-----------------------------------------------------------------------------
THEOREM BcacheInvariant == Spec => []IInv
BY InitIInv, NextIInv, PTL DEF Spec

\* Type correctness: every request to the controller is for a block of the disk.
THEOREM BcacheType == Spec => []TypeOK
<1>1. IInv => TypeOK
  BY DEF IInv
<1> QED
  BY <1>1, BcacheInvariant, PTL

\* A buffer is never recycled under a process that refers to it, its count is the
\* number of those processes, and bget panics only when all buffers are taken
\* (LAB4/bio.c:69-92, :126-138).
THEOREM BcacheBufferStays == Spec => []BufferStays
<1>1. IInv => BufferStays
  <2> SUFFICES ASSUME IInv PROVE BufferStays
    OBVIOUS
  <2>1. TypeOK /\ Located /\ OneCopy /\ CountsKept /\ PanicJustified
    BY DEF IInv
  <2>2. ASSUME NEW p \in Proc, Refers(p) PROVE Hits(want[p]) = {cur[p]}
    <3>1. cur[p] \in Buf /\ buf[cur[p]].block = want[p] /\ want[p] # None
      BY <2>1, <2>2 DEF TypeOK, Located, Refers
    <3> QED
      BY <2>1, <3>1 DEF OneCopy, Hits
  <2> QED
    BY <2>1, <2>2 DEF BufferStays, CountsKept, Count, PanicJustified
<1> QED
  BY <1>1, BcacheInvariant, PTL

\* Who sleeps for a lock is woken by its holder, who sleeps for the disk has one
\* request in the queue, and the controller works on the first request
\* (LAB4/sleeplock.c:26-40, LAB4/ide.c:111-128, :149-163).
THEOREM BcacheSleeperHasWaker == Spec => []SleeperHasWaker
<1>1. IInv => SleeperHasWaker
  <2> SUFFICES ASSUME IInv PROVE SleeperHasWaker
    OBVIOUS
  <2>1. /\ TypeOK /\ Located /\ LockHeld /\ LockAwaited /\ FlagsKnown /\ QueueKept
        /\ CommandKept
    BY DEF IInv
  <2>2. ASSUME NEW p \in Proc, pc[p] = "locksleep" PROVE lk[cur[p]] \notin {None, p}
    <3>1. cur[p] \in Buf
      BY <2>1, <2>2 DEF TypeOK, Located
    <3> QED
      BY <2>1, <2>2, <3>1 DEF LockHeld, LockAwaited, Holding
  <2>3. ASSUME NEW p \in Proc, pc[p] = "iosleep"
        PROVE  Cardinality({i \in DOMAIN idequeue : idequeue[i] = cur[p]}) = 1
    <3>1. PICK i \in DOMAIN idequeue : idequeue[i] = cur[p]
      BY <2>1, <2>3 DEF QueueKept, Queued, FlagsKnown
    <3>2. {j \in DOMAIN idequeue : idequeue[j] = cur[p]} = {i}
      BY <2>1, <3>1 DEF QueueKept
    <3> QED
      BY <3>2, FS_Singleton
  <2> QED
    BY <2>1, <2>2, <2>3 DEF SleeperHasWaker, CommandKept
<1> QED
  BY <1>1, BcacheInvariant, PTL

-----------------------------------------------------------------------------
(***************************************************************************)
(* The refinement: every step of the cache is a step of the store of       *)
(* blocks, or none.                                                        *)
(***************************************************************************)
\* A process between bread and brelse.
InUse(p) == \/ pc[p] = "held"
            \/ pc[p] \in {"iderw", "iosleep", "iowake"} /\ "DIRTY" \in buf[cur[p]].flags
            \/ pc[p] = "iowake" /\ buf[cur[p]].flags = {"VALID"}

\* A block's contents are in its buffer, once that has taken them in; else on the disk.
Viewed == /\ \A b \in Buf : buf[b].flags # {} => View(buf[b].block) = buf[b].data
          /\ \A k \in Block :
               (\A b \in Buf : buf[b].block = k => buf[b].flags = {}) => View(k) = disk[k]

LEMMA ViewedNow == ASSUME OneCopy, FlagsKnown PROVE Viewed
<1>1. ASSUME NEW b \in Buf, buf[b].flags # {} PROVE View(buf[b].block) = buf[b].data
  <2>1. {a \in Hits(buf[b].block) : buf[a].flags # {}} = {b}
    BY <1>1 DEF Hits, OneCopy, FlagsKnown
  <2> QED
    BY <2>1 DEF View
<1>2. ASSUME NEW k \in Block, \A b \in Buf : buf[b].block = k => buf[b].flags = {}
      PROVE  View(k) = disk[k]
  <2>1. {a \in Hits(k) : buf[a].flags # {}} = {}
    BY <1>2 DEF Hits
  <2> QED
    BY <2>1 DEF View
<1> QED
  BY <1>1, <1>2 DEF Viewed

LEMMA ViewedNext == ASSUME OneCopy', FlagsKnown' PROVE Viewed'
<1>1. ASSUME NEW b \in Buf, buf'[b].flags # {} PROVE View(buf[b].block)' = buf'[b].data
  <2>1. {a \in Hits(buf[b].block)' : buf'[a].flags # {}} = {b}
    BY <1>1 DEF Hits, OneCopy, FlagsKnown
  <2> QED
    BY <2>1 DEF View
<1>2. ASSUME NEW k \in Block, \A b \in Buf : buf'[b].block = k => buf'[b].flags = {}
      PROVE  View(k)' = disk'[k]
  <2>1. {a \in Hits(k)' : buf'[a].flags # {}} = {}
    BY <1>2 DEF Hits
  <2> QED
    BY <2>1 DEF View
<1> QED
  BY <1>1, <1>2 DEF Viewed

\* The views do not change as long as buffers and disk do not.
LEMMA ViewsStay ==
  ASSUME \A a \in Buf : Same(a), UNCHANGED disk, NEW k
  PROVE  View(k)' = View(k)
<1>1. {a \in Hits(k)' : buf'[a].flags # {}} = {a \in Hits(k) : buf[a].flags # {}}
  BY DEF Hits, Same
<1> DEFINE S == {a \in Hits(k) : buf[a].flags # {}}
<1>2. CASE S = {}
  BY <1>1, <1>2 DEF View
<1>3. CASE S # {}
  <2>1. (CHOOSE a \in S : TRUE) \in Buf
    BY <1>3 DEF Hits
  <2>2. View(k)' = buf'[CHOOSE a \in S : TRUE].data
    BY <1>1, <1>3 DEF View
  <2>3. View(k) = buf[CHOOSE a \in S : TRUE].data
    BY <1>3 DEF View
  <2> HIDE DEF S
  <2> QED
    BY <2>1, <2>2, <2>3 DEF Same
<1> QED
  BY <1>2, <1>3

\* The cases in which a step of the cache is a step of the store, or none.
LEMMA NoStep ==
  ASSUME \A k \in Block : View(k)' = View(k), \A k \in Block : Using(k)' = Using(k)
  PROVE  UNCHANGED Store!vars
BY DEF Store!vars

LEMMA StepGet ==
  ASSUME NEW p \in Proc, NEW k \in Block, \A i \in Block : View(i)' = View(i),
         Using(k) = {}, Using(k)' = {p}, \A i \in Block : i # k => Using(i)' = Using(i)
  PROVE  Store!Next
<1>1. Store!Get(p, k)
  BY DEF Store!Get
<1> QED
  BY <1>1 DEF Store!Next

LEMMA StepPut ==
  ASSUME NEW p \in Proc, NEW k \in Block, \A i \in Block : View(i)' = View(i),
         Using(k) = {p}, Using(k)' = {}, \A i \in Block : i # k => Using(i)' = Using(i)
  PROVE  Store!Next
<1>1. Store!Put(p, k)
  BY DEF Store!Put
<1> QED
  BY <1>1 DEF Store!Next

LEMMA StepChange ==
  ASSUME NEW p \in Proc, NEW k \in Block, NEW d \in Data,
         \A i \in Block : Using(i)' = Using(i), Using(k) = {p},
         View(k)' = d, \A i \in Block : i # k => View(i)' = View(i)
  PROVE  Store!Next
<1>1. Store!Change(p, k, d)
  BY DEF Store!Change
<1> QED
  BY <1>1 DEF Store!Next

\* The users of a block stay the same if every process that uses a block goes on
\* using it, and no other process begins to.
LEMMA UsersStay ==
  ASSUME \A q \in Proc : \/ ~InUse(q) /\ ~InUse(q)'
                         \/ InUse(q) /\ InUse(q)' /\ want'[q] = want[q],
         NEW k
  PROVE  Using(k)' = Using(k)
BY DEF Using, InUse

\* One process at a time has the buffer of a block, and it is the user of the block.
LEMMA OneUser ==
  ASSUME IInv, NEW p \in Proc, NEW q \in Proc, pc[p] \in Holding, q \in Using(want[p])
  PROVE  q = p
<1>1. pc[q] \in Holding /\ want[q] = want[p]
  BY DEF Using, Holding
<1>2. cur[p] # None /\ cur[q] # None
  BY <1>1 DEF IInv, Located, Holding
<1> QED
  BY <1>1, <1>2, Sharing

\* The initial cache is the initial store, and no step of it is anything but a step
\* of the store.
LEMMA InitStore == Init => Store!Init
<1> SUFFICES ASSUME Init PROVE Store!Init
  OBVIOUS
<1>1. OneCopy /\ FlagsKnown
  BY InitIInv DEF IInv
<1>2. \A k \in Block : View(k) = Zero
  BY <1>1, ViewedNow DEF Viewed, Init
<1>3. \A k \in Block : Using(k) = {}
  BY DEF Using, Init
<1> QED
  BY <1>2, <1>3 DEF Store!Init

LEMMA NextStore == IInv /\ IInv' /\ [Next]_vars => [Store!Next]_Store!vars
<1> SUFFICES ASSUME IInv, IInv', [Next]_vars PROVE Store!Next \/ UNCHANGED Store!vars
  OBVIOUS
<1>1. TypeOK /\ Located /\ OneCopy /\ FlagsKnown /\ PinsKept /\ QueueKept /\ CommandKept /\ DiskKept
  BY DEF IInv
<1>2. /\ buf \in BufType
      /\ pc \in [Proc -> Labels] /\ want \in [Proc -> Block \cup {None}]
      /\ cur \in [Proc -> Buf \cup {None}]
  BY <1>1 DEF TypeOK, BufType
<1>3. \A p \in Proc : pc[p] \in Holding =>
         cur[p] \in Buf /\ want[p] \in Block /\ buf[cur[p]].block = want[p]
  BY <1>1, <1>2 DEF Located, Holding
<1>4. Viewed /\ Viewed'
  BY ViewedNow, ViewedNext DEF IInv
<1>5. \A p, q \in Proc : pc[p] \in Holding /\ pc[q] \in Holding /\ cur[p] = cur[q] => p = q
  BY Sharing
<1>6. None \notin Buf /\ None \notin Block /\ None \notin Proc /\ None \notin Data
  BY BcacheAssumption
<1>7. ASSUME \A a \in Buf : Same(a), UNCHANGED disk,
             \A q \in Proc : \/ ~InUse(q) /\ ~InUse(q)'
                             \/ InUse(q) /\ InUse(q)' /\ want'[q] = want[q]
      PROVE  UNCHANGED Store!vars
  BY <1>7, NoStep, UsersStay, ViewsStay
<1>8. ASSUME NEW p \in Proc, CallBread(p) PROVE UNCHANGED Store!vars
  <2>1. /\ UNCHANGED <<buf, disk, cur>> /\ pc[p] = "idle" /\ pc' = [pc EXCEPT ![p] = "bget"]
        /\ \A q \in Proc : q # p => want'[q] = want[q]
    BY <1>2, <1>8 DEF CallBread, At, Goto, cachevars, idevars
  <2>2. \A q \in Proc : (InUse(q)' <=> InUse(q)) /\ (InUse(q) => want'[q] = want[q])
    BY <1>2, <2>1 DEF InUse
  <2> QED
    BY <1>7, <2>1, <2>2 DEF Same
<1>9. ASSUME NEW p \in Proc, BgetHit(p) PROVE UNCHANGED Store!vars
  <2>1. PICK b \in Hits(want[p]) : /\ buf' = [buf EXCEPT ![b].refcnt = @ + 1]
                                   /\ cur' = [cur EXCEPT ![p] = b]
    BY <1>9, Zenon DEF BgetHit
  <2>2. UNCHANGED <<disk, want>> /\ pc[p] = "bget" /\ pc' = [pc EXCEPT ![p] = "lock"]
    BY <1>9 DEF BgetHit, At, Goto, idevars
  <2>3. \A a \in Buf : Same(a)
    <3>1. b \in Buf /\ buf[b].refcnt + 1 \in Nat
      BY <1>2, <2>1 DEF Hits, BufType
    <3> QED
      BY <1>2, <2>1, <3>1, RefcntSet
  <2>4. \A q \in Proc : InUse(q)' <=> InUse(q)
    <3>1. \A q \in Proc : q # p => cur'[q] = cur[q]
      BY <1>2, <2>1
    <3> QED
      BY <1>2, <1>3, <2>2, <2>3, <3>1 DEF InUse, Same, Holding
  <2> QED
    BY <1>7, <2>2, <2>3, <2>4
<1>10. ASSUME NEW p \in Proc, BgetMiss(p) PROVE UNCHANGED Store!vars
  <2>1. PICK i \in 1 .. NBUF :
           /\ Recyclable(mru[i])
           /\ buf' = [buf EXCEPT ![mru[i]].block = want[p], ![mru[i]].flags = {},
                                 ![mru[i]].refcnt = 1]
           /\ cur' = [cur EXCEPT ![p] = mru[i]]
    BY <1>10, Zenon DEF BgetMiss
  <2>2. /\ pc[p] = "bget" /\ pc' = [pc EXCEPT ![p] = "lock"]
        /\ UNCHANGED <<disk, want>> /\ Hits(want[p]) = {}
    BY <1>10 DEF BgetMiss, At, Goto, idevars
  <2> DEFINE b == mru[i]
  <2>3. b \in Buf /\ want[p] \in Block
    BY <1>1, <1>2, <2>2 DEF TypeOK, Located
  <2>4. /\ "DIRTY" \notin buf[b].flags /\ buf[b].flags \subseteq {"VALID", "DIRTY"}
        /\ \A q \in Proc : cur[q] # b
    <3>1. buf[b].refcnt = 0 /\ "DIRTY" \notin buf[b].flags
      BY <2>1 DEF Recyclable
    <3>2. Count(b) = 0
      BY <2>3, <3>1 DEF IInv, CountsKept
    <3> QED
      BY <1>2, <2>3, <3>1, <3>2, CountZero DEF BufType, Flags
  <2>5. cur' = [cur EXCEPT ![p] = b]
    BY <2>1
  <2>6. buf' = [buf EXCEPT ![b].block = want[p], ![b].flags = {}, ![b].refcnt = 1]
    BY <2>1
  <2> HIDE DEF b
  <2>7. /\ buf'[b].block = want[p] /\ buf'[b].flags = {}
        /\ \A a \in Buf : a # b => buf'[a] = buf[a]
    BY <1>2, <2>3, <2>6, Recycled
  <2>8. \A q \in Proc : InUse(q)' <=> InUse(q)
    BY <1>2, <1>3, <2>2, <2>3, <2>4, <2>5, <2>7 DEF InUse, Holding
  <2>9. ASSUME NEW k \in Block PROVE View(k)' = View(k)
    <3>1. CASE \E a \in Buf : a # b /\ buf[a].block = k /\ buf[a].flags # {}
      BY <1>4, <2>7, <3>1 DEF Viewed
    <3>2. CASE ~\E a \in Buf : a # b /\ buf[a].block = k /\ buf[a].flags # {}
      <4>1. View(k)' = disk[k]
        BY <1>4, <2>2, <2>7, <3>2 DEF Viewed
      <4>2. CASE buf[b].block = k /\ buf[b].flags # {}
        <5>1. buf[b].flags = {"VALID"}
          BY <2>4, <4>2
        <5> QED
          BY <1>1, <1>4, <2>3, <4>1, <4>2, <5>1 DEF Viewed, DiskKept
      <4>3. CASE ~(buf[b].block = k /\ buf[b].flags # {})
        BY <1>4, <3>2, <4>1, <4>3 DEF Viewed
      <4> QED
        BY <4>2, <4>3
    <3> QED
      BY <3>1, <3>2
  <2> QED
    BY <2>2, <2>8, <2>9, NoStep, UsersStay
<1>11. ASSUME NEW p \in Proc, AcquireSleep(p) PROVE UNCHANGED Store!vars
  <2>1. /\ UNCHANGED <<buf, disk, want, cur>>
        /\ pc[p] = "lock" /\ pc' = [pc EXCEPT ![p] = "bread"]
    BY <1>11 DEF AcquireSleep, At, Goto, idevars
  <2>2. \A q \in Proc : InUse(q)' <=> InUse(q)
    BY <1>2, <2>1 DEF InUse
  <2> QED
    BY <1>7, <2>1, <2>2 DEF Same
<1>12. ASSUME NEW p \in Proc, AcquireSleepWait(p) PROVE UNCHANGED Store!vars
  <2>1. /\ UNCHANGED <<buf, disk, want, cur>>
        /\ pc[p] = "lock" /\ pc' = [pc EXCEPT ![p] = "locksleep"]
    BY <1>12 DEF AcquireSleepWait, At, Goto, cachevars, idevars
  <2>2. \A q \in Proc : InUse(q)' <=> InUse(q)
    BY <1>2, <2>1 DEF InUse
  <2> QED
    BY <1>7, <2>1, <2>2 DEF Same
<1>13. ASSUME NEW p \in Proc, Iderw(p) PROVE UNCHANGED Store!vars
  <2>1. /\ UNCHANGED <<buf, disk, want, cur>>
        /\ pc[p] = "iderw" /\ pc' = [pc EXCEPT ![p] = "iosleep"]
    BY <1>13 DEF Iderw, At, Goto, cachevars
  <2>2. \A q \in Proc : InUse(q)' <=> InUse(q)
    BY <1>2, <2>1 DEF InUse
  <2> QED
    BY <1>7, <2>1, <2>2 DEF Same
<1>14. ASSUME NEW p \in Proc, BreadTest(p) PROVE Store!Next \/ UNCHANGED Store!vars
  <2>1. /\ UNCHANGED <<buf, disk, want, cur>> /\ pc[p] = "bread"
        /\ pc' = [pc EXCEPT ![p] = IF "VALID" \in buf[cur[p]].flags THEN "held" ELSE "iderw"]
    BY <1>14 DEF BreadTest, At, Goto, cachevars, idevars
  <2>2. cur[p] \in Buf /\ want[p] \in Block /\ pc[p] \in Holding
    BY <1>3, <2>1 DEF Holding
  <2>3. \A k \in Block : View(k)' = View(k)
    BY <2>1, ViewsStay DEF Same
  <2>4. CASE "VALID" \in buf[cur[p]].flags
    <3>1. Using(want[p]) = {}
      <4>1. p \notin Using(want[p])
        BY <2>1 DEF Using
      <4> QED
        BY <2>2, <4>1, OneUser DEF Using
    <3>2. \A q \in Proc : q # p => (InUse(q)' <=> InUse(q))
      BY <1>2, <2>1 DEF InUse
    <3>3. InUse(p)' /\ ~InUse(p)
      BY <1>2, <2>1, <2>4 DEF InUse
    <3>4. \A k \in Block : Using(k) = {q \in Proc : want[q] = k /\ InUse(q)}
      BY DEF Using, InUse
    <3>5. \A k \in Block : Using(k)' = {q \in Proc : want[q] = k /\ InUse(q)'}
      BY <2>1 DEF Using, InUse
    <3> HIDE DEF InUse
    <3>6. PICK k \in Block : k = want[p]
      BY <2>2
    <3>7. Using(k) = {}
      BY <3>1, <3>6
    <3>8. Using(k)' = {p}
      BY <3>2, <3>3, <3>4, <3>5, <3>6, <3>7
    <3>9. \A i \in Block : i # k => Using(i)' = Using(i)
      BY <3>2, <3>3, <3>4, <3>5, <3>6
    <3> QED
      BY <2>3, <3>7, <3>8, <3>9, StepGet
  <2>5. CASE "VALID" \notin buf[cur[p]].flags
    <3>1. "DIRTY" \notin buf[cur[p]].flags
      BY <1>1, <2>2, <2>5 DEF FlagsKnown
    <3>2. \A q \in Proc : InUse(q)' <=> InUse(q)
      BY <1>2, <2>1, <2>5, <3>1 DEF InUse
    <3> QED
      BY <2>1, <2>3, <3>2, NoStep, UsersStay
  <2> QED
    BY <2>4, <2>5
<1>15. ASSUME NEW p \in Proc, LogWrite(p) PROVE Store!Next
  <2>1. PICK d \in Data :
           buf' = [buf EXCEPT ![cur[p]].data = d, ![cur[p]].flags = @ \cup {"DIRTY"}]
    BY <1>15, Zenon DEF LogWrite
  <2>2. pc[p] = "held" /\ UNCHANGED <<disk, want, cur>> /\ UNCHANGED pc
    BY <1>15 DEF LogWrite, At, Goto, idevars, procvars
  <2>3. cur[p] \in Buf /\ want[p] \in Block /\ pc[p] \in Holding /\ buf[cur[p]].block = want[p]
    BY <1>3, <2>2 DEF Holding
  <2>4. /\ buf'[cur[p]].block = want[p]
        /\ buf'[cur[p]].flags = buf[cur[p]].flags \cup {"DIRTY"}
        /\ buf'[cur[p]].data = d
        /\ \A a \in Buf : a # cur[p] => buf'[a] = buf[a]
    BY <1>2, <2>1, <2>3, Modified
  <2>5. \A q \in Proc : InUse(q)' <=> InUse(q)
    <3>1. InUse(p) /\ InUse(p)'
      BY <1>2, <2>2, <2>4 DEF InUse
    <3>2. ASSUME NEW q \in Proc, q # p, pc[q] \in Holding PROVE InUse(q)' <=> InUse(q)
      <4>1. cur[q] # cur[p] /\ cur[q] \in Buf
        BY <1>3, <1>5, <2>3, <3>2
      <4> QED
        BY <1>2, <2>2, <2>4, <3>2, <4>1 DEF InUse
    <3>3. ASSUME NEW q \in Proc, q # p, pc[q] \notin Holding PROVE InUse(q)' <=> InUse(q)
      BY <1>2, <2>2, <3>3 DEF InUse, Holding
    <3> QED
      BY <3>1, <3>2, <3>3
  <2>5a. PICK i \in Block : i = want[p]
    BY <2>3
  <2>6. View(i)' = d
    <3>1. buf'[cur[p]].block = i /\ buf'[cur[p]].flags # {}
      BY <2>4, <2>5a
    <3> QED
      BY <1>4, <2>3, <2>4, <3>1 DEF Viewed
  <2>7. ASSUME NEW k \in Block, k # i PROVE View(k)' = View(k)
    <3>1. \A a \in Buf : buf[a].block = k => buf'[a] = buf[a]
      BY <2>3, <2>4, <2>5a, <2>7
    <3>2. \A a \in Buf : buf'[a].block = k => buf'[a] = buf[a]
      BY <2>3, <2>4, <2>5a, <2>7
    <3>3. CASE \E a \in Buf : buf[a].block = k /\ buf[a].flags # {}
      BY <1>4, <3>1, <3>3 DEF Viewed
    <3>4. CASE ~\E a \in Buf : buf[a].block = k /\ buf[a].flags # {}
      <4>1. View(k) = disk[k]
        BY <1>4, <3>4 DEF Viewed
      <4>2. View(k)' = disk'[k]
        BY <1>4, <3>2, <3>4 DEF Viewed
      <4> QED
        BY <2>2, <4>1, <4>2
    <3> QED
      BY <3>3, <3>4
  <2>8. Using(i) = {p}
    <3>1. p \in Using(want[p])
      BY <2>2 DEF Using
    <3>2. Using(want[p]) = {p}
      BY <2>3, <3>1, OneUser DEF Using
    <3> QED
      BY <2>5a, <3>2
  <2>9. \A k \in Block : Using(k)' = Using(k)
    BY <2>2, <2>5, UsersStay
  <2> QED
    BY <2>6, <2>7, <2>8, <2>9, StepChange
<1>16. ASSUME NEW p \in Proc, Bwrite(p) PROVE Store!Next
  <2>1. PICK d \in Data :
           buf' = [buf EXCEPT ![cur[p]].data = d, ![cur[p]].flags = @ \cup {"DIRTY"}]
    BY <1>16, Zenon DEF Bwrite
  <2>2. pc[p] = "held" /\ UNCHANGED <<disk, want, cur>> /\ pc' = [pc EXCEPT ![p] = "iderw"]
    BY <1>16 DEF Bwrite, At, Goto, idevars, procvars
  <2>3. cur[p] \in Buf /\ want[p] \in Block /\ pc[p] \in Holding /\ buf[cur[p]].block = want[p]
    BY <1>3, <2>2 DEF Holding
  <2>4. /\ buf'[cur[p]].block = want[p]
        /\ buf'[cur[p]].flags = buf[cur[p]].flags \cup {"DIRTY"}
        /\ buf'[cur[p]].data = d
        /\ \A a \in Buf : a # cur[p] => buf'[a] = buf[a]
    BY <1>2, <2>1, <2>3, Modified
  <2>5. \A q \in Proc : InUse(q)' <=> InUse(q)
    <3>1. InUse(p) /\ InUse(p)'
      BY <1>2, <2>2, <2>4 DEF InUse
    <3>2. ASSUME NEW q \in Proc, q # p, pc[q] \in Holding PROVE InUse(q)' <=> InUse(q)
      <4>1. cur[q] # cur[p] /\ cur[q] \in Buf
        BY <1>3, <1>5, <2>3, <3>2
      <4> QED
        BY <1>2, <2>2, <2>4, <3>2, <4>1 DEF InUse
    <3>3. ASSUME NEW q \in Proc, q # p, pc[q] \notin Holding PROVE InUse(q)' <=> InUse(q)
      BY <1>2, <2>2, <3>3 DEF InUse, Holding
    <3> QED
      BY <3>1, <3>2, <3>3
  <2>5a. PICK i \in Block : i = want[p]
    BY <2>3
  <2>6. View(i)' = d
    <3>1. buf'[cur[p]].block = i /\ buf'[cur[p]].flags # {}
      BY <2>4, <2>5a
    <3> QED
      BY <1>4, <2>3, <2>4, <3>1 DEF Viewed
  <2>7. ASSUME NEW k \in Block, k # i PROVE View(k)' = View(k)
    <3>1. \A a \in Buf : buf[a].block = k => buf'[a] = buf[a]
      BY <2>3, <2>4, <2>5a, <2>7
    <3>2. \A a \in Buf : buf'[a].block = k => buf'[a] = buf[a]
      BY <2>3, <2>4, <2>5a, <2>7
    <3>3. CASE \E a \in Buf : buf[a].block = k /\ buf[a].flags # {}
      BY <1>4, <3>1, <3>3 DEF Viewed
    <3>4. CASE ~\E a \in Buf : buf[a].block = k /\ buf[a].flags # {}
      <4>1. View(k) = disk[k]
        BY <1>4, <3>4 DEF Viewed
      <4>2. View(k)' = disk'[k]
        BY <1>4, <3>2, <3>4 DEF Viewed
      <4> QED
        BY <2>2, <4>1, <4>2
    <3> QED
      BY <3>3, <3>4
  <2>8. Using(i) = {p}
    <3>1. p \in Using(want[p])
      BY <2>2 DEF Using
    <3>2. Using(want[p]) = {p}
      BY <2>3, <3>1, OneUser DEF Using
    <3> QED
      BY <2>5a, <3>2
  <2>9. \A k \in Block : Using(k)' = Using(k)
    BY <2>2, <2>5, UsersStay
  <2> QED
    BY <2>6, <2>7, <2>8, <2>9, StepChange
<1>17. ASSUME NEW p \in Proc, Brelse(p) PROVE Store!Next
  <2>1. /\ pc[p] = "held" /\ UNCHANGED <<buf, disk, want, cur>>
        /\ pc' = [q \in Proc |-> CASE q = p -> "unref"
                                   [] q # p /\ pc[q] = "locksleep" /\ cur[q] = cur[p] -> "lock"
                                   [] OTHER -> pc[q]]
    BY <1>17 DEF Brelse, At, WakeLock, idevars
  <2>2. want[p] \in Block /\ pc[p] \in Holding
    BY <1>3, <2>1 DEF Holding
  <2>3. \A q \in Proc : q # p => (InUse(q)' <=> InUse(q))
    BY <1>2, <2>1 DEF InUse
  <2>4. InUse(p) /\ ~InUse(p)'
    BY <1>2, <2>1 DEF InUse
  <2>5. \A k \in Block : Using(k) = {q \in Proc : want[q] = k /\ InUse(q)}
    BY DEF Using, InUse
  <2>6. \A k \in Block : Using(k)' = {q \in Proc : want[q] = k /\ InUse(q)'}
    BY <2>1 DEF Using, InUse
  <2>7. Using(want[p]) = {p}
    BY <2>2, <2>4, <2>5, OneUser
  <2>8. PICK k \in Block : k = want[p]
    BY <2>2
  <2> HIDE DEF InUse
  <2>9. Using(k) = {p}
    BY <2>7, <2>8
  <2>10. Using(k)' = {}
    BY <2>3, <2>4, <2>5, <2>6, <2>8, <2>9
  <2>11. \A i \in Block : i # k => Using(i)' = Using(i)
    BY <2>3, <2>4, <2>5, <2>6, <2>8
  <2>12. \A i \in Block : View(i)' = View(i)
    BY <2>1, ViewsStay DEF Same
  <2> QED
    BY <2>9, <2>10, <2>11, <2>12, StepPut
<1>18. ASSUME NEW p \in Proc, Unref(p) PROVE UNCHANGED Store!vars
  <2>1. /\ UNCHANGED disk /\ pc[p] = "unref" /\ pc' = [pc EXCEPT ![p] = "idle"]
        /\ cur' = [cur EXCEPT ![p] = None] /\ want' = [want EXCEPT ![p] = None]
        /\ buf' = [buf EXCEPT ![cur[p]].refcnt = buf[cur[p]].refcnt - 1]
    BY <1>18 DEF Unref, At, Goto, idevars
  <2>2. \A a \in Buf : Same(a)
    BY <1>2, <2>1 DEF BufType, Same
  <2>3. \A q \in Proc : q # p => cur'[q] = cur[q] /\ want'[q] = want[q] /\ pc'[q] = pc[q]
    BY <1>2, <2>1
  <2>4. ASSUME NEW q \in Proc
        PROVE  \/ ~InUse(q) /\ ~InUse(q)'
               \/ InUse(q) /\ InUse(q)' /\ want'[q] = want[q]
    <3>1. CASE q = p
      BY <1>2, <2>1, <3>1 DEF InUse
    <3>2. CASE q # p /\ pc[q] \in Holding
      <4>1. cur[q] \in Buf
        BY <1>3, <3>2
      <4> QED
        BY <2>2, <2>3, <3>2, <4>1 DEF InUse, Same
    <3>3. CASE q # p /\ pc[q] \notin Holding
      BY <2>3, <3>3 DEF InUse, Holding
    <3> QED
      BY <3>1, <3>2, <3>3
  <2> QED
    BY <1>7, <2>1, <2>2, <2>4
<1>19. ASSUME NEW p \in Proc, IderwRetest(p) PROVE UNCHANGED Store!vars
  <2>1. /\ UNCHANGED <<buf, disk, want, cur>>
        /\ pc[p] = "iowake"
        /\ pc' = [pc EXCEPT ![p] = IF buf[cur[p]].flags = {"VALID"} THEN "held" ELSE "iosleep"]
    BY <1>19 DEF IderwRetest, At, Goto, cachevars, idevars
  <2>2. CASE buf[cur[p]].flags = {"VALID"}
    <3>1. \A q \in Proc : InUse(q)' <=> InUse(q)
      BY <1>2, <2>1, <2>2 DEF InUse
    <3> QED
      BY <1>7, <2>1, <3>1 DEF Same
  <2>3. CASE buf[cur[p]].flags # {"VALID"}
    <3>1. \A q \in Proc : InUse(q)' <=> InUse(q)
      BY <1>2, <2>1, <2>3 DEF InUse
    <3> QED
      BY <1>7, <2>1, <3>1 DEF Same
  <2> QED
    BY <2>2, <2>3
<1>20. ASSUME NEW p \in Proc, Kill(p) PROVE UNCHANGED Store!vars
  <2>1. /\ UNCHANGED <<buf, disk, want, cur>>
        /\ \/ pc[p] = "locksleep" /\ pc' = [pc EXCEPT ![p] = "lock"]
           \/ /\ pc[p] = "iosleep" /\ pc' = [pc EXCEPT ![p] = "iowake"]
              /\ buf[cur[p]].flags # {"VALID"}
    BY <1>1, <1>20 DEF Kill, At, Goto, FlagsKnown, cachevars, idevars
  <2>2. \A q \in Proc : InUse(q)' <=> InUse(q)
    BY <1>2, <2>1 DEF InUse
  <2> QED
    BY <1>7, <2>1, <2>2 DEF Same
<1>21. CASE Controller
  <2>1. /\ UNCHANGED <<buf, pc, want, cur>> /\ ctl # None
        /\ disk' = IF ctl.data = None THEN disk ELSE [disk EXCEPT ![ctl.block] = ctl.data]
    BY <1>21 DEF Controller, cachevars, procvars
  <2>2. /\ ctl = Command(Head(idequeue)) /\ Head(idequeue) \in Buf
        /\ ctl.block \in Block /\ disk \in [Block -> Data]
    BY <1>1, <2>1, Sharing DEF CommandKept, TypeOK
  <2>3. ASSUME NEW k \in Block PROVE View(k)' = View(k)
    <3>1. CASE \E a \in Buf : buf[a].block = k /\ buf[a].flags # {}
      BY <1>4, <2>1, <3>1 DEF Viewed
    <3>2. CASE ~\E a \in Buf : buf[a].block = k /\ buf[a].flags # {}
      <4>1. ctl.data # None => ctl.block # k
        BY <2>2, <3>2 DEF Command
      <4>2. disk'[k] = disk[k]
        BY <2>1, <2>2, <4>1
      <4> QED
        BY <1>4, <2>1, <3>2, <4>2 DEF Viewed
    <3> QED
      BY <3>1, <3>2
  <2>4. \A q \in Proc : InUse(q)' <=> InUse(q)
    BY <2>1 DEF InUse
  <2> QED
    BY <2>1, <2>3, <2>4, NoStep, UsersStay
<1>22. CASE Ideintr
  <2> DEFINE b == Head(idequeue)
             d == IF "DIRTY" \in buf[b].flags THEN buf[b].data ELSE disk[ctl.block]
  <2>1. /\ UNCHANGED <<disk, want, cur>> /\ irq
        /\ buf' = [buf EXCEPT ![b].flags = {"VALID"}, ![b].data = d]
        /\ pc' = [r \in Proc |-> IF pc[r] = "iosleep" /\ cur[r] = b THEN "iowake" ELSE pc[r]]
    BY <1>22 DEF Ideintr
  <2>2. ctl = Command(b) /\ idequeue # <<>>
    BY <1>1, <2>1 DEF CommandKept
  <2>3. PICK q \in Proc : cur[q] = b /\ Queued(q)
    BY <2>2, Sharing
  <2>4. b \in Buf /\ want[q] \in Block /\ buf[b].block = want[q] /\ pc[q] \in Holding
    BY <1>3, <2>3 DEF Queued, Holding
  <2>5. ctl.block = want[q]
    BY <2>2, <2>4 DEF Command
  <2>6. disk[want[q]] \in Data /\ buf[b].data \in Data
    BY <1>1, <1>2, <2>4 DEF TypeOK, BufType
  <2>7. d \in Data
    BY <2>5, <2>6
  <2>8. /\ pc' = [pc EXCEPT ![q] = "iowake"]
        /\ \A r \in Proc : r # q /\ pc[r] \in Holding => cur[r] # b
    <3>1. \A r \in Proc : r # q /\ pc[r] \in Holding => cur[r] # b
      BY <1>5, <2>3, <2>4
    <3>2. \A r \in Proc : pc[r] = "iosleep" /\ cur[r] = b => r = q
      BY <3>1 DEF Holding
    <3> QED
      BY <1>2, <2>1, <2>3, <3>1, <3>2 DEF Queued
  <2>9. d = IF "DIRTY" \in buf[b].flags THEN buf[b].data ELSE disk[want[q]]
    BY <2>5
  <2> HIDE DEF b, d
  <2>10. /\ buf'[b].block = want[q]
         /\ buf'[b].flags = {"VALID"}
         /\ buf'[b].data = d
         /\ \A a \in Buf : a # b => buf'[a] = buf[a]
    <3>1. buf' = [buf EXCEPT ![b].flags = {"VALID"}, ![b].data = d]
      BY <2>1
    <3>2. buf \in BufType /\ b \in Buf /\ d \in Data
      BY <1>2, <2>4, <2>7
    <3> QED
      BY <2>4, <3>1, <3>2, DoneIn
  <2>11. ASSUME NEW k \in Block PROVE View(k)' = View(k)
    <3>1. CASE k = want[q]
      <4>1. View(k)' = d
        BY <1>4, <2>4, <2>10, <3>1 DEF Viewed
      <4>2. CASE "DIRTY" \in buf[b].flags
        BY <1>4, <2>4, <2>9, <3>1, <4>1, <4>2 DEF Viewed
      <4>3. CASE "DIRTY" \notin buf[b].flags
        <5>1. buf[b].flags = {}
          <6>1. buf[b].flags \subseteq {"VALID", "DIRTY"}
            BY <1>2, <2>4 DEF BufType, Flags
          <6>2. buf[b].flags # {"VALID"}
            BY <2>3 DEF Queued
          <6> QED
            BY <4>3, <6>1, <6>2
        <5>2. View(k) = disk[k]
          BY <1>1, <1>4, <1>6, <2>4, <3>1, <5>1 DEF Viewed, OneCopy
        <5> QED
          BY <2>9, <3>1, <4>1, <4>3, <5>2
      <4> QED
        BY <4>2, <4>3
    <3>2. CASE k # want[q]
      <4>1. \A a \in Buf : buf[a].block = k => buf'[a] = buf[a]
        BY <2>4, <2>10, <3>2
      <4>2. \A a \in Buf : buf'[a].block = k => buf'[a] = buf[a]
        BY <2>4, <2>10, <3>2
      <4>3. CASE \E a \in Buf : buf[a].block = k /\ buf[a].flags # {}
        BY <1>4, <4>1, <4>3 DEF Viewed
      <4>4. CASE ~\E a \in Buf : buf[a].block = k /\ buf[a].flags # {}
        <5>1. View(k) = disk[k]
          BY <1>4, <4>4 DEF Viewed
        <5>2. View(k)' = disk'[k]
          BY <1>4, <4>2, <4>4 DEF Viewed
        <5> QED
          BY <2>1, <5>1, <5>2
      <4> QED
        BY <4>3, <4>4
    <3> QED
      BY <3>1, <3>2
  <2>12. ASSUME NEW r \in Proc, r # q PROVE InUse(r)' <=> InUse(r)
    <3>1. pc'[r] = pc[r] /\ cur'[r] = cur[r]
      BY <1>2, <2>1, <2>8, <2>12
    <3>2. CASE pc[r] \in Holding
      <4>1. cur[r] # b /\ cur[r] \in Buf
        BY <1>3, <2>8, <2>12, <3>2
      <4> QED
        BY <2>10, <3>1, <4>1 DEF InUse
    <3>3. CASE pc[r] \notin Holding
      BY <3>1, <3>3 DEF InUse, Holding
    <3> QED
      BY <3>2, <3>3
  <2>13. InUse(q)'
    BY <1>2, <2>1, <2>3, <2>8, <2>10 DEF InUse
  <2>14. CASE InUse(q)
    BY <2>1, <2>11, <2>12, <2>13, <2>14, NoStep, UsersStay
  <2>15. CASE ~InUse(q)
    <3>1. \A k \in Block : Using(k) = {r \in Proc : want[r] = k /\ InUse(r)}
      BY DEF Using, InUse
    <3>2. \A k \in Block : Using(k)' = {r \in Proc : want[r] = k /\ InUse(r)'}
      BY <2>1 DEF Using, InUse
    <3>3. Using(want[q]) = {}
      BY <2>4, <2>15, <3>1, OneUser
    <3>4. PICK k \in Block : k = want[q]
      BY <2>4
    <3> HIDE DEF InUse
    <3>5. Using(k) = {}
      BY <3>3, <3>4
    <3>6. Using(k)' = {q}
      BY <2>12, <2>13, <3>1, <3>2, <3>4, <3>5
    <3>7. \A i \in Block : i # k => Using(i)' = Using(i)
      BY <2>12, <2>13, <2>15, <3>1, <3>2, <3>4
    <3> QED
      BY <2>11, <3>5, <3>6, <3>7, StepGet
  <2> QED
    BY <2>14, <2>15
<1>23. ASSUME NEW p \in Proc, BgetPanic(p) PROVE UNCHANGED Store!vars
  <2>1. UNCHANGED <<buf, disk, pc, want, cur>>
    BY <1>23 DEF BgetPanic, cachevars, idevars, procvars
  <2>2. \A q \in Proc : InUse(q)' <=> InUse(q)
    BY <2>1 DEF InUse
  <2> QED
    BY <1>7, <2>1, <2>2 DEF Same
<1>24. CASE UNCHANGED vars
  <2>1. UNCHANGED <<buf, disk, pc, want, cur>>
    BY <1>24 DEF vars, cachevars, idevars, procvars
  <2>2. \A q \in Proc : InUse(q)' <=> InUse(q)
    BY <2>1 DEF InUse
  <2> QED
    BY <1>7, <2>1, <2>2 DEF Same
<1> QED
  BY <1>8, <1>9, <1>10, <1>11, <1>12, <1>13, <1>14, <1>15, <1>16, <1>17, <1>18, <1>19,
     <1>21, <1>22, <1>23, <1>24, <1>20
     DEF Next, ProcStep

\* The buffer cache implements the store of blocks that the head of bio.c promises:
\* one process at a time uses a block, and finds there what the last one left.
THEOREM BcacheImplementsBlockStore == Spec => ImplementsBlockStore
BY InitStore, NextStore, BcacheInvariant, PTL DEF Spec, ImplementsBlockStore, Store!Spec
=============================================================================
