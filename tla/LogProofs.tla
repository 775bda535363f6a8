------------------------------ MODULE LogProofs ------------------------------
(***************************************************************************)
(* Theorems about the write-ahead log of LAB4/log.c, for any finite sets   *)
(* of processes and blocks and any size of the log: IInv is inductive, the *)
(* log commits alone and never has more entries than lh.block has room     *)
(* for, nobody sleeps in begin_op without a reason, an idle log is         *)
(* durable, and, as long as a transaction stays inside the log's blocks,   *)
(* the log is the atomic disk that its calls are promised.                 *)
(***************************************************************************)
EXTENDS Log, TLAPS, FiniteSetTheorems, FunctionTheorems, SequenceTheorems

(***************************************************************************)
(* The inductive invariant, part by part.                                  *)
(***************************************************************************)
\* Before initlog is done there are no calls.
BootAlone == boot # "up" => /\ outstanding = 0 /\ ~committing /\ ~panicked
                            /\ dirty = {}
                            /\ \A p \in Proc : pc[p] = "out"
                            /\ \A b \in Block : locked[b] = None

\* A call's blocks have entries, and there are MAXOPBLOCKS of them at most.
WroteKept == \A p \in Proc :
  /\ IF InOp(p) THEN wrote[p] \subseteq Entries(lh) ELSE wrote[p] = {}
  /\ Cardinality(wrote[p]) <= MAXOPBLOCKS
  /\ \A b \in Block : pc[p] = "append" /\ locked[b] = p =>
        Cardinality(wrote[p] \cup {b}) <= MAXOPBLOCKS

\* The entries and what is reserved for the calls in progress fit into lh.block: a
\* reservation shrinks by every block that its call has logged.
Logged == {x \in Proc \X Block : InOp(x[1]) /\ x[2] \in wrote[x[1]]}
Reserved == Len(lh) + outstanding * MAXOPBLOCKS <= LOGSIZE + Cardinality(Logged)

\* The buffers that are locked belong to calls in log_write, one to each.
LocksHeld ==
  /\ \A b \in Block : locked[b] # None =>
        IF panicked THEN InOp(locked[b]) ELSE pc[locked[b]] = "append"
  /\ \A b, c \in Block : locked[b] # None /\ locked[b] = locked[c] => b = c

Once(s) == \A i, j \in DOMAIN s : s[i] = s[j] => i = j
EntriesOnce == Once(lh) /\ Once(header) /\ Len(header) <= LOGSIZE

\* What is known of the log at each statement of the commit and of the recovery.
Installing == header = lh /\ tail \in 1 .. Len(lh)
CommitKnown == \A p \in Proc :
  /\ pc[p] = "write_log" => header = <<>> /\ tail \in 1 .. Len(lh)
  /\ pc[p] = "write_head" => header = <<>> /\ lh # <<>>
  /\ pc[p] = "install" => Installing /\ dirty \subseteq {lh[i] : i \in tail .. Len(lh)}
  /\ pc[p] = "clear" => header = lh /\ dirty = {}
  /\ pc[p] = "done" => header = <<>> /\ lh = <<>>
BootKnown ==
  /\ boot = "read_head" => lh = <<>>
  /\ boot = "install" => Installing
  /\ boot = "clear" => header = lh
  /\ boot = "up" /\ ~committing => header = <<>> /\ (outstanding = 0 => lh = <<>>)

\* A dirty block has an entry; a clean one that nobody is changing is as on the disk.
DirtyLogged == dirty \subseteq Entries(lh)
Clean == \A b \in Block : b \notin dirty /\ locked[b] = None => View(b) = home[b]

IInv == /\ TypeOK      /\ BootAlone   /\ CommitAlone /\ WroteKept
        /\ Reserved    /\ LocksHeld   /\ EntriesOnce /\ CommitKnown
        /\ BootKnown   /\ DirtyLogged /\ Clean       /\ SleeperHasReason

-----------------------------------------------------------------------------
\* The first boot of a fresh disk (LAB4/log.c:52-63, :117-123).
LEMMA InitIInv == Init => IInv
<1> SUFFICES ASSUME Init PROVE IInv
  OBVIOUS
<1> USE LogAssumption DEF Init
<1>1. TypeOK
  <2>1. committing \in BOOLEAN /\ panicked \in BOOLEAN
    BY Zenon
  <2>2. header \in Seq(Block) /\ lh \in Seq(Block)
    BY EmptySeq
  <2> QED
    BY <2>1, <2>2 DEF TypeOK, Labels
<1>2. lh = <<>> /\ header = <<>> /\ Len(lh) = 0 /\ Len(header) = 0 /\ Entries(lh) = {}
  BY DEF Entries
<1>3. Cardinality({}) = 0
  BY FS_EmptySet
<1>4. BootAlone /\ LocksHeld /\ CommitKnown /\ BootKnown /\ SleeperHasReason
  BY DEF BootAlone, LocksHeld, CommitKnown, BootKnown, SleeperHasReason
<1>5. CommitAlone
  <2>1. {p \in Proc : InOp(p)} = {}
    BY DEF InOp
  <2> QED
    BY <1>3, <2>1 DEF CommitAlone, InCommit, InOp
<1>6. WroteKept
  BY <1>3 DEF WroteKept, InOp
<1>7. Reserved
  <2>1. Logged = {}
    BY DEF Logged, InOp
  <2> QED
    BY <1>2, <1>3, <2>1 DEF Reserved
<1>8. EntriesOnce
  BY <1>2 DEF EntriesOnce, Once
<1>9. DirtyLogged /\ Clean
  BY DEF DirtyLogged, Clean, View
<1> QED
  BY <1>1, <1>4, <1>5, <1>6, <1>7, <1>8, <1>9 DEF IInv

-----------------------------------------------------------------------------
(***************************************************************************)
(* Type correctness.                                                       *)
(***************************************************************************)
\* What bread finds in a block, and what a log block has, is data.
LEMMA ContentsType ==
  ASSUME TypeOK
  PROVE  /\ \A b \in Block : View(b) \in Data
         /\ \A i \in Nat \ {0} : LogBlock(i) \in Data
<1>1. \A b \in Block : View(b) \in Data
  BY DEF TypeOK, View
<1>2. \A i \in Nat \ {0} : LogBlock(i) \in Data
  <2>1. nlog \in Nat /\ logdisk \in [1 .. nlog - 1 -> Data]
    BY LogAssumption DEF TypeOK
  <2> QED
    BY <1>1, <2>1, LogAssumption DEF LogBlock
<1> QED
  BY <1>1, <1>2

\* A call in progress is counted.
LEMMA OpCounted ==
  ASSUME CommitAlone, TypeOK, NEW p \in Proc, InOp(p)
  PROVE  outstanding \in Nat /\ outstanding >= 1 /\ ~committing
<1>1. {q \in Proc : InOp(q)} # {}
  OBVIOUS
<1>2. IsFiniteSet({q \in Proc : InOp(q)})
  BY LogAssumption, FS_Subset
<1>3. outstanding # 0
  BY <1>1, <1>2, FS_EmptySet DEF CommitAlone
<1> QED
  BY <1>3 DEF CommitAlone, TypeOK

\* The types of the two Boolean variables.
LEMMA FlagsType == committing \in BOOLEAN /\ panicked \in BOOLEAN /\ [Next]_vars
                      => committing' \in BOOLEAN /\ panicked' \in BOOLEAN
BY ZenonT(60)
   DEF Next, LogStep, CallEndOp, Boot, CallBeginOp, BeginOp, BeginOpSleep, Kill,
     LogWriteCheck, LogWriteAppend, ReadIn, Recycle, EndOp, EndOpCommit, WriteLog, WriteHead,
     InstallTrans, ClearLog, EndCommit, Crash, ReadHead, RecoverInstall, RecoverClear, log, vars

LEMMA InstallType ==
  ASSUME TypeOK, Installing, InstallBlock
  PROVE  /\ home' \in [Block -> Data]
         /\ cache' \in [Block -> Data \cup {None}]
         /\ dirty' \in SUBSET Block
         /\ tail' \in Nat
<1>1. lh[tail] \in Block /\ tail \in Nat \ {0}
  BY DEF TypeOK, Installing
<1>2. LogBlock(tail) \in Data
  BY <1>1, ContentsType
<1> QED
  BY <1>1, <1>2 DEF TypeOK, InstallBlock

LEMMA NextType == IInv /\ [Next]_vars => TypeOK'
<1> SUFFICES ASSUME IInv, [Next]_vars PROVE TypeOK'
  OBVIOUS
<1>1. TypeOK /\ CommitAlone /\ CommitKnown /\ BootKnown
  BY DEF IInv
<1>2. committing' \in BOOLEAN /\ panicked' \in BOOLEAN
  BY <1>1, FlagsType DEF TypeOK
<1>3. /\ home \in [Block -> Data] /\ header \in Seq(Block)
      /\ logdisk \in [1 .. nlog - 1 -> Data] /\ lh \in Seq(Block) /\ outstanding \in Nat
      /\ cache \in [Block -> Data \cup {None}] /\ dirty \in SUBSET Block
      /\ locked \in [Block -> Proc \cup {None}] /\ pc \in [Proc -> Labels]
      /\ wrote \in [Proc -> SUBSET Block] /\ tail \in Nat
      /\ boot \in {"read_head", "install", "clear", "up"}
  BY <1>1 DEF TypeOK
<1>4. <<>> \in Seq(Block)
  BY EmptySeq
<1>5. \A b \in Block : View(b) \in Data
  BY <1>1, ContentsType
<1>6. ASSUME NEW p \in Proc, CallBeginOp(p) PROVE TypeOK'
  BY <1>2, <1>3, <1>6 DEF CallBeginOp, TypeOK, Goto, Labels, disk, log, bcache
<1>7. ASSUME NEW p \in Proc, BeginOpSleep(p) PROVE TypeOK'
  BY <1>2, <1>3, <1>7 DEF BeginOpSleep, TypeOK, Goto, Labels, disk, log, bcache
<1>8. ASSUME NEW p \in Proc, Kill(p) PROVE TypeOK'
  BY <1>2, <1>3, <1>8 DEF Kill, TypeOK, Goto, Labels, disk, log, bcache
<1>9. ASSUME NEW p \in Proc, BeginOp(p) PROVE TypeOK'
  BY <1>2, <1>3, <1>9 DEF BeginOp, TypeOK, Goto, Labels, disk, log, bcache
<1>10. ASSUME NEW p \in Proc, NEW b \in Block, NEW d \in Data, LogWriteCheck(p, b, d) PROVE TypeOK'
  <2>1. pc' \in [Proc -> Labels]
    BY <1>3, <1>10 DEF LogWriteCheck, Goto, Labels
  <2> QED
    BY <1>2, <1>3, <2>1, <1>10 DEF LogWriteCheck, TypeOK, disk, log
<1>11. ASSUME NEW p \in Proc, NEW b \in Block, LogWriteAppend(p, b) PROVE TypeOK'
  <2>1. lh' \in Seq(Block)
    BY <1>3, <1>11, AppendProperties DEF LogWriteAppend
  <2>2. pc' \in [Proc -> Labels]
    BY <1>3, <1>11 DEF LogWriteAppend, Goto, Labels
  <2> QED
    BY <1>2, <1>3, <2>1, <2>2, <1>11 DEF LogWriteAppend, TypeOK, disk
<1>12. ASSUME NEW b \in Block, ReadIn(b) PROVE TypeOK'
  BY <1>2, <1>3, <1>12 DEF ReadIn, TypeOK, disk, log
<1>13. ASSUME NEW b \in Block, Recycle(b) PROVE TypeOK'
  BY <1>2, <1>3, <1>13 DEF Recycle, TypeOK, disk, log
<1>14. ASSUME NEW p \in Proc, EndOp(p) PROVE TypeOK'
  <2>1. outstanding - 1 \in Nat
    BY <1>1, OpCounted, <1>14 DEF EndOp, InOp
  <2>2. pc' \in [Proc -> Labels]
    BY <1>3, <1>14 DEF EndOp, WakeLog, Labels
  <2> QED
    BY <1>2, <1>3, <2>1, <2>2, <1>14 DEF EndOp, TypeOK, disk, bcache
<1>15. ASSUME NEW p \in Proc, EndOpCommit(p) PROVE TypeOK'
  BY <1>2, <1>3, <1>15 DEF EndOpCommit, TypeOK, Goto, Labels, disk, bcache
<1>16. ASSUME NEW p \in Proc, WriteLog(p) PROVE TypeOK'
  <2>1. lh[tail] \in Block /\ tail \in Nat \ {0}
    BY <1>1, <1>3, <1>16 DEF WriteLog, CommitKnown
  <2>2. WriteLogBlock(View(lh[tail])) /\ View(lh[tail]) \in Data
    BY <1>5, <2>1, <1>16 DEF WriteLog
  <2>3. /\ logdisk' \in [1 .. nlog - 1 -> Data]
        /\ home' \in [Block -> Data]
        /\ cache' \in [Block -> Data \cup {None}]
        /\ dirty' \in SUBSET Block
        /\ locked' \in [Block -> Proc \cup {None}]
    <3>1. nlog \in Nat /\ After \in Block
      BY LogAssumption
    <3>2. CASE tail < nlog
      <4>1. logdisk' = [logdisk EXCEPT ![tail] = View(lh[tail])] /\ UNCHANGED <<home, bcache>>
        BY <2>2, <3>2 DEF WriteLogBlock
      <4>2. logdisk' \in [1 .. nlog - 1 -> Data]
        BY <1>3, <2>2, <4>1
      <4> QED
        BY <1>3, <4>1, <4>2 DEF bcache
    <3>3. CASE ~(tail < nlog)
      <4>1. /\ home' = [home EXCEPT ![After] = View(lh[tail])]
            /\ cache' = [cache EXCEPT ![After] = View(lh[tail])]
            /\ dirty' = dirty \ {After}
            /\ UNCHANGED <<logdisk, locked>>
        BY <2>2, <3>3 DEF WriteLogBlock
      <4>2. home' \in [Block -> Data] /\ cache' \in [Block -> Data \cup {None}]
        BY <1>3, <2>2, <3>1, <4>1
      <4> QED
        BY <1>3, <4>1, <4>2
    <3> QED
      BY <3>2, <3>3
  <2>4. pc' \in [Proc -> Labels] /\ tail' \in Nat
    BY <1>3, <1>16 DEF WriteLog, Goto, Labels
  <2> QED
    BY <1>2, <1>3, <2>3, <2>4, <1>16 DEF WriteLog, TypeOK, log
<1>17. ASSUME NEW p \in Proc, WriteHead(p) PROVE TypeOK'
  BY <1>2, <1>3, <1>17 DEF WriteHead, TypeOK, Goto, Labels, log, bcache
<1>18. ASSUME NEW p \in Proc, InstallTrans(p) PROVE TypeOK'
  <2>1. pc' \in [Proc -> Labels]
    BY <1>3, <1>18 DEF InstallTrans, Goto, Labels
  <2>2. InstallBlock /\ Installing
    BY <1>1, <1>18 DEF InstallTrans, CommitKnown
  <2> QED
    BY <1>1, <1>2, <1>3, <2>1, <2>2, InstallType, <1>18 DEF InstallTrans, TypeOK, log
<1>19. ASSUME NEW p \in Proc, ClearLog(p) PROVE TypeOK'
  BY <1>2, <1>3, <1>4, <1>19 DEF ClearLog, TypeOK, Goto, WakeLog, Labels, disk, bcache
<1>20. ASSUME NEW p \in Proc, EndCommit(p) PROVE TypeOK'
  BY <1>2, <1>3, <1>4, <1>20 DEF EndCommit, TypeOK, Goto, WakeLog, Labels, disk, bcache
<1>21. CASE Crash
  BY <1>2, <1>3, <1>4, <1>21 DEF Crash, TypeOK, Labels, disk
<1>22. CASE ReadHead
  BY <1>2, <1>3, <1>22 DEF ReadHead, TypeOK, disk, bcache
<1>23. CASE RecoverInstall
  <2>1. InstallBlock /\ Installing
    BY <1>1, <1>23 DEF RecoverInstall, BootKnown
  <2> QED
    BY <1>1, <1>2, <1>3, <2>1, InstallType, <1>23 DEF RecoverInstall, TypeOK, log
<1>24. CASE RecoverClear
  BY <1>2, <1>3, <1>4, <1>24 DEF RecoverClear, TypeOK, bcache
<1>25. CASE UNCHANGED vars
  BY <1>3, <1>25, <1>2 DEF TypeOK, vars, disk, log, bcache
<1> QED
  BY <1>6, <1>7, <1>8, <1>9, <1>10, <1>11, <1>12, <1>13, <1>14, <1>15, <1>16, <1>17, <1>18,
     <1>19, <1>20, <1>21, <1>22, <1>23, <1>24, <1>25
     DEF Next, LogStep, CallEndOp, Boot

-----------------------------------------------------------------------------
(***************************************************************************)
(* The calls in progress and the commit.                                   *)
(***************************************************************************)
One(b) == IF b THEN 1 ELSE 0

\* A finite set counts the same, one more or one less when one element moves.
LEMMA OneMoves ==
  ASSUME NEW S, NEW T, IsFiniteSet(S), IsFiniteSet(T), NEW x,
         \A y : y # x => (y \in S <=> y \in T)
  PROVE  /\ Cardinality(S) \in Nat
         /\ Cardinality(T) \in Nat
         /\ Cardinality(T) + One(x \in S) = Cardinality(S) + One(x \in T)
<1>1. (x \in T => T = S \cup {x}) /\ (x \notin T => T = S \ {x})
  OBVIOUS
<1>2. Cardinality(S \cup {x}) = IF x \in S THEN Cardinality(S) ELSE Cardinality(S) + 1
  BY FS_AddElement
<1>3. Cardinality(S \ {x}) = IF x \in S THEN Cardinality(S) - 1 ELSE Cardinality(S)
  BY FS_RemoveElement
<1>4. Cardinality(S) \in Nat /\ Cardinality(T) \in Nat
  BY FS_CardinalityType
<1>5. CASE x \in T
  <2>1. Cardinality(T) = Cardinality(S \cup {x})
    BY <1>1, <1>5
  <2> QED
    BY <1>2, <1>4, <1>5, <2>1 DEF One
<1>6. CASE x \notin T
  <2>1. Cardinality(T) = Cardinality(S \ {x})
    BY <1>1, <1>6
  <2> QED
    BY <1>3, <1>4, <1>6, <2>1 DEF One
<1> QED
  BY <1>5, <1>6

Ops == {p \in Proc : InOp(p)}

\* One process begins or ends a call.
LEMMA OpsMove ==
  ASSUME NEW p \in Proc, \A q \in Proc : q # p => (InOp(q)' <=> InOp(q))
  PROVE  /\ Cardinality(Ops) \in Nat
         /\ Cardinality(Ops)' \in Nat
         /\ Cardinality(Ops)' + One(InOp(p)) = Cardinality(Ops) + One(InOp(p)')
<1>1. /\ \A y : y # p => (y \in Ops <=> y \in Ops')
      /\ p \in Ops <=> InOp(p)
      /\ p \in Ops' <=> InOp(p)'
  BY DEF Ops
<1>2. IsFiniteSet(Ops) /\ IsFiniteSet(Ops')
  BY LogAssumption, FS_Subset DEF Ops
<1>3. /\ Cardinality(Ops) \in Nat
      /\ Cardinality(Ops') \in Nat
      /\ Cardinality(Ops') + One(p \in Ops) = Cardinality(Ops) + One(p \in Ops')
  BY <1>1, <1>2, OneMoves
<1> QED
  BY <1>1, <1>3 DEF One

\* No process begins or ends a call or a commit.
CallsStay == \A q \in Proc : (InOp(q)' <=> InOp(q)) /\ (InCommit(q)' <=> InCommit(q))

LEMMA AloneStays ==
  ASSUME CommitAlone, CallsStay, UNCHANGED <<outstanding, committing>>
  PROVE  CommitAlone'
<1>1. {p \in Proc : InOp(p)}' = {p \in Proc : InOp(p)}
  BY DEF CallsStay
<1>2. \A p, q \in Proc : InCommit(p)' => ~InOp(q)' /\ (InCommit(q)' => p = q)
  BY DEF CommitAlone, CallsStay
<1>3. committing' <=> \E p \in Proc : InCommit(p)'
  BY Zenon DEF CommitAlone, CallsStay
<1> QED
  BY <1>1, <1>2, <1>3 DEF CommitAlone

\* A reservation more.
LEMMA Products ==
  \A n \in Nat : /\ n * MAXOPBLOCKS \in Nat
                 /\ (n + 1) * MAXOPBLOCKS = n * MAXOPBLOCKS + MAXOPBLOCKS
BY LogAssumption

\* A process goes on to sleep as long as the log does not become roomier.
LEMMA ReasonStays ==
  ASSUME TypeOK, TypeOK', SleeperHasReason, UNCHANGED committing,
         \A q \in Proc : pc'[q] = "sleep" => pc[q] = "sleep",
         Len(lh') >= Len(lh), outstanding' \in {outstanding, outstanding + 1}
  PROVE  SleeperHasReason'
<1>1. /\ Len(lh) \in Nat /\ Len(lh') \in Nat /\ outstanding \in Nat
      /\ MAXOPBLOCKS \in Nat /\ LOGSIZE \in Nat
  BY LogAssumption DEF TypeOK
<1>2. (outstanding' + 1) * MAXOPBLOCKS >= (outstanding + 1) * MAXOPBLOCKS
      /\ (outstanding' + 1) * MAXOPBLOCKS \in Nat /\ (outstanding + 1) * MAXOPBLOCKS \in Nat
  <2>1. \A n \in Nat : /\ n * MAXOPBLOCKS \in Nat
                       /\ (n + 1) * MAXOPBLOCKS = n * MAXOPBLOCKS + MAXOPBLOCKS
    BY Products
  <2>2. outstanding + 1 \in Nat /\ outstanding + 1 + 1 \in Nat
    BY <1>1
  <2>3. CASE outstanding' = outstanding
    BY <1>1, <2>1, <2>2, <2>3
  <2>4. CASE outstanding' = outstanding + 1
    <3>1. (outstanding + 1 + 1) * MAXOPBLOCKS = (outstanding + 1) * MAXOPBLOCKS + MAXOPBLOCKS
      BY <2>1, <2>2
    <3> QED
      BY <1>1, <2>1, <2>2, <2>4, <3>1
  <2> QED
    BY <2>3, <2>4
<1>3. NoSpace => NoSpace'
  BY <1>1, <1>2 DEF NoSpace
<1> QED
  BY <1>3 DEF SleeperHasReason

LEMMA NextAlone ==
  IInv /\ TypeOK' /\ [Next]_vars => BootAlone' /\ CommitAlone' /\ SleeperHasReason'
<1> SUFFICES ASSUME IInv, TypeOK', [Next]_vars
             PROVE  BootAlone' /\ CommitAlone' /\ SleeperHasReason'
  OBVIOUS
<1>1. TypeOK /\ BootAlone /\ CommitAlone /\ SleeperHasReason /\ BootKnown
  BY DEF IInv
<1>2. pc \in [Proc -> Labels] /\ outstanding \in Nat /\ lh \in Seq(Block) /\ Len(lh) \in Nat
  BY <1>1 DEF TypeOK
<1>3. ASSUME Running, boot' = boot PROVE BootAlone'
  BY <1>3 DEF Running, BootAlone
<1>4. \A p \in Proc : InOp(p) => outstanding >= 1 /\ ~committing
  BY <1>1, OpCounted
<1>5. \A p \in Proc : InCommit(p) => committing /\ \A q \in Proc : q # p => ~InCommit(q)
  BY <1>1 DEF CommitAlone
<1>6. outstanding = Cardinality(Ops)
  BY <1>1 DEF CommitAlone, Ops
<1>7. UNCHANGED <<pc, outstanding, committing>> => CallsStay
  BY DEF CallsStay, InOp, InCommit
<1>8. ASSUME NEW p \in Proc, CallBeginOp(p)
      PROVE  BootAlone' /\ CommitAlone' /\ SleeperHasReason'
  <2>1. /\ Running /\ boot' = boot /\ UNCHANGED <<lh, outstanding, committing>>
        /\ pc[p] = "out" /\ pc' = [pc EXCEPT ![p] = "begin"]
    BY <1>8 DEF CallBeginOp, Goto, log
  <2>2. CallsStay /\ \A q \in Proc : pc'[q] = "sleep" => pc[q] = "sleep"
    BY <1>2, <2>1 DEF CallsStay, InOp, InCommit
  <2> QED
    BY <1>1, <1>2, <1>3, <2>1, <2>2, AloneStays, ReasonStays
<1>9. ASSUME NEW p \in Proc, BeginOpSleep(p)
      PROVE  BootAlone' /\ CommitAlone' /\ SleeperHasReason'
  <2>1. /\ Running /\ boot' = boot /\ UNCHANGED <<lh, outstanding, committing>>
        /\ pc[p] = "begin" /\ pc' = [pc EXCEPT ![p] = "sleep"]
        /\ committing \/ NoSpace
    BY <1>9 DEF BeginOpSleep, Goto, log
  <2>2. CallsStay
    BY <1>2, <2>1 DEF CallsStay, InOp, InCommit
  <2>3. SleeperHasReason'
    <3>1. committing' \/ NoSpace'
      BY <2>1 DEF NoSpace
    <3> QED
      BY <3>1 DEF SleeperHasReason
  <2> QED
    BY <1>1, <1>3, <2>1, <2>2, <2>3, AloneStays
<1>10. ASSUME NEW p \in Proc, Kill(p)
      PROVE  BootAlone' /\ CommitAlone' /\ SleeperHasReason'
  <2>1. /\ Running /\ boot' = boot /\ UNCHANGED <<lh, outstanding, committing>>
        /\ pc[p] = "sleep" /\ pc' = [pc EXCEPT ![p] = "begin"]
    BY <1>10 DEF Kill, Goto, log
  <2>2. CallsStay /\ \A q \in Proc : pc'[q] = "sleep" => pc[q] = "sleep"
    BY <1>2, <2>1 DEF CallsStay, InOp, InCommit
  <2> QED
    BY <1>1, <1>2, <1>3, <2>1, <2>2, AloneStays, ReasonStays
<1>11. ASSUME NEW p \in Proc, BeginOp(p)
      PROVE  BootAlone' /\ CommitAlone' /\ SleeperHasReason'
  <2>1. /\ Running /\ boot' = boot /\ UNCHANGED <<lh, committing>>
        /\ outstanding' = outstanding + 1 /\ ~committing
        /\ pc[p] = "begin" /\ pc' = [pc EXCEPT ![p] = "op"]
    BY <1>11 DEF BeginOp, Goto
  <2>2. /\ \A q \in Proc : q # p => (InOp(q)' <=> InOp(q))
        /\ ~InOp(p) /\ InOp(p)'
        /\ \A q \in Proc : ~InCommit(q) /\ ~InCommit(q)'
        /\ \A q \in Proc : pc'[q] = "sleep" => pc[q] = "sleep"
    BY <1>2, <1>5, <2>1 DEF InOp, InCommit
  <2>3. Cardinality(Ops)' = Cardinality(Ops) + 1
    BY <2>2, OpsMove DEF One
  <2>4. CommitAlone'
    BY <1>6, <2>1, <2>2, <2>3 DEF CommitAlone, Ops
  <2> QED
    BY <1>1, <1>2, <1>3, <2>1, <2>2, <2>4, ReasonStays
<1>12. ASSUME NEW p \in Proc, NEW b \in Block, NEW d \in Data, LogWriteCheck(p, b, d)
      PROVE  BootAlone' /\ CommitAlone' /\ SleeperHasReason'
  <2>1. /\ Running /\ boot' = boot /\ UNCHANGED <<lh, outstanding, committing>>
        /\ pc[p] = "op" /\ pc' \in {pc, [pc EXCEPT ![p] = "append"]}
    BY <1>12 DEF LogWriteCheck, Goto, log
  <2>2. CallsStay /\ \A q \in Proc : pc'[q] = "sleep" => pc[q] = "sleep"
    BY <1>2, <2>1 DEF CallsStay, InOp, InCommit
  <2> QED
    BY <1>1, <1>2, <1>3, <2>1, <2>2, AloneStays, ReasonStays
<1>13. ASSUME NEW p \in Proc, NEW b \in Block, LogWriteAppend(p, b)
      PROVE  BootAlone' /\ CommitAlone' /\ SleeperHasReason'
  <2>1. /\ Running /\ boot' = boot /\ UNCHANGED <<outstanding, committing>>
        /\ pc[p] = "append" /\ pc' = [pc EXCEPT ![p] = "op"]
        /\ lh' \in {lh, Append(lh, b)}
    BY <1>13 DEF LogWriteAppend, Goto
  <2>2. CallsStay /\ \A q \in Proc : pc'[q] = "sleep" => pc[q] = "sleep"
    BY <1>2, <2>1 DEF CallsStay, InOp, InCommit
  <2>3. Len(lh') >= Len(lh)
    BY <1>2, <2>1, AppendProperties
  <2> QED
    BY <1>1, <1>2, <1>3, <2>1, <2>2, <2>3, AloneStays, ReasonStays
<1>14. ASSUME NEW b \in Block, ReadIn(b)
      PROVE  BootAlone' /\ CommitAlone' /\ SleeperHasReason'
  <2>1. Running /\ boot' = boot /\ UNCHANGED <<lh, outstanding, committing, pc>>
    BY <1>14 DEF ReadIn, log
  <2> QED
    BY <1>1, <1>2, <1>3, <1>7, <2>1, AloneStays, ReasonStays
<1>15. ASSUME NEW b \in Block, Recycle(b)
      PROVE  BootAlone' /\ CommitAlone' /\ SleeperHasReason'
  <2>1. Running /\ boot' = boot /\ UNCHANGED <<lh, outstanding, committing, pc>>
    BY <1>15 DEF Recycle, log
  <2> QED
    BY <1>1, <1>2, <1>3, <1>7, <2>1, AloneStays, ReasonStays
<1>16. ASSUME NEW p \in Proc, EndOp(p)
      PROVE  BootAlone' /\ CommitAlone' /\ SleeperHasReason'
  <2>1. pc[p] = "op" /\ Running
    BY <1>16 DEF EndOp
  <2>2. InOp(p) /\ ~committing
    BY <1>4, <2>1 DEF InOp
  <2>3. /\ boot' = boot /\ UNCHANGED committing /\ outstanding' = outstanding - 1
        /\ pc' = WakeLog([pc EXCEPT ![p] = "out"])
    BY <2>2, <1>16 DEF EndOp
  <2>4. /\ \A q \in Proc : q # p => (InOp(q)' <=> InOp(q))
        /\ ~InOp(p)'
        /\ \A q \in Proc : ~InCommit(q) /\ ~InCommit(q)'
        /\ \A q \in Proc : pc'[q] # "sleep"
    BY <1>2, <1>5, <2>1, <2>2, <2>3 DEF InOp, InCommit, WakeLog
  <2>5. Cardinality(Ops)' = Cardinality(Ops) - 1
    BY <2>2, <2>4, OpsMove DEF One
  <2>6. CommitAlone'
    BY <1>6, <2>2, <2>3, <2>4, <2>5 DEF CommitAlone, Ops
  <2> QED
    BY <1>3, <2>1, <2>3, <2>4, <2>6 DEF SleeperHasReason
<1>17. ASSUME NEW p \in Proc, EndOpCommit(p)
      PROVE  BootAlone' /\ CommitAlone' /\ SleeperHasReason'
  <2>1. /\ Running /\ boot' = boot /\ outstanding = 1 /\ outstanding' = 0
        /\ ~committing /\ committing'
        /\ pc[p] = "op" /\ pc' = [pc EXCEPT ![p] = IF lh = <<>> THEN "done" ELSE "write_log"]
    BY <1>17 DEF EndOpCommit, Goto
  <2>2. InOp(p)
    BY <2>1 DEF InOp
  <2>3. \A q \in Proc : InOp(q) => q = p
    <3>1. IsFiniteSet(Ops)
      BY LogAssumption, FS_Subset DEF Ops
    <3>2. PICK x : Ops = {x}
      BY <1>6, <2>1, <3>1, FS_Singleton
    <3> QED
      BY <2>2, <3>2 DEF Ops
  <2>4. /\ \A q \in Proc : q # p => ~InOp(q) /\ ~InOp(q)'
        /\ ~InOp(p)' /\ InCommit(p)'
        /\ \A q \in Proc : q # p => ~InCommit(q) /\ ~InCommit(q)'
    BY <1>2, <1>5, <2>1, <2>3 DEF InOp, InCommit
  <2>5. Cardinality(Ops)' = 0
    BY <1>6, <2>1, <2>2, <2>4, OpsMove DEF One
  <2>6. CommitAlone'
    BY <2>1, <2>4, <2>5 DEF CommitAlone, Ops
  <2> QED
    BY <1>3, <2>1, <2>6 DEF SleeperHasReason
<1>18. ASSUME NEW p \in Proc, WriteLog(p)
      PROVE  BootAlone' /\ CommitAlone' /\ SleeperHasReason'
  <2>1. /\ Running /\ boot' = boot /\ UNCHANGED <<outstanding, committing>>
        /\ pc[p] = "write_log"
        /\ pc' \in {[pc EXCEPT ![p] = "write_log"], [pc EXCEPT ![p] = "write_head"]}
    BY <1>18 DEF WriteLog, Goto, log
  <2>2. CallsStay /\ committing
    BY <1>2, <1>5, <2>1 DEF CallsStay, InOp, InCommit
  <2> QED
    BY <1>1, <1>3, <2>1, <2>2, AloneStays DEF SleeperHasReason
<1>19. ASSUME NEW p \in Proc, WriteHead(p)
      PROVE  BootAlone' /\ CommitAlone' /\ SleeperHasReason'
  <2>1. /\ Running /\ boot' = boot /\ UNCHANGED <<outstanding, committing>>
        /\ pc[p] = "write_head" /\ pc' = [pc EXCEPT ![p] = "install"]
    BY <1>19 DEF WriteHead, Goto, log
  <2>2. CallsStay /\ committing
    BY <1>2, <1>5, <2>1 DEF CallsStay, InOp, InCommit
  <2> QED
    BY <1>1, <1>3, <2>1, <2>2, AloneStays DEF SleeperHasReason
<1>20. ASSUME NEW p \in Proc, InstallTrans(p)
      PROVE  BootAlone' /\ CommitAlone' /\ SleeperHasReason'
  <2>1. /\ Running /\ boot' = boot /\ UNCHANGED <<outstanding, committing>>
        /\ pc[p] = "install" /\ pc' \in {[pc EXCEPT ![p] = "install"], [pc EXCEPT ![p] = "clear"]}
    BY <1>20 DEF InstallTrans, Goto, log
  <2>2. CallsStay /\ committing
    BY <1>2, <1>5, <2>1 DEF CallsStay, InOp, InCommit
  <2> QED
    BY <1>1, <1>3, <2>1, <2>2, AloneStays DEF SleeperHasReason
<1>21. ASSUME NEW p \in Proc, ClearLog(p)
      PROVE  BootAlone' /\ CommitAlone' /\ SleeperHasReason'
  <2>1. /\ Running /\ boot' = boot /\ UNCHANGED <<outstanding, committing>>
        /\ pc[p] = "clear" /\ pc' = [pc EXCEPT ![p] = "done"]
    BY <1>21 DEF ClearLog, Goto, log
  <2>2. CallsStay /\ committing
    BY <1>2, <1>5, <2>1 DEF CallsStay, InOp, InCommit
  <2> QED
    BY <1>1, <1>3, <2>1, <2>2, AloneStays DEF SleeperHasReason
<1>22. ASSUME NEW p \in Proc, EndCommit(p)
      PROVE  BootAlone' /\ CommitAlone' /\ SleeperHasReason'
  <2>1. /\ Running /\ boot' = boot /\ UNCHANGED outstanding /\ ~committing'
        /\ pc[p] = "done" /\ pc' = WakeLog([pc EXCEPT ![p] = "out"])
    BY <1>22 DEF EndCommit
  <2>2. /\ \A q \in Proc : InOp(q)' <=> InOp(q)
        /\ \A q \in Proc : ~InCommit(q)'
        /\ \A q \in Proc : pc'[q] # "sleep"
    BY <1>2, <1>5, <2>1 DEF InOp, InCommit, WakeLog
  <2>3. {q \in Proc : InOp(q)}' = {q \in Proc : InOp(q)}
    BY <2>2
  <2>4. CommitAlone'
    BY <1>1, <2>1, <2>2, <2>3 DEF CommitAlone
  <2> QED
    BY <1>3, <2>1, <2>2, <2>4 DEF SleeperHasReason
<1>23. CASE Crash
  <2>1. /\ outstanding' = 0 /\ ~committing' /\ ~panicked' /\ dirty' = {}
        /\ locked' = [b \in Block |-> None] /\ pc' = [q \in Proc |-> "out"]
    BY <1>23 DEF Crash
  <2>2. \A q \in Proc : ~InOp(q)' /\ ~InCommit(q)' /\ pc'[q] # "sleep"
    BY <2>1 DEF InOp, InCommit
  <2>3. {q \in Proc : InOp(q)}' = {}
    BY <2>2
  <2>4. CommitAlone'
    BY <2>1, <2>2, <2>3, FS_EmptySet DEF CommitAlone
  <2> QED
    BY <2>1, <2>2, <2>4 DEF BootAlone, SleeperHasReason
<1>24. CASE ReadHead
  <2>1. /\ UNCHANGED <<outstanding, committing, panicked, pc, locked>> /\ boot # "up"
        /\ dirty' = dirty \/ dirty' = dirty \ {lh[tail]}
    BY <1>24 DEF ReadHead, InstallBlock, log, bcache
  <2>2. BootAlone'
    BY <1>1, <2>1 DEF BootAlone
  <2>3. SleeperHasReason'
    BY <1>1, <2>1 DEF BootAlone, SleeperHasReason
  <2> QED
    BY <1>1, <1>7, <2>1, <2>2, <2>3, AloneStays
<1>25. CASE RecoverInstall
  <2>1. /\ UNCHANGED <<outstanding, committing, panicked, pc, locked>> /\ boot # "up"
        /\ dirty' = dirty \/ dirty' = dirty \ {lh[tail]}
    BY <1>25 DEF RecoverInstall, InstallBlock, log, bcache
  <2>2. BootAlone'
    BY <1>1, <2>1 DEF BootAlone
  <2>3. SleeperHasReason'
    BY <1>1, <2>1 DEF BootAlone, SleeperHasReason
  <2> QED
    BY <1>1, <1>7, <2>1, <2>2, <2>3, AloneStays
<1>26. CASE RecoverClear
  <2>1. /\ UNCHANGED <<outstanding, committing, panicked, pc, locked>> /\ boot # "up"
        /\ dirty' = dirty \/ dirty' = dirty \ {lh[tail]}
    BY <1>26 DEF RecoverClear, InstallBlock, log, bcache
  <2>2. BootAlone'
    BY <1>1, <2>1 DEF BootAlone
  <2>3. SleeperHasReason'
    BY <1>1, <2>1 DEF BootAlone, SleeperHasReason
  <2> QED
    BY <1>1, <1>7, <2>1, <2>2, <2>3, AloneStays
<1>27. CASE UNCHANGED vars
  <2>1. UNCHANGED <<boot, outstanding, committing, panicked, pc, locked, dirty, lh>>
    BY <1>27 DEF vars, log, bcache
  <2>2. BootAlone'
    BY <1>1, <2>1 DEF BootAlone
  <2>3. SleeperHasReason'
    BY <1>1, <2>1 DEF SleeperHasReason, NoSpace
  <2> QED
    BY <1>1, <1>7, <2>1, <2>2, <2>3, AloneStays
<1> QED
  BY <1>8, <1>9, <1>10, <1>11, <1>12, <1>13, <1>14, <1>15, <1>16, <1>17, <1>18, <1>19, <1>20,
     <1>21, <1>22, <1>23, <1>24, <1>25, <1>26, <1>27
     DEF Next, LogStep, CallEndOp, Boot

-----------------------------------------------------------------------------
(***************************************************************************)
(* The entries, and the reservations of the calls in progress.             *)
(***************************************************************************)
LEMMA LoggedFinite == IsFiniteSet(Logged) /\ IsFiniteSet(Logged') /\ IsFiniteSet(Ops)
<1>1. IsFiniteSet(Proc \X Block)
  BY LogAssumption, FS_Product
<1>2. Logged \in SUBSET (Proc \X Block) /\ Logged' \in SUBSET (Proc \X Block)
  BY DEF Logged
<1>3. Ops \in SUBSET Proc
  BY DEF Ops
<1> QED
  BY <1>1, <1>2, <1>3, LogAssumption, FS_Subset

\* The calls have logged no more than they may: the entries fit.
LEMMA EntriesFit ==
  ASSUME IInv
  PROVE  Len(lh) <= LOGSIZE
<1>1. TypeOK /\ CommitAlone /\ WroteKept /\ Reserved
  BY DEF IInv
<1> DEFINE Room == Ops \X (1 .. MAXOPBLOCKS)
           g(p) == CHOOSE h : h \in Bijection(wrote[p], 1 .. Cardinality(wrote[p]))
           f == [x \in Logged |-> <<x[1], g(x[1])[x[2]]>>]
<1>2. IsFiniteSet(Room) /\ Cardinality(Room) = outstanding * MAXOPBLOCKS
  <2>1. IsFiniteSet(1 .. MAXOPBLOCKS) /\ Cardinality(1 .. MAXOPBLOCKS) = MAXOPBLOCKS
    BY LogAssumption, FS_Interval
  <2>2. IsFiniteSet(Ops) /\ Cardinality(Ops) = outstanding
    BY <1>1, LoggedFinite DEF Ops, CommitAlone
  <2> QED
    BY <2>1, <2>2, FS_Product
<1>3. ASSUME NEW p \in Proc
      PROVE  /\ g(p) \in Bijection(wrote[p], 1 .. Cardinality(wrote[p]))
             /\ Cardinality(wrote[p]) \in 0 .. MAXOPBLOCKS
  <2>1. wrote[p] \in SUBSET Block
    BY <1>1 DEF TypeOK
  <2>2. IsFiniteSet(wrote[p])
    BY <2>1, LogAssumption, FS_Subset
  <2>3. /\ ExistsBijection(1 .. Cardinality(wrote[p]), wrote[p])
        /\ Cardinality(wrote[p]) \in Nat
    BY <2>2, FS_CardinalityType
  <2>4. ExistsBijection(wrote[p], 1 .. Cardinality(wrote[p]))
    BY <2>3, Fun_ExistsBijSymmetric
  <2>5. \E h : h \in Bijection(wrote[p], 1 .. Cardinality(wrote[p]))
    BY <2>4 DEF ExistsBijection
  <2>6. g(p) \in Bijection(wrote[p], 1 .. Cardinality(wrote[p]))
    BY <2>5, Zenon
  <2> QED
    BY <1>1, <2>3, <2>6, LogAssumption DEF WroteKept
<1> HIDE DEF g
<1>4. ASSUME NEW p \in Proc, NEW b \in wrote[p]
      PROVE  /\ g(p)[b] \in 1 .. MAXOPBLOCKS
             /\ \A c \in wrote[p] : g(p)[b] = g(p)[c] => b = c
  <2>1. /\ g(p) \in [wrote[p] -> 1 .. Cardinality(wrote[p])]
        /\ \A x, y \in wrote[p] : g(p)[x] = g(p)[y] => x = y
    BY <1>3 DEF Bijection, Injection, Surjection, IsInjective
  <2>2. MAXOPBLOCKS \in Nat
    BY LogAssumption
  <2> QED
    BY <1>3, <2>1, <2>2
<1>5. \A x \in Logged : /\ x[1] \in Proc /\ x[2] \in wrote[x[1]] /\ x = <<x[1], x[2]>>
                        /\ x[1] \in Ops
  BY DEF Logged, Ops
<1>6. f \in [Logged -> Room]
  BY <1>4, <1>5
<1>7. ASSUME NEW x \in Logged, NEW y \in Logged, f[x] = f[y] PROVE x = y
  <2>1. x[1] = y[1] /\ g(x[1])[x[2]] = g(x[1])[y[2]]
    BY <1>7
  <2>2. x[2] = y[2]
    BY <1>4, <1>5, <2>1
  <2> QED
    BY <1>5, <2>1, <2>2
<1> HIDE DEF f, Room
<1>8. f \in Injection(Logged, Room)
  BY <1>6, <1>7 DEF Injection, IsInjective
<1>9. Cardinality(Logged) <= outstanding * MAXOPBLOCKS
  BY <1>2, <1>8, FS_Injection
<1>10. /\ Cardinality(Logged) \in Nat /\ outstanding * MAXOPBLOCKS \in Nat
       /\ Len(lh) \in Nat /\ LOGSIZE \in Nat
  BY <1>1, LoggedFinite, FS_CardinalityType, Products, LogAssumption DEF TypeOK
<1> QED
  BY <1>1, <1>9, <1>10 DEF Reserved

\* A sequence with one more entry.
LEMMA AppendOnce ==
  ASSUME NEW s \in Seq(Block), NEW b \in Block
  PROVE  /\ Entries(Append(s, b)) = Entries(s) \cup {b}
         /\ Once(s) /\ b \notin Entries(s) => Once(Append(s, b))
         /\ Len(Append(s, b)) = Len(s) + 1 /\ Len(s) \in Nat
<1>1. /\ Append(s, b) \in Seq(Block) /\ Len(Append(s, b)) = Len(s) + 1
      /\ \A i \in 1 .. Len(s) : Append(s, b)[i] = s[i]
      /\ Append(s, b)[Len(s) + 1] = b
      /\ Len(s) \in Nat /\ DOMAIN s = 1 .. Len(s)
      /\ DOMAIN Append(s, b) = 1 .. Len(s) + 1
  BY AppendProperties
<1> DEFINE t == Append(s, b)
<1> HIDE DEF t
<1>2. Entries(t) = Entries(s) \cup {b}
  <2>1. \A i \in DOMAIN t : t[i] \in Entries(s) \cup {b}
    <3> SUFFICES ASSUME NEW i \in DOMAIN t PROVE t[i] \in Entries(s) \cup {b}
      OBVIOUS
    <3>1. i \in 1 .. Len(s) \/ i = Len(s) + 1
      BY <1>1 DEF t
    <3> QED
      BY <1>1, <3>1 DEF Entries, t
  <2>2. \A i \in DOMAIN s : i \in DOMAIN t /\ t[i] = s[i]
    BY <1>1 DEF t
  <2>3. Len(s) + 1 \in DOMAIN t /\ t[Len(s) + 1] = b
    BY <1>1 DEF t
  <2> QED
    BY <2>1, <2>2, <2>3 DEF Entries
<1>3. ASSUME Once(s), b \notin Entries(s), NEW i \in DOMAIN t, NEW j \in DOMAIN t, t[i] = t[j]
      PROVE  i = j
  <2>1. /\ i \in DOMAIN s \/ i = Len(s) + 1
        /\ j \in DOMAIN s \/ j = Len(s) + 1
    BY <1>1 DEF t
  <2>2. /\ i \in DOMAIN s => t[i] = s[i]
        /\ j \in DOMAIN s => t[j] = s[j]
        /\ i = Len(s) + 1 => t[i] = b
        /\ j = Len(s) + 1 => t[j] = b
    BY <1>1 DEF t
  <2>3. \A k \in DOMAIN s : s[k] # b
    BY <1>3 DEF Entries
  <2> QED
    BY <1>3, <2>1, <2>2, <2>3 DEF Once
<1> QED
  BY <1>1, <1>2, <1>3 DEF Once, t

\* No process begins or ends a call or logs a block, and the entries get no more.
LEMMA SpaceStays ==
  ASSUME Reserved, \A q \in Proc : InOp(q)' <=> InOp(q), UNCHANGED <<wrote, outstanding>>,
         Len(lh) \in Nat, Len(lh') \in Nat, Len(lh') <= Len(lh), outstanding \in Nat
  PROVE  Reserved'
<1>1. Logged' = Logged
  BY DEF Logged
<1>2. /\ Cardinality(Logged) \in Nat /\ outstanding * MAXOPBLOCKS \in Nat /\ LOGSIZE \in Nat
  BY LoggedFinite, FS_CardinalityType, Products, LogAssumption
<1> QED
  BY <1>1, <1>2 DEF Reserved

LEMMA WroteStays ==
  ASSUME WroteKept, \A q \in Proc : InOp(q)' <=> InOp(q), UNCHANGED wrote,
         \A q \in Proc : InOp(q) => Entries(lh) \subseteq Entries(lh'),
         \A q \in Proc, b \in Block : pc'[q] = "append" /\ locked'[b] = q
            => pc[q] = "append" /\ locked[b] = q
  PROVE  WroteKept'
BY DEF WroteKept

LEMMA LocksStay ==
  ASSUME LocksHeld, UNCHANGED locked, ~panicked, ~panicked',
         \A q \in Proc : pc[q] = "append" => pc'[q] = "append",
         \A b \in Block : locked[b] \in Proc \cup {None}
  PROVE  LocksHeld'
BY DEF LocksHeld

LEMMA WroteNone ==
  ASSUME \A q \in Proc : ~InOp(q)' /\ wrote'[q] = {} /\ pc'[q] # "append"
  PROVE  WroteKept'
<1>1. Cardinality({}) <= MAXOPBLOCKS
  BY FS_EmptySet, LogAssumption
<1>2. ASSUME NEW q \in Proc
      PROVE  /\ IF InOp(q)' THEN wrote'[q] \subseteq Entries(lh') ELSE wrote'[q] = {}
             /\ Cardinality(wrote'[q]) <= MAXOPBLOCKS
             /\ \A b \in Block : pc'[q] = "append" /\ locked'[b] = q =>
                   Cardinality(wrote'[q] \cup {b}) <= MAXOPBLOCKS
  BY <1>1
<1> QED
  BY <1>2 DEF WroteKept

LEMMA LocksNone ==
  ASSUME \A b \in Block : locked'[b] = None
  PROVE  LocksHeld'
BY DEF LocksHeld

LEMMA NextSpace ==
  IInv /\ TypeOK' /\ [Next]_vars => WroteKept' /\ Reserved' /\ LocksHeld' /\ EntriesOnce'
<1> SUFFICES ASSUME IInv, TypeOK', [Next]_vars
             PROVE  WroteKept' /\ Reserved' /\ LocksHeld' /\ EntriesOnce'
  OBVIOUS
<1>1. /\ TypeOK /\ BootAlone /\ CommitAlone /\ WroteKept /\ Reserved /\ LocksHeld
      /\ EntriesOnce /\ BootKnown
  BY DEF IInv
<1>2. /\ pc \in [Proc -> Labels] /\ outstanding \in Nat /\ lh \in Seq(Block)
      /\ locked \in [Block -> Proc \cup {None}] /\ wrote \in [Proc -> SUBSET Block]
  BY <1>1 DEF TypeOK
<1>3. Len(lh) \in Nat /\ Len(lh') \in Nat /\ MAXOPBLOCKS \in Nat /\ LOGSIZE \in Nat
  BY LogAssumption DEF TypeOK, IInv
<1>4. \A p \in Proc : InOp(p) => outstanding >= 1 /\ ~committing
  BY <1>1, OpCounted
<1>5. \A p \in Proc : InCommit(p) => \A q \in Proc : ~InOp(q) /\ (q # p => ~InCommit(q))
  BY <1>1 DEF CommitAlone
<1>6. /\ Cardinality(Logged) \in Nat /\ Cardinality(Logged)' \in Nat
      /\ \A n \in Nat : /\ n * MAXOPBLOCKS \in Nat
                        /\ (n + 1) * MAXOPBLOCKS = n * MAXOPBLOCKS + MAXOPBLOCKS
  BY LoggedFinite, FS_CardinalityType, Products
<1>7. \A b \in Block : locked[b] \in Proc \cup {None}
  BY <1>2
<1>8. UNCHANGED <<lh, header>> => EntriesOnce'
  BY <1>1 DEF EntriesOnce
<1>9. Len(<<>>) = 0 /\ Once(<<>>) /\ Entries(<<>>) = {}
  BY DEF Once, Entries
<1>10. Len(lh) <= LOGSIZE
  BY EntriesFit
<1>11. ASSUME NEW p \in Proc, CallBeginOp(p)
      PROVE  WroteKept' /\ Reserved' /\ LocksHeld' /\ EntriesOnce'
  <2>1. /\ ~panicked /\ UNCHANGED <<panicked, lh, header, outstanding, locked, wrote>>
        /\ pc[p] = "out" /\ pc' = [pc EXCEPT ![p] = "begin"]
    BY <1>11 DEF CallBeginOp, Goto, log, disk, bcache, Running
  <2>2. /\ \A q \in Proc : InOp(q)' <=> InOp(q)
        /\ \A q \in Proc : pc'[q] = "append" <=> pc[q] = "append"
    BY <1>2, <2>1 DEF InOp
  <2> QED
    BY <1>1, <1>2, <1>3, <1>7, <1>8, <2>1, <2>2, SpaceStays, WroteStays, LocksStay
<1>12. ASSUME NEW p \in Proc, BeginOpSleep(p)
      PROVE  WroteKept' /\ Reserved' /\ LocksHeld' /\ EntriesOnce'
  <2>1. /\ ~panicked /\ UNCHANGED <<panicked, lh, header, outstanding, locked, wrote>>
        /\ pc[p] = "begin" /\ pc' = [pc EXCEPT ![p] = "sleep"]
    BY <1>12 DEF BeginOpSleep, Goto, log, disk, bcache, Running
  <2>2. /\ \A q \in Proc : InOp(q)' <=> InOp(q)
        /\ \A q \in Proc : pc'[q] = "append" <=> pc[q] = "append"
    BY <1>2, <2>1 DEF InOp
  <2> QED
    BY <1>1, <1>2, <1>3, <1>7, <1>8, <2>1, <2>2, SpaceStays, WroteStays, LocksStay
<1>13. ASSUME NEW p \in Proc, Kill(p)
      PROVE  WroteKept' /\ Reserved' /\ LocksHeld' /\ EntriesOnce'
  <2>1. /\ ~panicked /\ UNCHANGED <<panicked, lh, header, outstanding, locked, wrote>>
        /\ pc[p] = "sleep" /\ pc' = [pc EXCEPT ![p] = "begin"]
    BY <1>13 DEF Kill, Goto, log, disk, bcache, Running
  <2>2. /\ \A q \in Proc : InOp(q)' <=> InOp(q)
        /\ \A q \in Proc : pc'[q] = "append" <=> pc[q] = "append"
    BY <1>2, <2>1 DEF InOp
  <2> QED
    BY <1>1, <1>2, <1>3, <1>7, <1>8, <2>1, <2>2, SpaceStays, WroteStays, LocksStay
<1>14. ASSUME NEW p \in Proc, BeginOp(p)
      PROVE  WroteKept' /\ Reserved' /\ LocksHeld' /\ EntriesOnce'
  <2>1. /\ ~panicked /\ UNCHANGED <<panicked, lh, header, locked, wrote>>
        /\ ~NoSpace /\ outstanding' = outstanding + 1
        /\ pc[p] = "begin" /\ pc' = [pc EXCEPT ![p] = "op"]
    BY <1>14 DEF BeginOp, Goto, disk, bcache, Running
  <2>2. /\ \A q \in Proc : q # p => (InOp(q)' <=> InOp(q))
        /\ ~InOp(p) /\ InOp(p)'
        /\ \A q \in Proc : pc'[q] = "append" <=> pc[q] = "append"
    BY <1>2, <2>1 DEF InOp
  <2>3. WroteKept'
    BY <1>1, <2>1, <2>2 DEF WroteKept
  <2>4. Reserved'
    <3>1. Len(lh) + outstanding' * MAXOPBLOCKS <= LOGSIZE /\ outstanding' * MAXOPBLOCKS \in Nat
      <4>1. outstanding + 1 \in Nat
        BY <1>2
      <4>2. (outstanding + 1) * MAXOPBLOCKS \in Nat
        BY <1>6, <4>1
      <4> QED
        BY <1>3, <2>1, <4>2 DEF NoSpace
    <3> QED
      BY <1>3, <1>6, <2>1, <3>1 DEF Reserved
  <2> QED
    BY <1>1, <1>7, <1>8, <2>1, <2>2, <2>3, <2>4, LocksStay
<1>15. ASSUME NEW p \in Proc, NEW b \in Block, NEW d \in Data, LogWriteCheck(p, b, d)
      PROVE  WroteKept' /\ Reserved' /\ LocksHeld' /\ EntriesOnce'
  <2>1. /\ ~panicked /\ UNCHANGED <<lh, header, outstanding, wrote>>
        /\ pc[p] = "op" /\ locked[b] = None /\ locked' = [locked EXCEPT ![b] = p]
        /\ Cardinality(wrote[p] \cup {b}) <= MAXOPBLOCKS
        /\ \/ panicked' /\ pc' = pc
           \/ ~panicked' /\ pc' = [pc EXCEPT ![p] = "append"]
    BY <1>15 DEF LogWriteCheck, Goto, log, disk, Running
  <2>2. /\ \A q \in Proc : InOp(q)' <=> InOp(q)
        /\ \A q \in Proc : q # p => (pc'[q] = "append" <=> pc[q] = "append")
        /\ InOp(p)
    BY <1>2, <2>1 DEF InOp
  <2>3. \A c \in Block : locked[c] # p
    BY <1>1, <2>1, LogAssumption DEF LocksHeld
  <2>4. WroteKept'
    <3>1. \A c \in Block : locked'[c] = p => c = b
      BY <1>2, <2>1, <2>3
    <3>2. \A q \in Proc, c \in Block : q # p /\ locked'[c] = q => locked[c] = q
      BY <1>2, <2>1
    <3> QED
      BY <1>1, <2>1, <2>2, <3>1, <3>2 DEF WroteKept
  <2>5. LocksHeld'
    <3>1. ASSUME NEW c \in Block, locked'[c] # None
          PROVE  IF panicked' THEN pc'[locked'[c]] \in {"op", "append"}
                              ELSE pc'[locked'[c]] = "append"
      <4>1. CASE c = b
        <5>1. locked'[c] = p
          BY <1>2, <2>1, <4>1
        <5>2. pc'[p] \in {"op", "append"} /\ (~panicked' => pc'[p] = "append")
          BY <1>2, <2>1
        <5> QED
          BY <5>1, <5>2
      <4>2. CASE c # b
        <5>1. locked'[c] = locked[c] /\ locked[c] # p /\ locked[c] \in Proc
          BY <1>2, <2>1, <2>3, <3>1, <4>2
        <5>2. pc[locked[c]] = "append"
          BY <1>1, <2>1, <3>1, <5>1 DEF LocksHeld
        <5>3. pc'[locked[c]] = "append"
          BY <1>2, <2>1, <5>1, <5>2
        <5> QED
          BY <5>1, <5>3
      <4> QED
        BY <4>1, <4>2
    <3>2. \A c, e \in Block : locked'[c] # None /\ locked'[c] = locked'[e] => c = e
      BY <1>1, <1>2, <2>1, <2>3 DEF LocksHeld
    <3> QED
      BY <3>1, <3>2 DEF LocksHeld, InOp
  <2> QED
    BY <1>1, <1>2, <1>3, <1>8, <2>1, <2>2, <2>4, <2>5, SpaceStays
<1>16. ASSUME NEW p \in Proc, NEW b \in Block, LogWriteAppend(p, b)
      PROVE  WroteKept' /\ Reserved' /\ LocksHeld' /\ EntriesOnce'
  <2>1. /\ ~panicked /\ UNCHANGED <<panicked, header, outstanding>>
        /\ pc[p] = "append" /\ pc' = [pc EXCEPT ![p] = "op"]
        /\ locked[b] = p /\ locked' = [locked EXCEPT ![b] = None]
        /\ wrote' = [wrote EXCEPT ![p] = wrote[p] \cup {b}]
        /\ lh' = IF b \in Entries(lh) THEN lh ELSE Append(lh, b)
    BY <1>16 DEF LogWriteAppend, Goto, disk, Running
  <2>2. /\ \A q \in Proc : InOp(q)' <=> InOp(q)
        /\ \A q \in Proc : pc'[q] = "append" <=> pc[q] = "append" /\ q # p
        /\ InOp(p)
    BY <1>2, <2>1 DEF InOp
  <2>3. /\ Entries(lh') = Entries(lh) \cup {b}
        /\ Once(lh')
        /\ Len(lh') = IF b \in Entries(lh) THEN Len(lh) ELSE Len(lh) + 1
    BY <1>1, <1>2, <2>1, AppendOnce DEF EntriesOnce
  <2>4. /\ wrote'[p] = wrote[p] \cup {b}
        /\ \A q \in Proc : q # p => wrote'[q] = wrote[q]
        /\ locked'[b] = None
        /\ \A c \in Block : c # b => locked'[c] = locked[c]
    BY <1>2, <2>1
  <2>5. WroteKept'
    <3>1. wrote'[p] \subseteq Entries(lh') /\ Cardinality(wrote'[p]) <= MAXOPBLOCKS
      BY <1>1, <2>1, <2>2, <2>3, <2>4 DEF WroteKept
    <3>2. \A q \in Proc, c \in Block : pc'[q] = "append" /\ locked'[c] = q
             => q # p /\ pc[q] = "append" /\ locked[c] = q
      BY <2>1, <2>2, <2>4, LogAssumption
    <3>3. ASSUME NEW q \in Proc
          PROVE  /\ IF InOp(q)' THEN wrote'[q] \subseteq Entries(lh') ELSE wrote'[q] = {}
                 /\ Cardinality(wrote'[q]) <= MAXOPBLOCKS
      BY <1>1, <2>2, <2>3, <2>4, <3>1 DEF WroteKept
    <3>4. ASSUME NEW q \in Proc, NEW c \in Block, pc'[q] = "append", locked'[c] = q
          PROVE  Cardinality(wrote'[q] \cup {c}) <= MAXOPBLOCKS
      BY <1>1, <2>4, <3>2, <3>4 DEF WroteKept
    <3> QED
      BY <3>3, <3>4 DEF WroteKept
  <2>6. Reserved'
    <3>1. \A y : y # <<p, b>> => (y \in Logged <=> y \in Logged')
      <4>1. ASSUME NEW q \in Proc, NEW c \in Block, <<q, c>> # <<p, b>>
            PROVE  InOp(q) /\ c \in wrote[q] <=> InOp(q)' /\ c \in wrote'[q]
        BY <2>2, <2>4, <4>1
      <4> QED
        BY <4>1 DEF Logged
    <3>2. <<p, b>> \in Logged'
      BY <2>2, <2>4 DEF Logged
    <3>3. b \notin Entries(lh) => <<p, b>> \notin Logged
      BY <1>1, <2>2 DEF Logged, WroteKept
    <3>4. Cardinality(Logged') + One(<<p, b>> \in Logged)
            = Cardinality(Logged) + One(<<p, b>> \in Logged')
      BY <3>1, LoggedFinite, OneMoves
    <3>5. Cardinality(Logged') >= Cardinality(Logged) + (IF b \in Entries(lh) THEN 0 ELSE 1)
      BY <1>6, <3>2, <3>3, <3>4 DEF One
    <3>6. outstanding * MAXOPBLOCKS \in Nat
      BY <1>2, <1>6
    <3> QED
      BY <1>1, <1>3, <1>6, <2>1, <2>3, <3>5, <3>6 DEF Reserved
  <2>7. LocksHeld'
    <3>1. \A c \in Block : locked'[c] # None => c # b /\ locked'[c] = locked[c] /\ locked[c] # p
      BY <1>1, <2>1, <2>4, LogAssumption DEF LocksHeld
    <3>2. ASSUME NEW c \in Block, locked'[c] # None PROVE pc'[locked'[c]] = "append"
      BY <1>1, <1>7, <2>1, <2>2, <3>1, <3>2 DEF LocksHeld
    <3> QED
      BY <1>1, <2>1, <3>1, <3>2 DEF LocksHeld
  <2> QED
    BY <1>1, <2>1, <2>3, <2>5, <2>6, <2>7 DEF EntriesOnce
<1>17. ASSUME NEW b \in Block, ReadIn(b)
      PROVE  WroteKept' /\ Reserved' /\ LocksHeld' /\ EntriesOnce'
  <2>1. ~panicked /\ UNCHANGED <<panicked, lh, header, outstanding, locked, wrote, pc>>
    BY <1>17 DEF ReadIn, log, disk, Running
  <2>2. \A q \in Proc : InOp(q)' <=> InOp(q)
    BY <2>1 DEF InOp
  <2> QED
    BY <1>1, <1>2, <1>3, <1>7, <1>8, <2>1, <2>2, SpaceStays, WroteStays, LocksStay
<1>18. ASSUME NEW b \in Block, Recycle(b)
      PROVE  WroteKept' /\ Reserved' /\ LocksHeld' /\ EntriesOnce'
  <2>1. ~panicked /\ UNCHANGED <<panicked, lh, header, outstanding, locked, wrote, pc>>
    BY <1>18 DEF Recycle, log, disk, Running
  <2>2. \A q \in Proc : InOp(q)' <=> InOp(q)
    BY <2>1 DEF InOp
  <2> QED
    BY <1>1, <1>2, <1>3, <1>7, <1>8, <2>1, <2>2, SpaceStays, WroteStays, LocksStay
<1>19. ASSUME NEW p \in Proc, EndOp(p)
      PROVE  WroteKept' /\ Reserved' /\ LocksHeld' /\ EntriesOnce'
  <2>1. pc[p] = "op" /\ ~panicked
    BY <1>19 DEF EndOp, Running
  <2>2. InOp(p) /\ ~committing /\ outstanding >= 1
    BY <1>4, <2>1 DEF InOp
  <2>3. /\ UNCHANGED <<lh, header, locked>> /\ outstanding' = outstanding - 1
        /\ ~panicked' /\ wrote' = [wrote EXCEPT ![p] = {}]
        /\ pc' = WakeLog([pc EXCEPT ![p] = "out"])
    BY <2>1, <2>2, <1>19 DEF EndOp, disk, bcache
  <2>4. /\ \A q \in Proc : q # p => (InOp(q)' <=> InOp(q))
        /\ ~InOp(p)'
        /\ \A q \in Proc : pc'[q] = "append" <=> pc[q] = "append"
    BY <1>2, <2>1, <2>3 DEF InOp, WakeLog
  <2>5. wrote'[p] = {} /\ \A q \in Proc : q # p => wrote'[q] = wrote[q]
    BY <1>2, <2>3
  <2>6. WroteKept'
    <3>1. \A q \in Proc : q # p /\ InOp(q) => wrote[q] \subseteq Entries(lh)
      BY <1>1 DEF WroteKept
    <3>2. \A q \in Proc : q # p /\ ~InOp(q) => wrote[q] = {}
      BY <1>1 DEF WroteKept
    <3>3. Cardinality(wrote'[p]) <= MAXOPBLOCKS
      BY <1>3, <2>5, FS_EmptySet
    <3>4. pc'[p] # "append"
      BY <2>1, <2>4
    <3> QED
      BY <1>1, <2>3, <2>4, <2>5, <3>1, <3>2, <3>3, <3>4 DEF WroteKept
  <2>7. Reserved'
    <3> DEFINE W == {p} \X wrote[p]
    <3>1. IsFiniteSet(W) /\ Cardinality(W) \in 0 .. MAXOPBLOCKS
      <4>1. wrote[p] \in SUBSET Block
        BY <1>2
      <4>2. IsFiniteSet(wrote[p]) /\ Cardinality(wrote[p]) \in Nat
        BY <4>1, LogAssumption, FS_Subset, FS_CardinalityType
      <4>3. IsFiniteSet({p}) /\ Cardinality({p}) = 1
        BY FS_Singleton
      <4>4. IsFiniteSet(W) /\ Cardinality(W) = Cardinality({p}) * Cardinality(wrote[p])
        BY <4>2, <4>3, FS_Product
      <4>5. Cardinality(wrote[p]) <= MAXOPBLOCKS
        BY <1>1 DEF WroteKept
      <4> HIDE DEF W
      <4> QED
        BY <1>3, <4>2, <4>3, <4>4, <4>5
    <3>2. Logged \subseteq Logged' \cup W
      <4> SUFFICES ASSUME NEW x \in Logged, x \notin W PROVE x \in Logged'
        OBVIOUS
      <4>1. x \in Proc \X Block /\ InOp(x[1]) /\ x[2] \in wrote[x[1]]
        BY DEF Logged
      <4>2. x[1] # p
        BY <4>1
      <4> HIDE DEF W
      <4> QED
        BY <2>4, <2>5, <4>1, <4>2 DEF Logged
    <3> HIDE DEF W
    <3>3. /\ IsFiniteSet(Logged' \cup W) /\ Cardinality(Logged' \cup W) \in Nat
          /\ Cardinality(Logged' \cup W) <= Cardinality(Logged') + Cardinality(W)
      <4>1. /\ IsFiniteSet(Logged' \cup W)
            /\ Cardinality(Logged' \cup W)
                 = Cardinality(Logged') + Cardinality(W) - Cardinality(Logged' \cap W)
        BY <3>1, LoggedFinite, FS_Union
      <4>2. IsFiniteSet(Logged' \cap W)
        BY LoggedFinite, FS_Intersection
      <4>3. /\ Cardinality(Logged' \cap W) \in Nat /\ Cardinality(Logged' \cup W) \in Nat
            /\ Cardinality(Logged') \in Nat
        BY <4>1, <4>2, LoggedFinite, FS_CardinalityType
      <4> QED
        BY <3>1, <4>1, <4>3
    <3>4. Cardinality(Logged) <= Cardinality(Logged' \cup W)
      BY <3>2, <3>3, FS_Subset
    <3>5. outstanding * MAXOPBLOCKS = outstanding' * MAXOPBLOCKS + MAXOPBLOCKS
          /\ outstanding' * MAXOPBLOCKS \in Nat
      <4>1. outstanding' \in Nat /\ outstanding = outstanding' + 1
        BY <1>2, <2>2, <2>3
      <4> QED
        BY <1>6, <4>1
    <3>6. lh' = lh
      BY <2>3
    <3>7. Len(lh) + outstanding * MAXOPBLOCKS <= LOGSIZE + Cardinality(Logged)
      BY <1>1 DEF Reserved
    <3>8. Len(lh') + outstanding' * MAXOPBLOCKS <= LOGSIZE + Cardinality(Logged')
      BY <1>3, <1>6, <3>1, <3>3, <3>4, <3>5, <3>6, <3>7
    <3> QED
      BY <3>8 DEF Reserved
  <2> QED
    BY <1>1, <1>7, <1>8, <2>1, <2>3, <2>4, <2>6, <2>7, LocksStay
<1>20. ASSUME NEW p \in Proc, EndOpCommit(p)
      PROVE  WroteKept' /\ Reserved' /\ LocksHeld' /\ EntriesOnce'
  <2>1. /\ ~panicked /\ UNCHANGED <<panicked, lh, header, locked>>
        /\ outstanding = 1 /\ outstanding' = 0 /\ wrote' = [wrote EXCEPT ![p] = {}]
        /\ pc[p] = "op" /\ pc' = [pc EXCEPT ![p] = IF lh = <<>> THEN "done" ELSE "write_log"]
    BY <1>20 DEF EndOpCommit, Goto, disk, bcache, Running
  <2>2. \A q \in Proc : InOp(q) => q = p
    <3>1. Ops # {} /\ Cardinality(Ops) = 1
      BY <1>1, <2>1 DEF Ops, CommitAlone, InOp
    <3>2. PICK x : Ops = {x}
      BY <3>1, LoggedFinite, FS_Singleton
    <3> QED
      BY <2>1, <3>2 DEF Ops, InOp
  <2>3. /\ \A q \in Proc : ~InOp(q)' /\ pc'[q] # "append"
        /\ \A q \in Proc : pc[q] # "append"
        /\ \A q \in Proc : wrote'[q] = {}
    BY <1>1, <1>2, <2>1, <2>2 DEF InOp, WroteKept
  <2>4. WroteKept'
    BY <2>3, WroteNone
  <2>5. Reserved'
    BY <1>3, <1>6, <1>10, <2>1 DEF Reserved
  <2> QED
    BY <1>1, <1>7, <1>8, <2>1, <2>3, <2>4, <2>5, LocksStay
<1>21. ASSUME NEW p \in Proc, WriteLog(p)
      PROVE  WroteKept' /\ Reserved' /\ LocksHeld' /\ EntriesOnce'
  <2>1. /\ ~panicked /\ UNCHANGED <<panicked, lh, header, outstanding, locked, wrote>>
        /\ pc[p] = "write_log"
        /\ pc' \in {[pc EXCEPT ![p] = "write_log"], [pc EXCEPT ![p] = "write_head"]}
    BY <1>21 DEF WriteLog, Goto, WriteLogBlock, disk, bcache, log, Running
  <2>2. /\ \A q \in Proc : ~InOp(q) /\ ~InOp(q)'
        /\ \A q \in Proc : pc[q] # "append" /\ pc'[q] # "append"
    BY <1>2, <1>5, <2>1 DEF InOp, InCommit
  <2> QED
    BY <1>1, <1>2, <1>3, <1>7, <1>8, <2>1, <2>2, SpaceStays, WroteStays, LocksStay
<1>22. ASSUME NEW p \in Proc, WriteHead(p)
      PROVE  WroteKept' /\ Reserved' /\ LocksHeld' /\ EntriesOnce'
  <2>1. /\ ~panicked /\ UNCHANGED <<panicked, lh, outstanding, locked, wrote>>
        /\ pc[p] = "write_head" /\ pc' = [pc EXCEPT ![p] = "install"] /\ header' = lh
    BY <1>22 DEF WriteHead, Goto, WriteLogBlock, disk, bcache, log, Running
  <2>2. /\ \A q \in Proc : ~InOp(q) /\ ~InOp(q)'
        /\ \A q \in Proc : pc[q] # "append" /\ pc'[q] # "append"
    BY <1>2, <1>5, <2>1 DEF InOp, InCommit
  <2>3. EntriesOnce'
    BY <1>1, <1>10, <2>1 DEF EntriesOnce
  <2> QED
    BY <1>1, <1>2, <1>3, <1>7, <2>1, <2>2, <2>3, SpaceStays, WroteStays, LocksStay
<1>23. ASSUME NEW p \in Proc, InstallTrans(p)
      PROVE  WroteKept' /\ Reserved' /\ LocksHeld' /\ EntriesOnce'
  <2>1. /\ ~panicked /\ UNCHANGED <<panicked, lh, header, outstanding, locked, wrote>>
        /\ pc[p] = "install" /\ pc' \in {[pc EXCEPT ![p] = "install"], [pc EXCEPT ![p] = "clear"]}
    BY <1>23 DEF InstallTrans, Goto, WriteLogBlock, disk, bcache, log, Running
  <2>2. /\ \A q \in Proc : ~InOp(q) /\ ~InOp(q)'
        /\ \A q \in Proc : pc[q] # "append" /\ pc'[q] # "append"
    BY <1>2, <1>5, <2>1 DEF InOp, InCommit
  <2> QED
    BY <1>1, <1>2, <1>3, <1>7, <1>8, <2>1, <2>2, SpaceStays, WroteStays, LocksStay
<1>24. ASSUME NEW p \in Proc, ClearLog(p)
      PROVE  WroteKept' /\ Reserved' /\ LocksHeld' /\ EntriesOnce'
  <2>1. /\ ~panicked /\ UNCHANGED <<panicked, outstanding, locked, wrote>>
        /\ pc[p] = "clear" /\ pc' = [pc EXCEPT ![p] = "done"] /\ lh' = <<>> /\ header' = <<>>
    BY <1>24 DEF ClearLog, Goto, WriteLogBlock, disk, bcache, log, Running
  <2>2. /\ \A q \in Proc : ~InOp(q) /\ ~InOp(q)'
        /\ \A q \in Proc : pc[q] # "append" /\ pc'[q] # "append"
    BY <1>2, <1>5, <2>1 DEF InOp, InCommit
  <2>3. EntriesOnce' /\ Len(lh') <= Len(lh)
    BY <1>3, <1>9, <2>1 DEF EntriesOnce
  <2> QED
    BY <1>1, <1>2, <1>3, <1>7, <2>1, <2>2, <2>3, SpaceStays, WroteStays, LocksStay
<1>25. ASSUME NEW p \in Proc, EndCommit(p)
      PROVE  WroteKept' /\ Reserved' /\ LocksHeld' /\ EntriesOnce'
  <2>1. ~panicked /\ UNCHANGED <<panicked, lh, header, outstanding, locked, wrote>>
    BY <1>25 DEF EndCommit, disk, bcache, Running
  <2>2. /\ \A q \in Proc : ~InOp(q) /\ ~InOp(q)'
        /\ \A q \in Proc : pc[q] # "append" /\ pc'[q] # "append"
    <3>1. pc[p] = "done" /\ pc' = WakeLog([pc EXCEPT ![p] = "out"])
      BY <1>25 DEF EndCommit
    <3> QED
      BY <1>2, <1>5, <3>1 DEF InOp, InCommit, WakeLog
  <2> QED
    BY <1>1, <1>2, <1>3, <1>7, <1>8, <2>1, <2>2, SpaceStays, WroteStays, LocksStay
<1>26. CASE Crash
  <2>1. /\ outstanding' = 0 /\ UNCHANGED header /\ lh' = <<>>
        /\ locked' = [b \in Block |-> None] /\ pc' = [q \in Proc |-> "out"]
        /\ wrote' = [q \in Proc |-> {}]
    BY <1>26 DEF Crash, disk
  <2>2. \A q \in Proc : ~InOp(q)' /\ pc'[q] # "append" /\ wrote'[q] = {}
    BY <2>1 DEF InOp
  <2>3. WroteKept'
    BY <2>2, WroteNone
  <2>4. Reserved'
    BY <1>3, <1>6, <1>9, <2>1 DEF Reserved
  <2>5. EntriesOnce'
    BY <1>1, <1>9, <2>1 DEF EntriesOnce
  <2> QED
    BY <2>1, <2>3, <2>4, <2>5, LocksNone
<1>27. CASE ReadHead
  <2>1. /\ UNCHANGED <<header, outstanding, locked, wrote, pc>> /\ boot # "up" /\ lh' = header
    BY <1>27 DEF ReadHead, InstallBlock, disk, log, bcache
  <2>2. /\ \A q \in Proc : ~InOp(q) /\ ~InOp(q)' /\ pc[q] # "append" /\ pc'[q] # "append"
        /\ \A b \in Block : locked'[b] = None
    BY <1>1, <2>1 DEF BootAlone, InOp
  <2>3. outstanding' = 0
    BY <1>1, <2>1 DEF BootAlone
  <2>4. Reserved'
    BY <1>1, <1>3, <1>6, <2>1, <2>3 DEF Reserved, EntriesOnce
  <2>5. EntriesOnce'
    BY <1>1, <2>1 DEF EntriesOnce
  <2> QED
    BY <1>1, <2>1, <2>2, <2>4, <2>5, WroteStays, LocksNone
<1>28. CASE RecoverInstall
  <2>1. /\ UNCHANGED <<lh, header, outstanding, locked, wrote, pc>> /\ boot # "up"
    BY <1>28 DEF RecoverInstall, InstallBlock, disk, log, bcache
  <2>2. /\ \A q \in Proc : ~InOp(q) /\ ~InOp(q)' /\ pc[q] # "append" /\ pc'[q] # "append"
        /\ \A b \in Block : locked'[b] = None
    BY <1>1, <2>1 DEF BootAlone, InOp
  <2> QED
    BY <1>1, <1>2, <1>3, <1>8, <2>1, <2>2, SpaceStays, WroteStays, LocksNone
<1>29. CASE RecoverClear
  <2>1. /\ UNCHANGED <<outstanding, locked, wrote, pc>> /\ boot # "up" /\ lh' = <<>> /\
             header' = <<>>
    BY <1>29 DEF RecoverClear, InstallBlock, disk, log, bcache
  <2>2. /\ \A q \in Proc : ~InOp(q) /\ ~InOp(q)' /\ pc[q] # "append" /\ pc'[q] # "append"
        /\ \A b \in Block : locked'[b] = None
    BY <1>1, <2>1 DEF BootAlone, InOp
  <2>3. EntriesOnce' /\ Len(lh') <= Len(lh)
    BY <1>3, <1>9, <2>1 DEF EntriesOnce
  <2> QED
    BY <1>1, <1>2, <1>3, <2>1, <2>2, <2>3, SpaceStays, WroteStays, LocksNone
<1>30. CASE UNCHANGED vars
  <2>1. UNCHANGED <<panicked, lh, header, outstanding, locked, wrote, pc>>
    BY <1>30 DEF vars, log, bcache, disk
  <2>2. \A q \in Proc : InOp(q)' <=> InOp(q)
    BY <2>1 DEF InOp
  <2>3. LocksHeld'
    BY <1>1, <2>1, <2>2 DEF LocksHeld, InOp
  <2> QED
    BY <1>1, <1>2, <1>3, <1>8, <2>1, <2>2, <2>3, SpaceStays, WroteStays
<1> QED
  BY <1>11, <1>12, <1>13, <1>14, <1>15, <1>16, <1>17, <1>18, <1>19, <1>20, <1>21, <1>22,
     <1>23, <1>24, <1>25, <1>26, <1>27, <1>28, <1>29, <1>30
     DEF Next, LogStep, CallEndOp, Boot

-----------------------------------------------------------------------------
(***************************************************************************)
(* The statements of the commit and the recovery, and the clean blocks.    *)
(***************************************************************************)
LEMMA CommitStays ==
  ASSUME CommitKnown, UNCHANGED <<header, lh, tail, dirty>>,
         \A q \in Proc : InCommit(q)' => pc'[q] = pc[q]
  PROVE  CommitKnown'
BY DEF CommitKnown, InCommit, Installing

LEMMA CommitNone ==
  ASSUME \A q \in Proc : ~InCommit(q)'
  PROVE  CommitKnown'
BY DEF CommitKnown, InCommit

LEMMA CleanStays ==
  ASSUME Clean, UNCHANGED <<home, dirty, cache, locked>>
  PROVE  Clean'
BY DEF Clean, View

\* A sequence is empty or has a first entry.
LEMMA EmptyOrMore ==
  ASSUME NEW S, NEW s \in Seq(S)
  PROVE  /\ Len(s) \in Nat /\ DOMAIN s = 1 .. Len(s)
         /\ s = <<>> <=> Len(s) = 0
         /\ s # <<>> => 1 \in 1 .. Len(s)
<1>1. Len(s) \in Nat /\ DOMAIN s = 1 .. Len(s) /\ (s = <<>> <=> Len(s) = 0)
  BY EmptySeq
<1> QED
  BY <1>1

\* A log block goes to its home.
LEMMA InstallKnown ==
  ASSUME TypeOK, Installing, InstallBlock, Clean, DirtyLogged, UNCHANGED <<lh, locked>>
  PROVE  /\ Clean' /\ DirtyLogged'
         /\ tail < Len(lh) => tail' \in 1 .. Len(lh)
         /\ tail' = IF tail < Len(lh) THEN tail + 1 ELSE 1
         /\ dirty \subseteq {lh[i] : i \in tail .. Len(lh)} =>
               IF tail < Len(lh) THEN dirty' \subseteq {lh[i] : i \in tail' .. Len(lh)}
                                 ELSE dirty' = {}
<1>1. /\ lh[tail] \in Block /\ tail \in Nat \ {0} /\ tail <= Len(lh) /\ Len(lh) \in Nat
      /\ home \in [Block -> Data] /\ cache \in [Block -> Data \cup {None}]
  BY DEF TypeOK, Installing
<1>2. LogBlock(tail) \in Data /\ LogBlock(tail) # None
  BY <1>1, ContentsType, LogAssumption
<1>3. /\ home' = [home EXCEPT ![lh[tail]] = LogBlock(tail)]
      /\ cache' = [cache EXCEPT ![lh[tail]] = LogBlock(tail)]
      /\ dirty' = dirty \ {lh[tail]}
      /\ tail' = IF tail < Len(lh) THEN tail + 1 ELSE 1
  BY DEF InstallBlock
<1>4. Clean'
  <2> SUFFICES ASSUME NEW b \in Block, b \notin dirty', locked'[b] = None
               PROVE  (IF cache'[b] # None THEN cache'[b] ELSE home'[b]) = home'[b]
    BY DEF Clean, View
  <2>1. CASE b = lh[tail]
    BY <1>1, <1>2, <1>3, <2>1
  <2>2. CASE b # lh[tail]
    <3>1. home'[b] = home[b] /\ cache'[b] = cache[b] /\ b \notin dirty
      BY <1>1, <1>3, <2>2
    <3> QED
      BY <3>1 DEF Clean, View
  <2> QED
    BY <2>1, <2>2
<1>5. DirtyLogged'
  BY <1>3 DEF DirtyLogged
<1>6. ASSUME dirty \subseteq {lh[i] : i \in tail .. Len(lh)}, tail < Len(lh)
      PROVE  dirty' \subseteq {lh[i] : i \in tail' .. Len(lh)}
  <2> SUFFICES ASSUME NEW b \in dirty' PROVE \E i \in tail' .. Len(lh) : b = lh[i]
    OBVIOUS
  <2>1. PICK i \in tail .. Len(lh) : b = lh[i]
    BY <1>3, <1>6
  <2>2. i # tail
    BY <1>3, <2>1
  <2>3. i \in tail' .. Len(lh)
    BY <1>1, <1>3, <1>6, <2>1, <2>2
  <2> QED
    BY <2>1, <2>3
<1>7. ASSUME dirty \subseteq {lh[i] : i \in tail .. Len(lh)}, ~(tail < Len(lh))
      PROVE  dirty' = {}
  <2> SUFFICES ASSUME NEW b \in dirty' PROVE FALSE
    OBVIOUS
  <2>1. PICK i \in tail .. Len(lh) : b = lh[i]
    BY <1>3, <1>7
  <2>2. i = tail
    BY <1>1, <1>7, <2>1
  <2> QED
    BY <1>3, <2>1, <2>2
<1> QED
  BY <1>1, <1>3, <1>4, <1>5, <1>6, <1>7

LEMMA NextKnown ==
  IInv /\ [Next]_vars => CommitKnown' /\ BootKnown' /\ DirtyLogged' /\ Clean'
<1> SUFFICES ASSUME IInv, [Next]_vars
             PROVE  CommitKnown' /\ BootKnown' /\ DirtyLogged' /\ Clean'
  OBVIOUS
<1>1. /\ TypeOK /\ BootAlone /\ CommitAlone /\ CommitKnown /\ BootKnown /\ DirtyLogged /\ Clean
      /\ LocksHeld
  BY DEF IInv
<1>2. /\ pc \in [Proc -> Labels] /\ outstanding \in Nat /\ lh \in Seq(Block)
      /\ header \in Seq(Block) /\ locked \in [Block -> Proc \cup {None}]
      /\ cache \in [Block -> Data \cup {None}] /\ home \in [Block -> Data]
      /\ dirty \in SUBSET Block /\ tail \in Nat
  BY <1>1 DEF TypeOK
<1>3. \A p \in Proc : InOp(p) => outstanding >= 1 /\ ~committing
  BY <1>1, OpCounted
<1>4. /\ \A p \in Proc : InCommit(p) => committing
      /\ \A p, q \in Proc : InCommit(p) /\ q # p => ~InCommit(q)
  BY <1>1 DEF CommitAlone
<1>5. /\ Len(lh) \in Nat /\ DOMAIN lh = 1 .. Len(lh) /\ (lh # <<>> => 1 \in 1 .. Len(lh))
      /\ Len(header) \in Nat /\ (header # <<>> => 1 \in 1 .. Len(header))
      /\ (lh = <<>> <=> Len(lh) = 0)
  BY <1>2, EmptyOrMore
<1>6. None \notin Proc /\ None \notin Data
  BY LogAssumption
<1>7. ASSUME NEW p \in Proc, CallBeginOp(p)
      PROVE  CommitKnown' /\ BootKnown' /\ DirtyLogged' /\ Clean'
  <2>1. /\ UNCHANGED <<header, lh, tail, dirty, boot, committing, outstanding, home, cache, locked>>
        /\ pc[p] = "out" /\ pc' = [pc EXCEPT ![p] = "begin"]
    BY <1>7 DEF CallBeginOp, Goto, disk, log, bcache
  <2>2. \A q \in Proc : InCommit(q)' => pc'[q] = pc[q]
    BY <1>2, <2>1 DEF InCommit
  <2>3. BootKnown'
    BY <1>1, <2>1 DEF BootKnown, Installing
  <2>4. DirtyLogged'
    BY <1>1, <2>1 DEF DirtyLogged
  <2> QED
    BY <1>1, <2>1, <2>2, <2>3, <2>4, CommitStays, CleanStays
<1>8. ASSUME NEW p \in Proc, BeginOpSleep(p)
      PROVE  CommitKnown' /\ BootKnown' /\ DirtyLogged' /\ Clean'
  <2>1. /\ UNCHANGED <<header, lh, tail, dirty, boot, committing, outstanding, home, cache, locked>>
        /\ pc[p] = "begin" /\ pc' = [pc EXCEPT ![p] = "sleep"]
    BY <1>8 DEF BeginOpSleep, Goto, disk, log, bcache
  <2>2. \A q \in Proc : InCommit(q)' => pc'[q] = pc[q]
    BY <1>2, <2>1 DEF InCommit
  <2>3. BootKnown'
    BY <1>1, <2>1 DEF BootKnown, Installing
  <2>4. DirtyLogged'
    BY <1>1, <2>1 DEF DirtyLogged
  <2> QED
    BY <1>1, <2>1, <2>2, <2>3, <2>4, CommitStays, CleanStays
<1>9. ASSUME NEW p \in Proc, Kill(p)
      PROVE  CommitKnown' /\ BootKnown' /\ DirtyLogged' /\ Clean'
  <2>1. /\ UNCHANGED <<header, lh, tail, dirty, boot, committing, outstanding, home, cache, locked>>
        /\ pc[p] = "sleep" /\ pc' = [pc EXCEPT ![p] = "begin"]
    BY <1>9 DEF Kill, Goto, disk, log, bcache
  <2>2. \A q \in Proc : InCommit(q)' => pc'[q] = pc[q]
    BY <1>2, <2>1 DEF InCommit
  <2>3. BootKnown'
    BY <1>1, <2>1 DEF BootKnown, Installing
  <2>4. DirtyLogged'
    BY <1>1, <2>1 DEF DirtyLogged
  <2> QED
    BY <1>1, <2>1, <2>2, <2>3, <2>4, CommitStays, CleanStays
<1>10. ASSUME NEW p \in Proc, BeginOp(p)
      PROVE  CommitKnown' /\ BootKnown' /\ DirtyLogged' /\ Clean'
  <2>1. /\ UNCHANGED <<header, lh, tail, dirty, boot, committing, home, cache, locked>>
        /\ boot = "up" /\ outstanding' = outstanding + 1
        /\ pc[p] = "begin" /\ pc' = [pc EXCEPT ![p] = "op"]
    BY <1>10 DEF BeginOp, Goto, disk, bcache, Running
  <2>2. \A q \in Proc : InCommit(q)' => pc'[q] = pc[q]
    BY <1>2, <2>1 DEF InCommit
  <2>3. BootKnown'
    BY <1>1, <1>2, <2>1 DEF BootKnown
  <2>4. DirtyLogged'
    BY <1>1, <2>1 DEF DirtyLogged
  <2> QED
    BY <1>1, <2>1, <2>2, <2>3, <2>4, CommitStays, CleanStays
<1>11. ASSUME NEW p \in Proc, NEW b \in Block, NEW d \in Data, LogWriteCheck(p, b, d)
      PROVE  CommitKnown' /\ BootKnown' /\ DirtyLogged' /\ Clean'
  <2>1. /\ UNCHANGED <<header, lh, tail, dirty, boot, committing, outstanding, home>>
        /\ locked' = [locked EXCEPT ![b] = p] /\ cache' = [cache EXCEPT ![b] = d]
        /\ boot = "up" /\ pc[p] = "op" /\ pc' \in {pc, [pc EXCEPT ![p] = "append"]}
    BY <1>11 DEF LogWriteCheck, Goto, disk, log, Running
  <2>2. \A q \in Proc : InCommit(q)' => pc'[q] = pc[q]
    BY <1>2, <2>1 DEF InCommit
  <2>3. BootKnown'
    BY <1>1, <2>1 DEF BootKnown, Installing
  <2>4. Clean'
    <3> SUFFICES ASSUME NEW c \in Block, c \notin dirty', locked'[c] = None
                 PROVE  (IF cache'[c] # None THEN cache'[c] ELSE home'[c]) = home'[c]
      BY DEF Clean, View
    <3>1. c # b
      BY <1>2, <1>6, <2>1
    <3>2. cache'[c] = cache[c] /\ locked'[c] = locked[c]
      BY <1>2, <2>1, <3>1
    <3> QED
      BY <1>1, <2>1, <3>2 DEF Clean, View
  <2>5. DirtyLogged'
    BY <1>1, <2>1 DEF DirtyLogged
  <2> QED
    BY <1>1, <2>1, <2>2, <2>3, <2>4, <2>5, CommitStays
<1>12. ASSUME NEW p \in Proc, NEW b \in Block, LogWriteAppend(p, b)
      PROVE  CommitKnown' /\ BootKnown' /\ DirtyLogged' /\ Clean'
  <2>1. /\ UNCHANGED <<header, boot, committing, outstanding, home, cache>>
        /\ boot = "up" /\ pc[p] = "append" /\ pc' = [pc EXCEPT ![p] = "op"]
        /\ locked' = [locked EXCEPT ![b] = None] /\ dirty' = dirty \cup {b}
        /\ lh' = IF b \in Entries(lh) THEN lh ELSE Append(lh, b)
    BY <1>12 DEF LogWriteAppend, Goto, disk, Running
  <2>2. outstanding >= 1 /\ ~committing
    BY <1>3, <2>1 DEF InOp
  <2>3. \A q \in Proc : ~InCommit(q)'
    BY <1>2, <1>4, <2>1, <2>2 DEF InCommit
  <2>4. BootKnown'
    BY <1>1, <2>1, <2>2 DEF BootKnown
  <2>5. DirtyLogged'
    <3>1. Entries(lh') = Entries(lh) \cup {b}
      BY <1>2, <2>1, AppendOnce
    <3> QED
      BY <1>1, <2>1, <3>1 DEF DirtyLogged
  <2>6. Clean'
    <3> SUFFICES ASSUME NEW c \in Block, c \notin dirty', locked'[c] = None
                 PROVE  (IF cache'[c] # None THEN cache'[c] ELSE home'[c]) = home'[c]
      BY DEF Clean, View
    <3>1. c # b /\ c \notin dirty /\ locked[c] = None
      BY <1>2, <2>1
    <3> QED
      BY <1>1, <2>1, <3>1 DEF Clean, View
  <2> QED
    BY <2>3, <2>4, <2>5, <2>6, CommitNone
<1>13. ASSUME NEW b \in Block, ReadIn(b)
      PROVE  CommitKnown' /\ BootKnown' /\ DirtyLogged' /\ Clean'
  <2>1. /\ UNCHANGED <<header, lh, tail, dirty, boot, committing, outstanding, home, locked, pc>>
        /\ cache[b] = None /\ cache' = [cache EXCEPT ![b] = home[b]]
    BY <1>13 DEF ReadIn, disk, log
  <2>2. \A q \in Proc : InCommit(q)' => pc'[q] = pc[q]
    BY <2>1
  <2>3. BootKnown'
    BY <1>1, <2>1 DEF BootKnown, Installing
  <2>4. Clean'
    <3> SUFFICES ASSUME NEW c \in Block, c \notin dirty', locked'[c] = None
                 PROVE  (IF cache'[c] # None THEN cache'[c] ELSE home'[c]) = home'[c]
      BY DEF Clean, View
    <3>1. c # b => cache'[c] = cache[c]
      BY <1>2, <2>1
    <3>2. cache'[b] \in {None, home[b]}
      BY <1>2, <2>1
    <3> QED
      BY <1>1, <2>1, <3>1, <3>2 DEF Clean, View
  <2>5. DirtyLogged'
    BY <1>1, <2>1 DEF DirtyLogged
  <2> QED
    BY <1>1, <2>1, <2>2, <2>3, <2>4, <2>5, CommitStays
<1>14. ASSUME NEW b \in Block, Recycle(b)
      PROVE  CommitKnown' /\ BootKnown' /\ DirtyLogged' /\ Clean'
  <2>1. /\ UNCHANGED <<header, lh, tail, dirty, boot, committing, outstanding, home, locked, pc>>
        /\ locked[b] = None /\ b \notin dirty /\ cache' = [cache EXCEPT ![b] = None]
    BY <1>14 DEF Recycle, disk, log
  <2>2. \A q \in Proc : InCommit(q)' => pc'[q] = pc[q]
    BY <2>1
  <2>3. BootKnown'
    BY <1>1, <2>1 DEF BootKnown, Installing
  <2>4. Clean'
    <3> SUFFICES ASSUME NEW c \in Block, c \notin dirty', locked'[c] = None
                 PROVE  (IF cache'[c] # None THEN cache'[c] ELSE home'[c]) = home'[c]
      BY DEF Clean, View
    <3>1. c # b => cache'[c] = cache[c]
      BY <1>2, <2>1
    <3>2. cache'[b] \in {None, home[b]}
      BY <1>2, <2>1
    <3> QED
      BY <1>1, <2>1, <3>1, <3>2 DEF Clean, View
  <2>5. DirtyLogged'
    BY <1>1, <2>1 DEF DirtyLogged
  <2> QED
    BY <1>1, <2>1, <2>2, <2>3, <2>4, <2>5, CommitStays
<1>15. ASSUME NEW p \in Proc, EndOp(p)
      PROVE  CommitKnown' /\ BootKnown' /\ DirtyLogged' /\ Clean'
  <2>1. pc[p] = "op" /\ (outstanding # 1 \/ committing) /\ boot = "up"
    BY <1>15 DEF EndOp, Running
  <2>2. outstanding >= 1 /\ ~committing
    BY <1>3, <2>1 DEF InOp
  <2>3. /\ UNCHANGED <<header, lh, dirty, boot, committing, home, cache, locked>>
        /\ outstanding' = outstanding - 1
        /\ pc' = WakeLog([pc EXCEPT ![p] = "out"])
    BY <2>2, <1>15 DEF EndOp, disk, bcache
  <2>4. \A q \in Proc : ~InCommit(q)'
    BY <1>2, <1>4, <2>1, <2>2, <2>3 DEF InCommit, WakeLog
  <2>5. BootKnown'
    <3>1. outstanding' # 0
      BY <1>2, <2>1, <2>2, <2>3
    <3> QED
      BY <1>1, <2>1, <2>2, <2>3, <3>1 DEF BootKnown
  <2>6. DirtyLogged'
    BY <1>1, <2>3 DEF DirtyLogged
  <2> QED
    BY <1>1, <2>3, <2>4, <2>5, <2>6, CommitNone, CleanStays
<1>16. ASSUME NEW p \in Proc, EndOpCommit(p)
      PROVE  CommitKnown' /\ BootKnown' /\ DirtyLogged' /\ Clean'
  <2>1. /\ UNCHANGED <<header, lh, dirty, boot, home, cache, locked>>
        /\ boot = "up" /\ ~committing /\ committing' /\ tail' = 1
        /\ pc[p] = "op" /\ pc' = [pc EXCEPT ![p] = IF lh = <<>> THEN "done" ELSE "write_log"]
    BY <1>16 DEF EndOpCommit, Goto, disk, bcache, Running
  <2>2. header = <<>>
    BY <1>1, <2>1 DEF BootKnown
  <2>3. \A q \in Proc : ~InCommit(q)
    BY <1>4, <2>1
  <2>4. CommitKnown'
    <3> SUFFICES ASSUME NEW q \in Proc, InCommit(q)'
                 PROVE  /\ pc'[q] = "write_log" => header' = <<>> /\ tail' \in 1 .. Len(lh')
                        /\ pc'[q] \notin {"write_head", "install", "clear"}
                        /\ pc'[q] = "done" => header' = <<>> /\ lh' = <<>>
      BY DEF CommitKnown, InCommit
    <3>1. q = p
      BY <1>2, <2>1, <2>3 DEF InCommit
    <3> QED
      BY <1>2, <1>5, <2>1, <2>2, <3>1
  <2>5. BootKnown'
    BY <2>1 DEF BootKnown
  <2>6. DirtyLogged'
    BY <1>1, <2>1 DEF DirtyLogged
  <2> QED
    BY <1>1, <2>1, <2>4, <2>5, <2>6, CleanStays
<1>17. ASSUME NEW p \in Proc, WriteLog(p)
      PROVE  CommitKnown' /\ BootKnown' /\ DirtyLogged' /\ Clean'
  <2>1. /\ UNCHANGED <<header, lh, boot, committing, locked>>
        /\ boot = "up" /\ pc[p] = "write_log" /\ WriteLogBlock(View(lh[tail]))
        /\ tail' = IF tail < Len(lh) THEN tail + 1 ELSE 1
        /\ pc' = [pc EXCEPT ![p] = IF tail < Len(lh) THEN "write_log" ELSE "write_head"]
    BY <1>17 DEF WriteLog, Goto, log, WriteLogBlock, bcache, Running
  <2>2. header = <<>> /\ tail \in 1 .. Len(lh)
    BY <1>1, <2>1 DEF CommitKnown
  <2>3. View(lh[tail]) \in Data
    BY <1>1, <1>2, <2>2, ContentsType
  <2>4. committing /\ \A q \in Proc : q # p => ~InCommit(q)
    BY <1>4, <2>1 DEF InCommit
  <2>5. CommitKnown'
    <3> SUFFICES ASSUME NEW q \in Proc, InCommit(q)'
                 PROVE  /\ pc'[q] = "write_log" => header' = <<>> /\ tail' \in 1 .. Len(lh')
                        /\ pc'[q] = "write_head" => header' = <<>> /\ lh' # <<>>
                        /\ pc'[q] \notin {"install", "clear", "done"}
      BY DEF CommitKnown, InCommit
    <3>1. q = p
      BY <1>2, <2>1, <2>4 DEF InCommit
    <3> QED
      BY <1>2, <1>5, <2>1, <2>2, <3>1
  <2>6. BootKnown'
    BY <2>1, <2>4 DEF BootKnown
  <2>7. DirtyLogged' /\ Clean'
    <3>1. CASE tail < nlog
      <4>1. UNCHANGED <<home, cache, dirty, locked>>
        BY <2>1, <3>1 DEF WriteLogBlock, bcache
      <4> QED
        BY <1>1, <2>1, <4>1, CleanStays DEF DirtyLogged
    <3>2. CASE ~(tail < nlog)
      <4> DEFINE d == View(lh[tail])
      <4>1. /\ home' = [home EXCEPT ![After] = d] /\ cache' = [cache EXCEPT ![After] = d]
            /\ dirty' = dirty \ {After} /\ d # None
        BY <1>6, <2>1, <2>3, <3>2 DEF WriteLogBlock
      <4> HIDE DEF d
      <4>2. Clean'
        <5> SUFFICES ASSUME NEW c \in Block, c \notin dirty', locked'[c] = None
                     PROVE  (IF cache'[c] # None THEN cache'[c] ELSE home'[c]) = home'[c]
          BY DEF Clean, View
        <5>1. CASE c = After
          BY <1>2, <4>1, <5>1
        <5>2. CASE c # After
          <6>1. home'[c] = home[c] /\ cache'[c] = cache[c] /\ c \notin dirty
            BY <1>2, <4>1, <5>2
          <6> QED
            BY <1>1, <2>1, <6>1 DEF Clean, View
        <5> QED
          BY <5>1, <5>2
      <4> QED
        BY <1>1, <2>1, <4>1, <4>2 DEF DirtyLogged
    <3> QED
      BY <3>1, <3>2
  <2> QED
    BY <2>5, <2>6, <2>7
<1>18. ASSUME NEW p \in Proc, WriteHead(p)
      PROVE  CommitKnown' /\ BootKnown' /\ DirtyLogged' /\ Clean'
  <2>1. /\ UNCHANGED <<lh, dirty, boot, committing, home, cache, locked>>
        /\ header' = lh /\ tail' = 1
        /\ boot = "up" /\ pc[p] = "write_head" /\ pc' = [pc EXCEPT ![p] = "install"]
    BY <1>18 DEF WriteHead, Goto, log, bcache, Running
  <2>2. lh # <<>>
    BY <1>1, <2>1 DEF CommitKnown
  <2>3. committing /\ \A q \in Proc : q # p => ~InCommit(q)
    BY <1>4, <2>1 DEF InCommit
  <2>4. CommitKnown'
    <3>1. Installing' /\ dirty' \subseteq {lh'[i] : i \in tail' .. Len(lh')}
      BY <1>1, <1>5, <2>1, <2>2 DEF Installing, DirtyLogged, Entries
    <3>2. pc'[p] = "install" /\ \A q \in Proc : q # p => ~InCommit(q)'
      BY <1>2, <2>1, <2>3 DEF InCommit
    <3> QED
      BY <3>1, <3>2 DEF CommitKnown, InCommit
  <2>5. BootKnown'
    BY <2>1, <2>3 DEF BootKnown
  <2>6. DirtyLogged'
    BY <1>1, <2>1 DEF DirtyLogged
  <2> QED
    BY <1>1, <2>1, <2>4, <2>5, <2>6, CleanStays
<1>19. ASSUME NEW p \in Proc, InstallTrans(p)
      PROVE  CommitKnown' /\ BootKnown' /\ DirtyLogged' /\ Clean'
  <2>1. /\ UNCHANGED <<header, lh, boot, committing, locked>> /\ InstallBlock
        /\ boot = "up" /\ pc[p] = "install"
        /\ pc' = [pc EXCEPT ![p] = IF tail < Len(lh) THEN "install" ELSE "clear"]
    BY <1>19 DEF InstallTrans, Goto, log, Running
  <2>2. Installing /\ dirty \subseteq {lh[i] : i \in tail .. Len(lh)}
    BY <1>1, <2>1 DEF CommitKnown
  <2>3. committing /\ \A q \in Proc : q # p => ~InCommit(q)
    BY <1>4, <2>1 DEF InCommit
  <2>4. /\ Clean' /\ DirtyLogged'
        /\ tail < Len(lh) => tail' \in 1 .. Len(lh)
        /\ IF tail < Len(lh) THEN dirty' \subseteq {lh[i] : i \in tail' .. Len(lh)}
                             ELSE dirty' = {}
    BY <1>1, <2>1, <2>2, InstallKnown
  <2>5. CommitKnown'
    <3>1. \A q \in Proc : q # p => ~InCommit(q)'
      BY <1>2, <2>1, <2>3 DEF InCommit
    <3>2. CASE tail < Len(lh)
      <4>1. Installing' /\ dirty' \subseteq {lh'[i] : i \in tail' .. Len(lh')} /\ pc'[p] = "install"
        BY <1>2, <2>1, <2>2, <2>4, <3>2 DEF Installing
      <4> QED
        BY <3>1, <4>1 DEF CommitKnown, InCommit
    <3>3. CASE ~(tail < Len(lh))
      <4>1. header' = lh' /\ dirty' = {} /\ pc'[p] = "clear"
        BY <1>2, <2>1, <2>2, <2>4, <3>3 DEF Installing
      <4> QED
        BY <3>1, <4>1 DEF CommitKnown, InCommit
    <3> QED
      BY <3>2, <3>3
  <2>6. BootKnown'
    BY <2>1, <2>3 DEF BootKnown
  <2> QED
    BY <2>4, <2>5, <2>6
<1>20. ASSUME NEW p \in Proc, ClearLog(p)
      PROVE  CommitKnown' /\ BootKnown' /\ DirtyLogged' /\ Clean'
  <2>1. /\ UNCHANGED <<dirty, boot, committing, home, cache, locked>>
        /\ header' = <<>> /\ lh' = <<>>
        /\ boot = "up" /\ pc[p] = "clear" /\ pc' = [pc EXCEPT ![p] = "done"]
    BY <1>20 DEF ClearLog, Goto, bcache, Running
  <2>2. dirty = {}
    BY <1>1, <2>1 DEF CommitKnown
  <2>3. committing /\ \A q \in Proc : q # p => ~InCommit(q)
    BY <1>4, <2>1 DEF InCommit
  <2>4. CommitKnown'
    <3>1. pc'[p] = "done" /\ \A q \in Proc : q # p => ~InCommit(q)'
      BY <1>2, <2>1, <2>3 DEF InCommit
    <3> QED
      BY <2>1, <3>1 DEF CommitKnown, InCommit
  <2>5. BootKnown'
    BY <2>1, <2>3 DEF BootKnown
  <2>6. DirtyLogged'
    BY <2>1, <2>2 DEF DirtyLogged
  <2> QED
    BY <1>1, <2>1, <2>4, <2>5, <2>6, CleanStays
<1>21. ASSUME NEW p \in Proc, EndCommit(p)
      PROVE  CommitKnown' /\ BootKnown' /\ DirtyLogged' /\ Clean'
  <2>1. /\ UNCHANGED <<header, lh, dirty, boot, home, cache, locked>>
        /\ boot = "up" /\ pc[p] = "done"
    BY <1>21 DEF EndCommit, disk, bcache, Running
  <2>2. pc' = WakeLog([pc EXCEPT ![p] = "out"])
    BY <1>21 DEF EndCommit
  <2>3. header = <<>> /\ lh = <<>>
    BY <1>1, <2>1 DEF CommitKnown
  <2>4. \A q \in Proc : ~InCommit(q)'
    BY <1>2, <1>4, <2>1, <2>2 DEF InCommit, WakeLog
  <2>5. BootKnown'
    BY <2>1, <2>3 DEF BootKnown
  <2>6. DirtyLogged'
    BY <1>1, <2>1 DEF DirtyLogged
  <2> QED
    BY <1>1, <2>1, <2>4, <2>5, <2>6, CommitNone, CleanStays
<1>22. CASE Crash
  <2>1. /\ boot' = "read_head" /\ lh' = <<>> /\ dirty' = {}
        /\ pc' = [q \in Proc |-> "out"] /\ cache' = [b \in Block |-> None]
    BY <1>22 DEF Crash
  <2>2. \A q \in Proc : ~InCommit(q)'
    BY <2>1 DEF InCommit
  <2>3. BootKnown' /\ DirtyLogged'
    BY <2>1 DEF BootKnown, DirtyLogged
  <2>4. Clean'
    BY <2>1 DEF Clean, View
  <2> QED
    BY <2>2, <2>3, <2>4, CommitNone
<1>23. CASE ReadHead
  <2>1. \A q \in Proc : ~InCommit(q)'
    BY <1>1, <1>23 DEF ReadHead, BootAlone, InCommit
  <2>2. /\ UNCHANGED <<header, dirty, home, cache, locked>> /\ lh' = header /\ tail' = 1
        /\ boot' = IF header = <<>> THEN "clear" ELSE "install"
    BY <1>23 DEF ReadHead, disk, bcache
  <2>3. BootKnown'
    BY <1>5, <2>2 DEF BootKnown, Installing
  <2>4. DirtyLogged'
    BY <1>1, <2>2, <1>23 DEF DirtyLogged, BootAlone, ReadHead
  <2> QED
    BY <1>1, <2>1, <2>2, <2>3, <2>4, CommitNone, CleanStays
<1>24. CASE RecoverInstall
  <2>1. \A q \in Proc : ~InCommit(q)'
    BY <1>1, <1>24 DEF RecoverInstall, BootAlone, InCommit
  <2>2. /\ UNCHANGED <<header, lh, locked>> /\ InstallBlock
        /\ boot = "install" /\ boot' = IF tail < Len(lh) THEN "install" ELSE "clear"
    BY <1>24 DEF RecoverInstall, log
  <2>3. Installing
    BY <1>1, <2>2 DEF BootKnown
  <2>4. Clean' /\ DirtyLogged' /\ (tail < Len(lh) => tail' \in 1 .. Len(lh))
    BY <1>1, <2>2, <2>3, InstallKnown
  <2>5. BootKnown'
    BY <2>2, <2>3, <2>4 DEF BootKnown, Installing
  <2> QED
    BY <2>1, <2>4, <2>5, CommitNone
<1>25. CASE RecoverClear
  <2>1. \A q \in Proc : ~InCommit(q)'
    BY <1>1, <1>25 DEF RecoverClear, BootAlone, InCommit
  <2>2. /\ UNCHANGED <<dirty, home, cache, locked>> /\ lh' = <<>> /\ header' = <<>>
        /\ boot = "clear" /\ boot' = "up"
    BY <1>25 DEF RecoverClear, bcache
  <2>3. BootKnown'
    BY <2>2 DEF BootKnown
  <2>4. DirtyLogged'
    BY <1>1, <2>2 DEF DirtyLogged, BootAlone
  <2> QED
    BY <1>1, <2>1, <2>2, <2>3, <2>4, CommitNone, CleanStays
<1>26. CASE UNCHANGED vars
  <2>1. UNCHANGED <<header, lh, tail, dirty, boot, committing, outstanding, home, cache,
          locked, pc>>
    BY <1>26 DEF vars, log, bcache, disk
  <2>2. \A q \in Proc : InCommit(q)' => pc'[q] = pc[q]
    BY <2>1
  <2>3. BootKnown'
    BY <1>1, <2>1 DEF BootKnown, Installing
  <2>4. DirtyLogged'
    BY <1>1, <2>1 DEF DirtyLogged
  <2> QED
    BY <1>1, <2>1, <2>2, <2>3, <2>4, CommitStays, CleanStays
<1> QED
  BY <1>7, <1>8, <1>9, <1>10, <1>11, <1>12, <1>13, <1>14, <1>15, <1>16, <1>17, <1>18, <1>19,
     <1>20, <1>21, <1>22, <1>23, <1>24, <1>25, <1>26
     DEF Next, LogStep, CallEndOp, Boot

LEMMA NextIInv == IInv /\ [Next]_vars => IInv'
BY NextType, NextAlone, NextSpace, NextKnown DEF IInv

-----------------------------------------------------------------------------
THEOREM LogInvariant == SafeSpec => []IInv
BY InitIInv, NextIInv, PTL DEF SafeSpec

\* Type correctness: the loops of write_log and install_trans stay inside the arrays
\* they walk over (LAB4/log.c:73-82, :180-190).
THEOREM LogType == SafeSpec => []TypeOK
<1>1. IInv => TypeOK
  BY DEF IInv
<1> QED
  BY <1>1, LogInvariant, PTL

\* The log commits alone, one process commits, and outstanding counts the calls
\* (LAB4/log.c:130-136, :151-157, :170).
THEOREM LogCommitAlone == SafeSpec => []CommitAlone
<1>1. IInv => CommitAlone
  BY DEF IInv
<1> QED
  BY <1>1, LogInvariant, PTL

\* The entries stay inside lh.block, and no block has two (LAB4/log.c:132-136,
\* :218-230).
THEOREM LogEntriesFit == SafeSpec => []LogFits
<1>1. IInv => LogFits
  BY EntriesFit DEF IInv, EntriesOnce, Once, LogFits
<1> QED
  BY <1>1, LogInvariant, PTL

\* Nobody sleeps in begin_op whose wakeup has been (LAB4/log.c:130-134, :161, :170).
THEOREM LogSleeperHasReason == SafeSpec => []SleeperHasReason
<1>1. IInv => SleeperHasReason
  BY DEF IInv
<1> QED
  BY <1>1, LogInvariant, PTL

\* An idle log is empty, and all that the calls did is on the disk (LAB4/log.c:165-173,
\* :193-202).
THEOREM LogIdleIsDurable == SafeSpec => []IdleIsDurable
<1>1. IInv => IdleIsDurable
  <2> SUFFICES ASSUME IInv, boot = "up", ~committing, outstanding = 0
               PROVE  header = <<>> /\ lh = <<>> /\ \A b \in Block : View(b) = home[b]
    BY DEF IdleIsDurable
  <2>1. TypeOK /\ CommitAlone /\ LocksHeld /\ BootKnown /\ DirtyLogged /\ Clean
    BY DEF IInv
  <2>2. header = <<>> /\ lh = <<>>
    BY <2>1 DEF BootKnown
  <2>3. dirty = {}
    BY <2>1, <2>2 DEF DirtyLogged, Entries
  <2>4. \A p \in Proc : ~InOp(p)
    BY <2>1, OpCounted
  <2>5. \A b \in Block : locked[b] = None
    BY <2>1, <2>4 DEF TypeOK, LocksHeld, InOp
  <2> QED
    BY <2>1, <2>2, <2>3, <2>5 DEF Clean
<1> QED
  BY <1>1, LogInvariant, PTL

-----------------------------------------------------------------------------
(***************************************************************************)
(* The refinement: as long as the entries stay inside the blocks that the  *)
(* log has on the disk, every step is a step of the atomic disk, or none.  *)
(***************************************************************************)
\* What has been copied: to the log by write_log, home by install_trans.
Stored ==
  /\ Len(header) < nlog
  /\ \A p \in Proc :
       /\ pc[p] = "write_log" => \A i \in 1 .. tail - 1 : logdisk[i] = View(lh[i])
       /\ pc[p] \in {"write_head", "install", "clear"} =>
             \A i \in DOMAIN lh : logdisk[i] = View(lh[i])
  /\ boot = "install" => \A i \in 1 .. tail - 1 : home[lh[i]] = logdisk[i]
  /\ boot = "clear" => \A i \in DOMAIN lh : home[lh[i]] = logdisk[i]

LEMMA StoredNone ==
  ASSUME \A q \in Proc : ~InCommit(q)', boot' \in {"up", "read_head"}, Len(header') < nlog
  PROVE  Stored'
BY DEF Stored, InCommit

LEMMA StoredStays ==
  ASSUME IInv, Stored, UNCHANGED <<header, lh, tail, logdisk, boot, home>>,
         \A b \in Block : View(b)' = View(b), \A q \in Proc : InCommit(q)' => pc'[q] = pc[q]
  PROVE  Stored'
<1>1. \A i \in DOMAIN lh : lh[i] \in Block
  BY DEF IInv, TypeOK
<1>2. \A q \in Proc : pc[q] = "write_log" => \A i \in 1 .. tail - 1 : i \in DOMAIN lh
  BY DEF IInv, TypeOK, CommitKnown
<1> QED
  BY <1>1, <1>2 DEF Stored, InCommit

\* What a crash would leave, block by block.
LEMMA StableNow ==
  ASSUME Once(header), Len(header) < nlog, header \in Seq(Block)
  PROVE  /\ \A i \in DOMAIN header : header[i] \in Block /\ Stable[header[i]] = logdisk[i]
         /\ \A b \in Block : b \notin Entries(header) => Stable[b] = home[b]
<1>1. ASSUME NEW i \in DOMAIN header PROVE header[i] \in Block /\ Stable[header[i]] = logdisk[i]
  <2>1. i \in 1 .. Len(header) /\ header[i] \in Block /\ header[i] \in Entries(header)
    BY DEF Entries
  <2>2. (CHOOSE j \in DOMAIN header : header[j] = header[i]) = i
    BY DEF Once
  <2>3. i < nlog
    BY <2>1, LogAssumption
  <2> QED
    BY <2>1, <2>2, <2>3 DEF Stable, Recovered
<1> QED
  BY <1>1 DEF Stable

LEMMA StableNext ==
  ASSUME Once(header'), Len(header') < nlog, header' \in Seq(Block)
  PROVE  /\ \A i \in DOMAIN header' : header'[i] \in Block /\ Stable'[header'[i]] = logdisk'[i]
         /\ \A b \in Block : b \notin Entries(header') => Stable'[b] = home'[b]
<1>1. ASSUME NEW i \in DOMAIN header'
      PROVE  header'[i] \in Block /\ Stable'[header'[i]] = logdisk'[i]
  <2>1. i \in 1 .. Len(header') /\ header'[i] \in Block /\ header'[i] \in Entries(header')
    BY DEF Entries
  <2>2. (CHOOSE j \in DOMAIN header' : header'[j] = header'[i]) = i
    BY DEF Once
  <2>3. i < nlog
    BY <2>1, LogAssumption
  <2> QED
    BY <2>1, <2>2, <2>3 DEF Stable, Recovered
<1> QED
  BY <1>1 DEF Stable


\* What the calls see stays the same when bget reads a block in or recycles a buffer,
\* and when a log block that has the cached contents goes home.
LEMMA ViewsStay == UNCHANGED <<home, cache>> => \A b \in Block : View(b)' = View(b)
BY DEF View

LEMMA CacheViews ==
  ASSUME TypeOK, Clean, NEW b \in Block, ReadIn(b) \/ Recycle(b)
  PROVE  \A c \in Block : View(c)' = View(c)
<1>1. CASE ReadIn(b)
  <2>1. home' = home /\ cache[b] = None /\ cache' = [cache EXCEPT ![b] = home[b]]
    BY <1>1 DEF ReadIn, disk
  <2> QED
    BY <2>1, LogAssumption DEF TypeOK, View
<1>2. CASE Recycle(b)
  <2>1. /\ home' = home /\ cache' = [cache EXCEPT ![b] = None]
        /\ b \notin dirty /\ locked[b] = None
    BY <1>2 DEF Recycle, disk
  <2>2. View(b) = home[b]
    BY <2>1 DEF Clean
  <2> QED
    BY <2>1, <2>2 DEF TypeOK, View
<1> QED
  BY <1>1, <1>2

LEMMA InstallViews ==
  ASSUME TypeOK, Installing, InstallBlock, Len(lh) < nlog,
         \A i \in DOMAIN lh : logdisk[i] = View(lh[i])
  PROVE  \A b \in Block : View(b)' = View(b)
<1>1. lh[tail] \in Block /\ tail < nlog /\ tail \in DOMAIN lh
  BY LogAssumption DEF TypeOK, Installing
<1>2. LogBlock(tail) = View(lh[tail]) /\ View(lh[tail]) \in Data /\ View(lh[tail]) # None
  BY <1>1, ContentsType, LogAssumption DEF LogBlock
<1>3. /\ home' = [home EXCEPT ![lh[tail]] = LogBlock(tail)]
      /\ cache' = [cache EXCEPT ![lh[tail]] = LogBlock(tail)]
  BY DEF InstallBlock
<1> SUFFICES ASSUME NEW b \in Block
             PROVE  (IF cache'[b] # None THEN cache'[b] ELSE home'[b]) = View(b)
  BY DEF View
<1>4. CASE b = lh[tail]
  BY <1>1, <1>2, <1>3, <1>4 DEF TypeOK
<1>5. CASE b # lh[tail]
  <2>1. cache'[b] = cache[b] /\ home'[b] = home[b]
    BY <1>1, <1>3, <1>5 DEF TypeOK
  <2> QED
    BY <2>1 DEF View
<1> QED
  BY <1>4, <1>5

LEMMA NextStored ==
  ASSUME IInv, IInv', Stored, LogInBounds, LogInBounds', [Next]_vars
  PROVE  Stored'
<1>1. /\ TypeOK /\ BootAlone /\ CommitAlone /\ CommitKnown /\ BootKnown /\ DirtyLogged /\ Clean
      /\ LocksHeld /\ EntriesOnce
  BY DEF IInv
<1>2. /\ pc \in [Proc -> Labels] /\ lh \in Seq(Block) /\ header \in Seq(Block)
      /\ locked \in [Block -> Proc \cup {None}] /\ logdisk \in [1 .. nlog - 1 -> Data]
      /\ cache \in [Block -> Data \cup {None}] /\ home \in [Block -> Data] /\ tail \in Nat
  BY <1>1 DEF TypeOK
<1>3. Len(lh) < nlog /\ Len(header) < nlog /\ nlog \in Nat /\ Len(<<>>) < nlog
      /\ Len(lh) \in Nat /\ Len(header) \in Nat /\ DOMAIN lh = 1 .. Len(lh)
  BY <1>2, LogAssumption DEF LogInBounds, Stored
<1>4. /\ \A p \in Proc : InCommit(p) => committing /\ \A q \in Proc : ~InOp(q)
      /\ \A p, q \in Proc : InCommit(p) /\ q # p => ~InCommit(q)
      /\ \A p \in Proc : InOp(p) => \A q \in Proc : ~InCommit(q)
  BY <1>1 DEF CommitAlone
<1>5. None \notin Proc /\ None \notin Data
  BY LogAssumption
<1>6. Once(lh) /\ \A i \in DOMAIN lh : lh[i] \in Block
  BY <1>1, <1>2 DEF EntriesOnce
<1>7. Len(lh) \in Nat
  BY <1>2
<1>8. ASSUME NEW p \in Proc, CallBeginOp(p) PROVE Stored'
  <2>1. /\ UNCHANGED <<header, lh, tail, logdisk, boot, home, cache>>
        /\ pc[p] = "out" /\ pc' = [pc EXCEPT ![p] = "begin"]
    BY <1>8 DEF CallBeginOp, Goto, log, disk, bcache
  <2>2. \A q \in Proc : InCommit(q)' => pc'[q] = pc[q]
    BY <1>2, <2>1 DEF InCommit
  <2> QED
    BY <2>1, <2>2, ViewsStay, StoredStays
<1>9. ASSUME NEW p \in Proc, BeginOpSleep(p) PROVE Stored'
  <2>1. /\ UNCHANGED <<header, lh, tail, logdisk, boot, home, cache>>
        /\ pc[p] = "begin" /\ pc' = [pc EXCEPT ![p] = "sleep"]
    BY <1>9 DEF BeginOpSleep, Goto, log, disk, bcache
  <2>2. \A q \in Proc : InCommit(q)' => pc'[q] = pc[q]
    BY <1>2, <2>1 DEF InCommit
  <2> QED
    BY <2>1, <2>2, ViewsStay, StoredStays
<1>10. ASSUME NEW p \in Proc, Kill(p) PROVE Stored'
  <2>1. /\ UNCHANGED <<header, lh, tail, logdisk, boot, home, cache>>
        /\ pc[p] = "sleep" /\ pc' = [pc EXCEPT ![p] = "begin"]
    BY <1>10 DEF Kill, Goto, log, disk, bcache
  <2>2. \A q \in Proc : InCommit(q)' => pc'[q] = pc[q]
    BY <1>2, <2>1 DEF InCommit
  <2> QED
    BY <2>1, <2>2, ViewsStay, StoredStays
<1>11. ASSUME NEW p \in Proc, BeginOp(p) PROVE Stored'
  <2>1. /\ UNCHANGED <<header, lh, tail, logdisk, boot, home, cache>>
        /\ pc[p] = "begin" /\ pc' = [pc EXCEPT ![p] = "op"]
    BY <1>11 DEF BeginOp, Goto, disk, bcache
  <2>2. \A q \in Proc : InCommit(q)' => pc'[q] = pc[q]
    BY <1>2, <2>1 DEF InCommit
  <2> QED
    BY <2>1, <2>2, ViewsStay, StoredStays
<1>12. ASSUME NEW p \in Proc, NEW b \in Block, NEW d \in Data, LogWriteCheck(p, b, d) PROVE Stored'
  <2>1. /\ UNCHANGED <<header, boot>> /\ boot = "up"
        /\ pc[p] = "op" /\ pc' \in {pc, [pc EXCEPT ![p] = "append"]}
    BY <1>12 DEF LogWriteCheck, Goto, disk, Running
  <2>2. \A q \in Proc : ~InCommit(q)'
    BY <1>2, <1>4, <2>1 DEF InCommit, InOp
  <2> QED
    BY <1>3, <2>1, <2>2, StoredNone
<1>13. ASSUME NEW p \in Proc, NEW b \in Block, LogWriteAppend(p, b) PROVE Stored'
  <2>1. /\ UNCHANGED <<header, boot>> /\ boot = "up"
        /\ pc[p] = "append" /\ pc' = [pc EXCEPT ![p] = "op"]
    BY <1>13 DEF LogWriteAppend, Goto, disk, Running
  <2>2. \A q \in Proc : ~InCommit(q)'
    BY <1>2, <1>4, <2>1 DEF InCommit, InOp
  <2> QED
    BY <1>3, <2>1, <2>2, StoredNone
<1>14. ASSUME NEW b \in Block, ReadIn(b) PROVE Stored'
  <2>1. UNCHANGED <<header, lh, tail, logdisk, boot, home, pc>>
    BY <1>14 DEF ReadIn, disk, log
  <2>2. \A c \in Block : View(c)' = View(c)
    BY <1>1, <1>14, CacheViews
  <2> QED
    BY <2>1, <2>2, StoredStays DEF InCommit
<1>15. ASSUME NEW b \in Block, Recycle(b) PROVE Stored'
  <2>1. UNCHANGED <<header, lh, tail, logdisk, boot, home, pc>>
    BY <1>15 DEF Recycle, disk, log
  <2>2. \A c \in Block : View(c)' = View(c)
    BY <1>1, <1>15, CacheViews
  <2> QED
    BY <2>1, <2>2, StoredStays DEF InCommit
<1>16. ASSUME NEW p \in Proc, EndOp(p) PROVE Stored'
  <2>1. UNCHANGED <<header, boot>> /\ boot = "up" /\ pc[p] = "op"
    BY <1>16 DEF EndOp, disk, Running
  <2>2. \A q \in Proc : ~InCommit(q)'
    <3>1. pc' = pc \/ pc' = WakeLog([pc EXCEPT ![p] = "out"])
      BY <1>16 DEF EndOp
    <3> QED
      BY <1>2, <1>4, <2>1, <3>1 DEF InCommit, InOp, WakeLog
  <2> QED
    BY <1>3, <2>1, <2>2, StoredNone
<1>17. ASSUME NEW p \in Proc, EndOpCommit(p) PROVE Stored'
  <2>1. /\ UNCHANGED <<header, boot>> /\ boot = "up" /\ tail' = 1
        /\ pc[p] = "op" /\ pc' = [pc EXCEPT ![p] = IF lh = <<>> THEN "done" ELSE "write_log"]
    BY <1>17 DEF EndOpCommit, Goto, disk, Running
  <2>2. \A q \in Proc : pc'[q] \notin {"write_head", "install", "clear"}
    BY <1>2, <1>4, <2>1 DEF InCommit, InOp
  <2>3. \A i \in 1 .. tail' - 1 : FALSE
    BY <2>1
  <2> QED
    BY <1>3, <2>1, <2>2, <2>3 DEF Stored
<1>18. ASSUME NEW p \in Proc, WriteLog(p) PROVE Stored'
  <2>1. /\ UNCHANGED <<header, lh, boot>> /\ boot = "up"
        /\ pc[p] = "write_log" /\ WriteLogBlock(View(lh[tail]))
        /\ tail' = IF tail < Len(lh) THEN tail + 1 ELSE 1
        /\ pc' = [pc EXCEPT ![p] = IF tail < Len(lh) THEN "write_log" ELSE "write_head"]
    BY <1>18 DEF WriteLog, Goto, log, Running
  <2>2. tail \in 1 .. Len(lh) /\ tail < nlog
    BY <1>1, <1>3, <2>1 DEF CommitKnown
  <2>3. logdisk' = [logdisk EXCEPT ![tail] = View(lh[tail])] /\ UNCHANGED <<home, cache>>
    BY <2>1, <2>2 DEF WriteLogBlock, bcache
  <2>4. \A b \in Block : View(b)' = View(b)
    BY <2>3, ViewsStay
  <2>5. \A i \in 1 .. tail : i \in DOMAIN lh /\ logdisk'[i] = View(lh[i])'
    <3>1. ASSUME NEW i \in 1 .. tail PROVE i \in DOMAIN lh /\ logdisk'[i] = View(lh[i])
      <4>1. i \in 1 .. nlog - 1 /\ i \in DOMAIN lh
        BY <1>3, <2>2
      <4>2. i # tail => i \in 1 .. tail - 1
        BY <1>2
      <4> QED
        BY <1>2, <2>1, <2>3, <4>1, <4>2 DEF Stored
    <3> QED
      BY <1>6, <2>1, <2>4, <3>1
  <2>6. \A q \in Proc : q # p => ~InCommit(q)'
    BY <1>2, <1>4, <2>1 DEF InCommit
  <2>7. CASE tail < Len(lh)
    <3>1. tail' - 1 = tail /\ pc'[p] = "write_log"
      BY <1>2, <2>1, <2>7
    <3> QED
      BY <1>3, <2>1, <2>5, <2>6, <3>1 DEF Stored, InCommit
  <2>8. CASE ~(tail < Len(lh))
    <3>1. tail = Len(lh)
      BY <1>7, <2>2, <2>8
    <3>2. pc'[p] = "write_head"
      BY <1>2, <2>1, <2>8
    <3> QED
      BY <1>3, <2>1, <2>5, <2>6, <3>1, <3>2 DEF Stored, InCommit
  <2> QED
    BY <2>7, <2>8
<1>19. ASSUME NEW p \in Proc, WriteHead(p) PROVE Stored'
  <2>1. /\ UNCHANGED <<lh, boot, logdisk, home, cache>> /\ boot = "up" /\ header' = lh
        /\ pc[p] = "write_head" /\ pc' = [pc EXCEPT ![p] = "install"]
    BY <1>19 DEF WriteHead, Goto, log, bcache, Running
  <2>2. \A b \in Block : View(b)' = View(b)
    BY <2>1, ViewsStay
  <2>3. \A q \in Proc : pc'[q] # "write_log"
    BY <1>2, <1>4, <2>1 DEF InCommit
  <2>4. \A i \in DOMAIN lh : logdisk[i] = View(lh[i])
    BY <2>1 DEF Stored
  <2> QED
    BY <1>3, <1>6, <2>1, <2>2, <2>3, <2>4 DEF Stored
<1>20. ASSUME NEW p \in Proc, InstallTrans(p) PROVE Stored'
  <2>1. /\ UNCHANGED <<header, lh, boot, logdisk>> /\ boot = "up" /\ InstallBlock
        /\ pc[p] = "install" /\ pc' \in {[pc EXCEPT ![p] = "install"], [pc EXCEPT ![p] = "clear"]}
    BY <1>20 DEF InstallTrans, Goto, log, Running
  <2>2. Installing /\ \A i \in DOMAIN lh : logdisk[i] = View(lh[i])
    BY <1>1, <2>1 DEF CommitKnown, Stored
  <2>3. \A b \in Block : View(b)' = View(b)
    BY <1>1, <1>3, <2>1, <2>2, InstallViews
  <2>4. \A q \in Proc : pc'[q] # "write_log"
    BY <1>2, <1>4, <2>1 DEF InCommit
  <2> QED
    BY <1>3, <1>6, <2>1, <2>2, <2>3, <2>4 DEF Stored
<1>21. ASSUME NEW p \in Proc, ClearLog(p) PROVE Stored'
  <2>1. /\ UNCHANGED boot /\ boot = "up" /\ header' = <<>>
        /\ pc[p] = "clear" /\ pc' = [pc EXCEPT ![p] = "done"]
    BY <1>21 DEF ClearLog, Goto, Running
  <2>2. \A q \in Proc : pc'[q] \notin {"write_log", "write_head", "install", "clear"}
    BY <1>2, <1>4, <2>1 DEF InCommit
  <2> QED
    BY <1>3, <2>1, <2>2 DEF Stored
<1>22. ASSUME NEW p \in Proc, EndCommit(p) PROVE Stored'
  <2>1. UNCHANGED <<header, boot>> /\ boot = "up" /\ pc[p] = "done"
    BY <1>22 DEF EndCommit, disk, Running
  <2>2. \A q \in Proc : ~InCommit(q)'
    <3>1. pc' = WakeLog([pc EXCEPT ![p] = "out"])
      BY <1>22 DEF EndCommit
    <3> QED
      BY <1>2, <1>4, <2>1, <3>1 DEF InCommit, WakeLog
  <2> QED
    BY <1>3, <2>1, <2>2, StoredNone
<1>23. CASE Crash
  <2>1. UNCHANGED header /\ boot' = "read_head" /\ pc' = [q \in Proc |-> "out"]
    BY <1>23 DEF Crash, disk
  <2>2. \A q \in Proc : ~InCommit(q)'
    BY <2>1 DEF InCommit
  <2> QED
    BY <1>3, <2>1, <2>2, StoredNone
<1>24. CASE ReadHead
  <2>1. /\ UNCHANGED header /\ lh' = header /\ tail' = 1
        /\ boot' = IF header = <<>> THEN "clear" ELSE "install"
    BY <1>24 DEF ReadHead, disk
  <2>2. \A q \in Proc : pc'[q] = "out"
    BY <1>1, <1>24 DEF ReadHead, BootAlone
  <2>3. (\A i \in 1 .. tail' - 1 : FALSE) /\ (header = <<>> => DOMAIN lh' = {})
    BY <2>1
  <2> QED
    BY <1>3, <2>1, <2>2, <2>3 DEF Stored
<1>25. CASE RecoverInstall
  <2>1. /\ UNCHANGED <<header, lh, logdisk>> /\ InstallBlock
        /\ boot = "install" /\ boot' = IF tail < Len(lh) THEN "install" ELSE "clear"
    BY <1>25 DEF RecoverInstall, log
  <2>2. \A q \in Proc : pc'[q] = "out"
    BY <1>1, <1>25 DEF RecoverInstall, BootAlone
  <2>3. tail \in 1 .. Len(lh) /\ tail < nlog
    BY <1>1, <1>3, <2>1 DEF BootKnown, Installing
  <2>4. /\ home' = [home EXCEPT ![lh[tail]] = logdisk[tail]]
        /\ tail' = IF tail < Len(lh) THEN tail + 1 ELSE 1
    BY <2>1, <2>3 DEF InstallBlock, LogBlock
  <2>5. ASSUME NEW i \in 1 .. tail PROVE i \in DOMAIN lh /\ home'[lh[i]] = logdisk[i]
    <3>1. i \in DOMAIN lh /\ tail \in DOMAIN lh
      BY <1>3, <2>3
    <3>2. CASE i = tail
      BY <1>2, <1>6, <2>4, <3>1, <3>2
    <3>3. CASE i # tail
      <4>1. lh[i] # lh[tail]
        BY <1>6, <3>1, <3>3 DEF Once
      <4>2. home[lh[i]] = logdisk[i]
        BY <1>2, <2>1, <3>3 DEF Stored
      <4> QED
        BY <1>2, <1>6, <2>4, <3>1, <4>1, <4>2
    <3> QED
      BY <3>2, <3>3
  <2>6. CASE tail < Len(lh)
    <3>1. tail' - 1 = tail /\ boot' = "install"
      BY <1>2, <2>1, <2>4, <2>6
    <3> QED
      BY <1>3, <2>1, <2>2, <2>5, <3>1 DEF Stored
  <2>7. CASE ~(tail < Len(lh))
    <3>1. tail = Len(lh)
      BY <1>7, <2>3, <2>7
    <3>2. boot' = "clear"
      BY <2>1, <2>7
    <3> QED
      BY <1>3, <2>1, <2>2, <2>5, <3>1, <3>2 DEF Stored
  <2> QED
    BY <2>6, <2>7
<1>26. CASE RecoverClear
  <2>1. boot' = "up" /\ header' = <<>>
    BY <1>26 DEF RecoverClear
  <2>2. \A q \in Proc : pc'[q] = "out"
    BY <1>1, <1>26 DEF RecoverClear, BootAlone
  <2> QED
    BY <1>3, <2>1, <2>2 DEF Stored
<1>27. CASE UNCHANGED vars
  <2>1. UNCHANGED <<header, lh, tail, logdisk, boot, home, cache, pc>>
    BY <1>27 DEF vars, disk, log, bcache
  <2> QED
    BY <2>1, ViewsStay, StoredStays DEF InCommit
<1> QED
  BY <1>8, <1>9, <1>10, <1>11, <1>12, <1>13, <1>14, <1>15, <1>16, <1>17, <1>18, <1>19, <1>20,
     <1>21, <1>22, <1>23, <1>24, <1>25, <1>26, <1>27
     DEF Next, LogStep, CallEndOp, Boot

-----------------------------------------------------------------------------
\* The cases in which a step of the log is a step of the atomic disk, or none.
LEMMA DiskNoStep ==
  ASSUME Stable' = Stable, Current' = Current, \A q \in Proc : InOp(q)' <=> InOp(q)
  PROVE  UNCHANGED AD!vars
<1>1. Ops' = Ops
  BY DEF Ops
<1> QED
  BY <1>1 DEF AD!vars, Ops

LEMMA DiskBegin ==
  ASSUME NEW p \in Proc, Stable' = Stable, Current' = Current, ~InOp(p), InOp(p)',
         \A q \in Proc : q # p => (InOp(q)' <=> InOp(q))
  PROVE  AD!Next
<1>1. p \notin Ops /\ Ops' = Ops \cup {p}
  BY DEF Ops
<1>2. AD!Begin(p)
  BY <1>1 DEF AD!Begin, Ops
<1> QED
  BY <1>2 DEF AD!Next

LEMMA DiskEnd ==
  ASSUME NEW p \in Proc, Stable' = Stable, Current' = Current, InOp(p), ~InOp(p)',
         \A q \in Proc : q # p => (InOp(q)' <=> InOp(q))
  PROVE  AD!Next
<1>1. p \in Ops /\ Ops' = Ops \ {p}
  BY DEF Ops
<1>2. AD!End(p)
  BY <1>1 DEF AD!End, Ops
<1> QED
  BY <1>2 DEF AD!Next

LEMMA DiskWrite ==
  ASSUME NEW p \in Proc, NEW b \in Block, NEW d \in Data, InOp(p), Stable' = Stable,
         Current' = [Current EXCEPT ![b] = d], \A q \in Proc : InOp(q)' <=> InOp(q)
  PROVE  AD!Next
<1>1. p \in Ops /\ Ops' = Ops
  BY DEF Ops
<1>2. AD!Write(p, b, d)
  BY <1>1 DEF AD!Write, Ops
<1> QED
  BY <1>2 DEF AD!Next

LEMMA DiskCommit ==
  ASSUME Stable' = Current, Current' = Current, \A q \in Proc : ~InOp(q) /\ ~InOp(q)'
  PROVE  AD!Next
<1>1. Ops = {} /\ Ops' = {}
  BY DEF Ops
<1>2. AD!Commit
  BY <1>1 DEF AD!Commit, Ops
<1> QED
  BY <1>2 DEF AD!Next

LEMMA DiskCrash ==
  ASSUME Stable' = Stable, Current' = Stable, \A q \in Proc : ~InOp(q)'
  PROVE  AD!Next
<1>1. Ops' = {}
  BY DEF Ops
<1>2. AD!Crash
  BY <1>1 DEF AD!Crash, Ops
<1> QED
  BY <1>2 DEF AD!Next

\* What a crash would leave, and what the calls see, is determined by its blocks.
LEMMA ByBlocks ==
  /\ Stable = [b \in Block |-> Stable[b]] /\ Stable' = [b \in Block |-> Stable'[b]]
  /\ Current = [b \in Block |-> IF boot = "up" THEN View(b) ELSE Stable[b]]
  /\ Current' = [b \in Block |-> IF boot' = "up" THEN View(b)' ELSE Stable'[b]]
<1>1. Stable = [b \in Block |-> Stable[b]]
  BY DEF Stable
<1>2. Stable' = [b \in Block |-> Stable'[b]]
  BY DEF Stable
<1>3. Current = [b \in Block |-> IF boot = "up" THEN View(b) ELSE Stable[b]]
  BY <1>1 DEF Current
<1>4. Current' = [b \in Block |-> IF boot' = "up" THEN View(b)' ELSE Stable'[b]]
  BY <1>2 DEF Current
<1> QED
  BY <1>1, <1>2, <1>3, <1>4

\* A step that leaves the disk alone and changes nothing that the calls see.
LEMMA DiskStays ==
  ASSUME UNCHANGED <<header, logdisk, home, boot>>, \A b \in Block : View(b)' = View(b)
  PROVE  Stable' = Stable /\ Current' = Current
<1>1. Stable' = Stable
  BY DEF Stable, Recovered
<1> QED
  BY <1>1, ByBlocks

\* Without entries a crash leaves the home blocks.
LEMMA StableIsHome ==
  ASSUME IInv
  PROVE  header = <<>> => \A b \in Block : Stable[b] = home[b]
BY DEF Stable, Entries

LEMMA StableIsHomeNext ==
  header' = <<>> => \A b \in Block : Stable'[b] = home'[b]
BY DEF Stable, Entries

LEMMA NextDisk ==
  ASSUME IInv, IInv', Stored, Stored', LogInBounds, [Next]_vars
  PROVE  AD!Next \/ UNCHANGED AD!vars
<1>1. /\ TypeOK /\ BootAlone /\ CommitAlone /\ CommitKnown /\ BootKnown /\ DirtyLogged /\ Clean
      /\ LocksHeld /\ EntriesOnce
  BY DEF IInv
<1>2. /\ pc \in [Proc -> Labels] /\ lh \in Seq(Block) /\ header \in Seq(Block)
      /\ locked \in [Block -> Proc \cup {None}] /\ logdisk \in [1 .. nlog - 1 -> Data]
      /\ cache \in [Block -> Data \cup {None}] /\ home \in [Block -> Data] /\ tail \in Nat
  BY <1>1 DEF TypeOK
<1>3. Len(lh) < nlog
  BY <1>2, LogAssumption DEF LogInBounds
<1>4. /\ \A p \in Proc : InCommit(p) => \A q \in Proc : ~InOp(q) /\ (q # p => ~InCommit(q))
      /\ \A p \in Proc : InOp(p) => ~committing
  BY <1>1 DEF CommitAlone
<1>5. /\ \A i \in DOMAIN header : header[i] \in Block /\ Stable[header[i]] = logdisk[i]
      /\ \A b \in Block : b \notin Entries(header) => Stable[b] = home[b]
  BY <1>1, <1>2, StableNow DEF EntriesOnce, Stored
<1>6. /\ \A i \in DOMAIN header' : header'[i] \in Block /\ Stable'[header'[i]] = logdisk'[i]
      /\ \A b \in Block : b \notin Entries(header') => Stable'[b] = home'[b]
  BY StableNext DEF EntriesOnce, Stored, IInv, TypeOK
<1>7. \A s : \A b \in Entries(s) : \E i \in DOMAIN s : s[i] = b
  BY DEF Entries
<1>8. \A q \in Proc : InCommit(q) \/ pc[q] = "out" => ~InOp(q)
  BY DEF InCommit, InOp
<1>9. (\A q \in Proc : ~InOp(q)) => \A b \in Block : locked[b] = None
  BY <1>1, <1>2 DEF LocksHeld, InOp
<1>10. ASSUME NEW p \in Proc, CallBeginOp(p)
      PROVE  AD!Next \/ UNCHANGED AD!vars
  <2>1. /\ UNCHANGED <<header, logdisk, home, boot, cache>>
        /\ pc[p] = "out" /\ pc' = [pc EXCEPT ![p] = "begin"]
    BY <1>10 DEF CallBeginOp, Goto, disk, bcache
  <2>2. \A q \in Proc : InOp(q)' <=> InOp(q)
    BY <1>2, <2>1 DEF InOp
  <2> QED
    BY <2>1, <2>2, ViewsStay, DiskStays, DiskNoStep
<1>11. ASSUME NEW p \in Proc, BeginOpSleep(p)
      PROVE  AD!Next \/ UNCHANGED AD!vars
  <2>1. /\ UNCHANGED <<header, logdisk, home, boot, cache>>
        /\ pc[p] = "begin" /\ pc' = [pc EXCEPT ![p] = "sleep"]
    BY <1>11 DEF BeginOpSleep, Goto, disk, bcache
  <2>2. \A q \in Proc : InOp(q)' <=> InOp(q)
    BY <1>2, <2>1 DEF InOp
  <2> QED
    BY <2>1, <2>2, ViewsStay, DiskStays, DiskNoStep
<1>12. ASSUME NEW p \in Proc, Kill(p)
      PROVE  AD!Next \/ UNCHANGED AD!vars
  <2>1. /\ UNCHANGED <<header, logdisk, home, boot, cache>>
        /\ pc[p] = "sleep" /\ pc' = [pc EXCEPT ![p] = "begin"]
    BY <1>12 DEF Kill, Goto, disk, bcache
  <2>2. \A q \in Proc : InOp(q)' <=> InOp(q)
    BY <1>2, <2>1 DEF InOp
  <2> QED
    BY <2>1, <2>2, ViewsStay, DiskStays, DiskNoStep
<1>13. ASSUME NEW p \in Proc, BeginOp(p)
      PROVE  AD!Next \/ UNCHANGED AD!vars
  <2>1. /\ UNCHANGED <<header, logdisk, home, boot, cache>>
        /\ pc[p] = "begin" /\ pc' = [pc EXCEPT ![p] = "op"]
    BY <1>13 DEF BeginOp, Goto, disk, bcache
  <2>2. ~InOp(p) /\ InOp(p)' /\ \A q \in Proc : q # p => (InOp(q)' <=> InOp(q))
    BY <1>2, <2>1 DEF InOp
  <2> QED
    BY <2>1, <2>2, ViewsStay, DiskStays, DiskBegin
<1>14. ASSUME NEW p \in Proc, NEW b \in Block, NEW d \in Data, LogWriteCheck(p, b, d)
      PROVE  AD!Next \/ UNCHANGED AD!vars
  <2>1. /\ UNCHANGED <<header, logdisk, home, boot>> /\ boot = "up"
        /\ cache' = [cache EXCEPT ![b] = d]
        /\ pc[p] = "op" /\ pc' \in {pc, [pc EXCEPT ![p] = "append"]}
    BY <1>14 DEF LogWriteCheck, Goto, disk, Running
  <2>2. InOp(p) /\ \A q \in Proc : InOp(q)' <=> InOp(q)
    BY <1>2, <2>1 DEF InOp
  <2>3. Stable' = Stable
    BY <2>1 DEF Stable, Recovered
  <2>4. ASSUME NEW c \in Block PROVE View(c)' = IF c = b THEN d ELSE View(c)
    BY <1>2, <2>1, LogAssumption DEF View
  <2>5. Current' = [c \in Block |-> View(c)'] /\ Current = [c \in Block |-> View(c)]
    BY <2>1, ByBlocks
  <2>6. Current' = [Current EXCEPT ![b] = d]
    BY <2>4, <2>5
  <2> QED
    BY <2>2, <2>3, <2>6, DiskWrite
<1>15. ASSUME NEW p \in Proc, NEW b \in Block, LogWriteAppend(p, b)
      PROVE  AD!Next \/ UNCHANGED AD!vars
  <2>1. /\ UNCHANGED <<header, logdisk, home, boot, cache>>
        /\ pc[p] = "append" /\ pc' = [pc EXCEPT ![p] = "op"]
    BY <1>15 DEF LogWriteAppend, Goto, disk
  <2>2. \A q \in Proc : InOp(q)' <=> InOp(q)
    BY <1>2, <2>1 DEF InOp
  <2> QED
    BY <2>1, <2>2, ViewsStay, DiskStays, DiskNoStep
<1>16. ASSUME NEW b \in Block, ReadIn(b)
      PROVE  AD!Next \/ UNCHANGED AD!vars
  <2>1. UNCHANGED <<header, logdisk, home, boot, pc>>
    BY <1>16 DEF ReadIn, disk
  <2>2. \A c \in Block : View(c)' = View(c)
    BY <1>1, <1>16, CacheViews
  <2> QED
    BY <2>1, <2>2, DiskStays, DiskNoStep DEF InOp
<1>17. ASSUME NEW b \in Block, Recycle(b)
      PROVE  AD!Next \/ UNCHANGED AD!vars
  <2>1. UNCHANGED <<header, logdisk, home, boot, pc>>
    BY <1>17 DEF Recycle, disk
  <2>2. \A c \in Block : View(c)' = View(c)
    BY <1>1, <1>17, CacheViews
  <2> QED
    BY <2>1, <2>2, DiskStays, DiskNoStep DEF InOp
<1>18. ASSUME NEW p \in Proc, EndOp(p)
      PROVE  AD!Next \/ UNCHANGED AD!vars
  <2>1. UNCHANGED <<header, logdisk, home, boot, cache>> /\ pc[p] = "op"
    BY <1>18 DEF EndOp, disk, bcache
  <2>2. pc' = WakeLog([pc EXCEPT ![p] = "out"])
    BY <1>4, <2>1, <1>18 DEF EndOp, InOp
  <2>3. InOp(p) /\ ~InOp(p)' /\ \A q \in Proc : q # p => (InOp(q)' <=> InOp(q))
    BY <1>2, <2>1, <2>2 DEF InOp, WakeLog
  <2> QED
    BY <2>1, <2>3, ViewsStay, DiskStays, DiskEnd
<1>19. ASSUME NEW p \in Proc, EndOpCommit(p)
      PROVE  AD!Next \/ UNCHANGED AD!vars
  <2>1. /\ UNCHANGED <<header, logdisk, home, boot, cache>> /\ pc[p] = "op"
        /\ pc' = [pc EXCEPT ![p] = IF lh = <<>> THEN "done" ELSE "write_log"]
    BY <1>19 DEF EndOpCommit, Goto, disk, bcache
  <2>2. InOp(p) /\ ~InOp(p)' /\ \A q \in Proc : q # p => (InOp(q)' <=> InOp(q))
    BY <1>2, <2>1 DEF InOp
  <2> QED
    BY <2>1, <2>2, ViewsStay, DiskStays, DiskEnd
<1>20. ASSUME NEW p \in Proc, WriteLog(p)
      PROVE  AD!Next \/ UNCHANGED AD!vars
  <2>1. /\ UNCHANGED <<header, boot>>
        /\ pc[p] = "write_log" /\ WriteLogBlock(View(lh[tail]))
        /\ pc' = [pc EXCEPT ![p] = IF tail < Len(lh) THEN "write_log" ELSE "write_head"]
    BY <1>20 DEF WriteLog, Goto
  <2>2. header = <<>> /\ tail < nlog
    <3>1. tail \in 1 .. Len(lh) /\ Len(lh) \in Nat /\ nlog \in Nat
      BY <1>1, <1>2, <2>1, LogAssumption DEF CommitKnown
    <3> QED
      BY <1>1, <1>3, <2>1, <3>1 DEF CommitKnown
  <2>3. UNCHANGED <<home, cache>>
    BY <2>1, <2>2 DEF WriteLogBlock, bcache
  <2>4. \A q \in Proc : InOp(q)' <=> InOp(q)
    BY <1>2, <2>1 DEF InOp
  <2>5. \A b \in Block : Stable'[b] = Stable[b] /\ View(b)' = View(b)
    BY <2>1, <2>2, <2>3, StableIsHome, StableIsHomeNext, ViewsStay
  <2>6. Stable' = Stable /\ Current' = Current
    BY <2>1, <2>5, ByBlocks
  <2> QED
    BY <2>4, <2>6, DiskNoStep
<1>21. ASSUME NEW p \in Proc, WriteHead(p)
      PROVE  AD!Next \/ UNCHANGED AD!vars
  <2>1. /\ UNCHANGED <<lh, boot, logdisk, home, cache>> /\ boot = "up" /\ header' = lh
        /\ pc[p] = "write_head" /\ pc' = [pc EXCEPT ![p] = "install"]
    BY <1>21 DEF WriteHead, Goto, log, bcache, Running
  <2>2. \A q \in Proc : ~InOp(q) /\ ~InOp(q)'
    BY <1>2, <1>4, <2>1 DEF InOp, InCommit
  <2>3. \A b \in Block : View(b)' = View(b)
    BY <2>1, ViewsStay
  <2>4. \A i \in DOMAIN lh : logdisk[i] = View(lh[i])
    BY <2>1 DEF Stored
  <2>5. ASSUME NEW b \in Block PROVE Stable'[b] = View(b)
    <3>1. CASE b \in Entries(lh)
      <4>1. PICK i \in DOMAIN lh : lh[i] = b
        BY <1>7, <3>1
      <4>2. Stable'[lh[i]] = logdisk[i]
        BY <1>6, <2>1
      <4> QED
        BY <2>4, <4>1, <4>2
    <3>2. CASE b \notin Entries(lh)
      <4>1. Stable'[b] = home[b]
        BY <1>6, <2>1, <3>2
      <4>2. View(b) = home[b]
        BY <1>1, <1>9, <2>2, <3>2 DEF Clean, DirtyLogged
      <4> QED
        BY <4>1, <4>2
    <3> QED
      BY <3>1, <3>2
  <2>6. Stable' = Current /\ Current' = Current
    BY <2>1, <2>3, <2>5, ByBlocks
  <2> QED
    BY <2>2, <2>6, DiskCommit
<1>22. ASSUME NEW p \in Proc, InstallTrans(p)
      PROVE  AD!Next \/ UNCHANGED AD!vars
  <2>1. /\ UNCHANGED <<header, lh, boot, logdisk>> /\ boot = "up" /\ InstallBlock
        /\ pc[p] = "install" /\ pc' \in {[pc EXCEPT ![p] = "install"], [pc EXCEPT ![p] = "clear"]}
    BY <1>22 DEF InstallTrans, Goto, log, Running
  <2>2. Installing
    BY <1>1, <2>1 DEF CommitKnown
  <2>3. \A i \in DOMAIN lh : logdisk[i] = View(lh[i])
    BY <2>1 DEF Stored
  <2>4. \A b \in Block : View(b)' = View(b)
    BY <1>1, <1>3, <2>1, <2>2, <2>3, InstallViews
  <2>5. \A q \in Proc : InOp(q)' <=> InOp(q)
    BY <1>2, <2>1 DEF InOp
  <2>6. home' = [home EXCEPT ![lh[tail]] = logdisk[tail]] /\ tail \in DOMAIN lh
    <3>1. tail \in 1 .. Len(lh) /\ Len(lh) \in Nat /\ nlog \in Nat
      BY <1>2, <2>2, LogAssumption DEF Installing
    <3>2. LogBlock(tail) = logdisk[tail]
      BY <1>3, <3>1 DEF LogBlock
    <3> QED
      BY <2>1, <3>1, <3>2 DEF InstallBlock
  <2>7. ASSUME NEW b \in Block PROVE Stable'[b] = Stable[b]
    <3>1. CASE b \in Entries(header)
      BY <1>5, <1>6, <1>7, <2>1, <3>1
    <3>2. CASE b \notin Entries(header)
      <4>1. b # lh[tail]
        BY <2>2, <2>6, <3>2 DEF Installing, Entries
      <4>2. home'[b] = home[b]
        BY <1>2, <2>6, <4>1
      <4> QED
        BY <1>5, <1>6, <2>1, <3>2, <4>2
    <3> QED
      BY <3>1, <3>2
  <2>8. Stable' = Stable /\ Current' = Current
    BY <2>1, <2>4, <2>7, ByBlocks
  <2> QED
    BY <2>5, <2>8, DiskNoStep
<1>23. ASSUME NEW p \in Proc, ClearLog(p)
      PROVE  AD!Next \/ UNCHANGED AD!vars
  <2>1. /\ UNCHANGED <<boot, home, cache>> /\ boot = "up" /\ header' = <<>>
        /\ pc[p] = "clear" /\ pc' = [pc EXCEPT ![p] = "done"]
    BY <1>23 DEF ClearLog, Goto, bcache, Running
  <2>2. header = lh /\ dirty = {} /\ \A i \in DOMAIN lh : logdisk[i] = View(lh[i])
    BY <1>1, <2>1 DEF CommitKnown, Stored
  <2>3. \A q \in Proc : ~InOp(q) /\ ~InOp(q)'
    BY <1>2, <1>4, <2>1 DEF InOp, InCommit
  <2>4. \A b \in Block : View(b) = home[b]
    BY <1>1, <1>9, <2>2, <2>3 DEF Clean
  <2>5. ASSUME NEW b \in Block PROVE Stable'[b] = Stable[b]
    <3>1. Stable'[b] = home[b]
      BY <2>1, StableIsHomeNext
    <3>2. Stable[b] = home[b]
      BY <1>5, <1>7, <2>2, <2>4
    <3> QED
      BY <3>1, <3>2
  <2>6. Stable' = Stable /\ Current' = Current
    BY <2>1, <2>5, ViewsStay, ByBlocks
  <2> QED
    BY <2>3, <2>6, DiskNoStep
<1>24. ASSUME NEW p \in Proc, EndCommit(p)
      PROVE  AD!Next \/ UNCHANGED AD!vars
  <2>1. UNCHANGED <<header, logdisk, home, boot, cache>> /\ pc[p] = "done"
    BY <1>24 DEF EndCommit, disk, bcache
  <2>2. pc' = WakeLog([pc EXCEPT ![p] = "out"])
    BY <1>24 DEF EndCommit
  <2>3. \A q \in Proc : InOp(q)' <=> InOp(q)
    BY <1>2, <2>1, <2>2 DEF InOp, WakeLog
  <2> QED
    BY <2>1, <2>3, ViewsStay, DiskStays, DiskNoStep
<1>25. CASE Crash
  <2>1. /\ UNCHANGED <<header, logdisk, home>> /\ boot' = "read_head"
        /\ pc' = [q \in Proc |-> "out"]
    BY <1>25 DEF Crash, disk
  <2>2. Stable' = Stable
    BY <2>1 DEF Stable, Recovered
  <2>3. Current' = Stable
    BY <2>1, <2>2 DEF Current
  <2>4. \A q \in Proc : ~InOp(q)'
    BY <2>1 DEF InOp
  <2> QED
    BY <2>2, <2>3, <2>4, DiskCrash
<1>26. CASE ReadHead
  <2>1. UNCHANGED <<header, logdisk, home, pc>> /\ boot # "up" /\ boot' # "up"
    BY <1>26 DEF ReadHead, disk
  <2>2. Stable' = Stable
    BY <2>1 DEF Stable, Recovered
  <2>3. Current' = Current
    BY <2>1, <2>2 DEF Current
  <2> QED
    BY <2>1, <2>2, <2>3, DiskNoStep DEF InOp
<1>27. CASE RecoverInstall
  <2>1. /\ UNCHANGED <<header, lh, logdisk, pc>> /\ InstallBlock
        /\ boot = "install" /\ boot' # "up"
    BY <1>27 DEF RecoverInstall, log
  <2>2. Installing
    BY <1>1, <2>1 DEF BootKnown
  <2>3. home' = [home EXCEPT ![lh[tail]] = logdisk[tail]] /\ tail \in DOMAIN lh
    <3>1. tail \in 1 .. Len(lh) /\ Len(lh) \in Nat /\ nlog \in Nat
      BY <1>2, <2>2, LogAssumption DEF Installing
    <3>2. LogBlock(tail) = logdisk[tail]
      BY <1>3, <3>1 DEF LogBlock
    <3> QED
      BY <2>1, <3>1, <3>2 DEF InstallBlock
  <2>4. ASSUME NEW b \in Block PROVE Stable'[b] = Stable[b]
    <3>1. CASE b \in Entries(header)
      BY <1>5, <1>6, <1>7, <2>1, <3>1
    <3>2. CASE b \notin Entries(header)
      <4>1. b # lh[tail]
        BY <2>2, <2>3, <3>2 DEF Installing, Entries
      <4>2. home'[b] = home[b]
        BY <1>2, <2>3, <4>1
      <4> QED
        BY <1>5, <1>6, <2>1, <3>2, <4>2
    <3> QED
      BY <3>1, <3>2
  <2>5. Stable' = Stable /\ Current' = Current
    BY <2>1, <2>4, ByBlocks
  <2> QED
    BY <2>1, <2>5, DiskNoStep DEF InOp
<1>28. CASE RecoverClear
  <2>1. /\ UNCHANGED <<home, cache, pc>> /\ boot = "clear" /\ boot' = "up" /\ header' = <<>>
    BY <1>28 DEF RecoverClear, bcache
  <2>2. header = lh /\ \A i \in DOMAIN lh : home[lh[i]] = logdisk[i]
    BY <1>1, <2>1 DEF BootKnown, Stored
  <2>3. dirty = {} /\ \A b \in Block : locked[b] = None
    BY <1>1, <2>1 DEF BootAlone
  <2>4. \A b \in Block : View(b)' = home[b]
    BY <1>1, <2>1, <2>3, ViewsStay DEF Clean
  <2>5. ASSUME NEW b \in Block PROVE Stable'[b] = home[b] /\ Stable[b] = home[b]
    <3>1. Stable'[b] = home[b]
      BY <2>1, StableIsHomeNext
    <3>2. Stable[b] = home[b]
      BY <1>5, <1>7, <2>2
    <3> QED
      BY <3>1, <3>2
  <2>6. Stable' = Stable /\ Current' = Current
    BY <2>1, <2>4, <2>5, ByBlocks
  <2> QED
    BY <2>1, <2>6, DiskNoStep DEF InOp
<1>29. CASE UNCHANGED vars
  <2>1. UNCHANGED <<header, logdisk, home, boot, cache, pc>>
    BY <1>29 DEF vars, disk, bcache
  <2> QED
    BY <2>1, ViewsStay, DiskStays, DiskNoStep DEF InOp
<1> QED
  BY <1>10, <1>11, <1>12, <1>13, <1>14, <1>15, <1>16, <1>17, <1>18, <1>19, <1>20, <1>21,
     <1>22, <1>23, <1>24, <1>25, <1>26, <1>27, <1>28, <1>29
     DEF Next, LogStep, CallEndOp, Boot

LEMMA InitDisk == Init => AD!Init /\ Stored
<1> SUFFICES ASSUME Init PROVE AD!Init /\ Stored
  OBVIOUS
<1>1. IInv
  BY InitIInv
<1>2. \A b \in Block : Stable[b] = Zero
  BY <1>1, StableIsHome DEF Init
<1>3. Stable = [b \in Block |-> Zero] /\ Current = [b \in Block |-> Zero]
  BY <1>2, ByBlocks DEF Init
<1>4. {p \in Proc : InOp(p)} = {}
  BY DEF Init, InOp
<1>5. Stored
  BY LogAssumption DEF Init, Stored
<1> QED
  BY <1>3, <1>4, <1>5 DEF AD!Init

\* The log implements the atomic disk, recovery included, as long as the entries stay
\* inside the blocks the log has on the disk, which log_write's test means to ensure
\* (LAB4/log.c:9-21, :193-202, :218).
THEOREM LogImplementsAtomicDisk == SafeSpec /\ []LogInBounds => ImplementsAtomicDisk
<1>1. IInv /\ IInv' /\ Stored /\ LogInBounds /\ LogInBounds' /\ [Next]_vars => Stored'
  BY NextStored
<1>2. IInv /\ IInv' /\ Stored /\ Stored' /\ LogInBounds /\ [Next]_vars => [AD!Next]_AD!vars
  BY NextDisk
<1> QED
  BY <1>1, <1>2, InitDisk, LogInvariant, PTL DEF SafeSpec, ImplementsAtomicDisk, AD!Spec

-----------------------------------------------------------------------------
(***************************************************************************)
(* Calls that stay below what begin_op reserves for them.                  *)
(***************************************************************************)
\* No call logs as many blocks as begin_op reserves for it.  filewrite() sees to it
\* for writes: it makes calls of (MAXOPBLOCKS-1-1-2)/2 blocks of data
\* (LAB4/file.c:127-137).
ShortCalls == \A p \in Proc : Cardinality(wrote[p]) < MAXOPBLOCKS

\* Pairs of a process and one of its blocks, k at most for each process.
LEMMA PairsBound ==
  ASSUME NEW S, IsFiniteSet(S), NEW k \in Nat, NEW w,
         \A p \in S : w[p] \subseteq Block /\ Cardinality(w[p]) <= k
  PROVE  Cardinality({x \in S \X Block : x[2] \in w[x[1]]}) <= Cardinality(S) * k
<1> DEFINE Pairs == {x \in S \X Block : x[2] \in w[x[1]]}
           num == [p \in S |-> CHOOSE f : f \in Injection(w[p], 1 .. k)]
           at == [x \in Pairs |-> <<x[1], num[x[1]][x[2]]>>]
<1>1. IsFiniteSet(1 .. k) /\ Cardinality(1 .. k) = k
  BY FS_Interval
<1>2. IsFiniteSet(S \X (1 .. k)) /\ Cardinality(S \X (1 .. k)) = Cardinality(S) * k
  BY <1>1, FS_Product
<1>3. ASSUME NEW p \in S PROVE num[p] \in Injection(w[p], 1 .. k)
  <2>1. IsFiniteSet(w[p])
    BY LogAssumption, FS_Subset
  <2>2. Cardinality(w[p]) \in Nat /\ ExistsBijection(1 .. Cardinality(w[p]), w[p])
    BY <2>1, FS_CardinalityType
  <2>3. ExistsBijection(w[p], 1 .. Cardinality(w[p]))
    BY <2>2, Fun_ExistsBijSymmetric
  <2>4. PICK f : f \in Bijection(w[p], 1 .. Cardinality(w[p]))
    BY <2>3 DEF ExistsBijection
  <2>5. /\ f \in [w[p] -> 1 .. Cardinality(w[p])]
        /\ \A a, b \in w[p] : f[a] = f[b] => a = b
    BY <2>4 DEF Bijection, Injection, IsInjective
  <2>6. f \in [w[p] -> 1 .. k]
    BY <2>2, <2>5
  <2>7. f \in Injection(w[p], 1 .. k)
    BY <2>5, <2>6, Fun_IsInj
  <2> QED
    BY <2>7
<1>4. ASSUME NEW x \in Pairs
      PROVE  /\ x[1] \in S /\ x[2] \in w[x[1]] /\ x = <<x[1], x[2]>>
             /\ at[x] = <<x[1], num[x[1]][x[2]]>> /\ at[x] \in S \X (1 .. k)
  <2>1. x[1] \in S /\ x[2] \in w[x[1]] /\ x = <<x[1], x[2]>>
    OBVIOUS
  <2>2. num[x[1]][x[2]] \in 1 .. k
    BY <1>3, <2>1, Fun_InjectionProperties
  <2> QED
    BY <2>1, <2>2
<1>5. ASSUME NEW x \in Pairs, NEW y \in Pairs, at[x] = at[y] PROVE x = y
  <2> HIDE DEF Pairs, num, at
  <2>1. x[1] = y[1] /\ num[x[1]][x[2]] = num[x[1]][y[2]]
    BY <1>4, <1>5
  <2>2. x[2] = y[2]
    BY <1>3, <1>4, <2>1, Fun_InjectionProperties
  <2> QED
    BY <1>4, <2>1, <2>2
<1>6. at \in Injection(Pairs, S \X (1 .. k))
  <2>1. at \in [Pairs -> S \X (1 .. k)]
    BY <1>4
  <2> QED
    BY <1>5, <2>1, Fun_IsInj
<1> QED
  BY <1>2, <1>6, FS_Injection

\* Each short call leaves one entry of what is reserved for it.
EntryEach == Len(lh) + outstanding <= LOGSIZE
LEMMA ShortReserved == IInv /\ ShortCalls => EntryEach
<1> SUFFICES ASSUME IInv, ShortCalls PROVE EntryEach
  OBVIOUS
<1> DEFINE k == MAXOPBLOCKS - 1
           Pairs == {x \in Ops \X Block : x[2] \in wrote[x[1]]}
<1>1. /\ lh \in Seq(Block) /\ wrote \in [Proc -> SUBSET Block] /\ outstanding \in Nat
      /\ outstanding = Cardinality(Ops)
      /\ Len(lh) + outstanding * MAXOPBLOCKS <= LOGSIZE + Cardinality(Logged)
  BY DEF IInv, TypeOK, CommitAlone, Ops, Reserved
<1>2. k \in Nat /\ MAXOPBLOCKS = k + 1 /\ LOGSIZE \in Nat
  BY LogAssumption
<1>3. IsFiniteSet(Ops)
  BY LogAssumption, FS_Subset DEF Ops
<1>4. ASSUME NEW p \in Ops PROVE wrote[p] \subseteq Block /\ Cardinality(wrote[p]) <= k
  <2>1. p \in Proc /\ wrote[p] \subseteq Block
    BY <1>1 DEF Ops
  <2>2. Cardinality(wrote[p]) \in Nat
    BY <2>1, LogAssumption, FS_Subset, FS_CardinalityType
  <2> QED
    BY <1>2, <2>1, <2>2 DEF ShortCalls
<1>5. Cardinality(Pairs) <= Cardinality(Ops) * k
  BY <1>2, <1>3, <1>4, PairsBound
<1>6. Logged = Pairs
  BY DEF Logged, Ops
<1>7. Cardinality(Logged) <= outstanding * k
  BY <1>1, <1>5, <1>6
<1>8. IsFiniteSet(Proc \X Block) /\ Logged \subseteq Proc \X Block
  BY LogAssumption, FS_Product DEF Logged
<1>9. Cardinality(Logged) \in Nat
  BY <1>8, FS_Subset, FS_CardinalityType
<1>10. outstanding * MAXOPBLOCKS = outstanding * k + outstanding
  BY <1>1, <1>2
<1>11. outstanding * k \in Nat
  BY <1>1, <1>2
<1>12. Len(lh) \in Nat
  BY <1>1, LenProperties
<1>13. ASSUME NEW o \in Nat, NEW c \in Nat, NEW m \in Nat, NEW s \in Nat,
              s + (m + o) <= LOGSIZE + c, c <= m
       PROVE  s + o <= LOGSIZE
  BY <1>2, <1>13
<1> QED
  BY <1>1, <1>7, <1>9, <1>10, <1>11, <1>12, <1>13 DEF EntryEach

\* One entry at least is left over, in memory and in the header on the disk.
OneLeft == Len(lh) < LOGSIZE /\ Len(header) < LOGSIZE

\* Only log_write makes the log longer; the commit and the recovery copy lh to the
\* header and back, or empty them.
LEMMA NextOneLeft ==
  ASSUME IInv, IInv', EntryEach', OneLeft, [Next]_vars
  PROVE  OneLeft'
<1>1. /\ lh \in Seq(Block) /\ lh' \in Seq(Block) /\ LOGSIZE \in Nat \ {0}
      /\ outstanding' \in Nat /\ Len(<<>>) = 0
  BY LogAssumption DEF IInv, TypeOK
<1>2. ASSUME NEW p \in Proc, NEW b \in Block, LogWriteAppend(p, b) PROVE OneLeft'
  <2>1. header' = header /\ outstanding' = outstanding
    BY <1>2 DEF LogWriteAppend, disk
  <2>2. outstanding >= 1
    BY <1>2, OpCounted DEF IInv, InOp, LogWriteAppend
  <2> QED
    BY <1>1, <2>1, <2>2, LenProperties DEF OneLeft, EntryEach
<1>3. ASSUME \A p \in Proc, b \in Block : ~LogWriteAppend(p, b)
      PROVE  lh' \in {lh, header, <<>>} /\ header' \in {lh, header, <<>>}
  BY <1>3 DEF Next, LogStep, CallEndOp, Boot, CallBeginOp, Kill, BeginOp, BeginOpSleep,
     LogWriteCheck, ReadIn, Recycle, EndOp, EndOpCommit, WriteLog, WriteHead, InstallTrans,
     ClearLog, EndCommit, Crash, ReadHead, RecoverInstall, RecoverClear, disk, log, vars
<1> QED
  BY <1>1, <1>2, <1>3 DEF OneLeft

\* Short calls never reach the block behind the log, though mkfs counts the header
\* among its LOGSIZE blocks and log_write tests the length before it takes log.lock
\* (LAB4/log.c:218-230, LAB4/mkfs.c:25): the log then implements the atomic disk.
THEOREM LogShortCalls == SafeSpec /\ []ShortCalls => []LogInBounds /\ ImplementsAtomicDisk
<1>1. Init => OneLeft
  BY LogAssumption DEF Init, OneLeft
<1>2. IInv /\ IInv' /\ EntryEach' /\ OneLeft /\ [Next]_vars => OneLeft'
  BY NextOneLeft
<1>3. IInv /\ OneLeft => LogInBounds
  BY LogAssumption, LenProperties DEF IInv, TypeOK, OneLeft, LogInBounds
<1>4. SafeSpec /\ []ShortCalls => []LogInBounds
  BY <1>1, <1>2, <1>3, ShortReserved, LogInvariant, PTL DEF SafeSpec
<1> QED
  BY <1>4, LogImplementsAtomicDisk, PTL
=============================================================================
