----------------------------- MODULE RWLockProofs -----------------------------
(***************************************************************************)
(* Theorems about the reader-writer lock of LAB4/rwlock.c, for any finite  *)
(* set of processes: IInv is inductive, a writer is alone, the counts agree*)
(* with the units of the two semaphores, and no increment is lost.         *)
(***************************************************************************)
EXTENDS RWLock, TLAPS, FiniteSetTheorems

\* Who holds the unit of read_sem, and who is counted in write_waiting.
Entering == {p \in Proc : pc[p] \in {"r_count", "r_first", "r_unlock", "r_signal"}}
Waiting == {p \in Proc : pc[p] \in {"w_wait", "load", "store", "w_uncount"}}

\* The inductive invariant.  The unit of read_sem admits one reader at a time; the
\* spin lock is with the process between acquire and release, who knows what its
\* change made of read_count; and a writer's load is not out of date.
LockOwned == \A p \in Proc :
  pc[p] \in {"r_first", "r_unlock", "r_last", "r_release"} <=> lock = p
ReadUnitOwned == read_sem + Cardinality(Entering) = 1
WritersCounted == write_waiting = Cardinality(Waiting)
EndsKnown == \A p \in Proc : /\ pc[p] = "r_first" => read_count = 1
                             /\ pc[p] = "r_last" => read_count = 0
LoadFresh == \A p \in Proc : pc[p] = "store" => loaded[p] = shared_value

IInv == /\ TypeOK
        /\ LockOwned
        /\ ReadUnitOwned
        /\ WritersCounted
        /\ EndsKnown
        /\ CountsKept
        /\ LoadFresh

\* The readers together have the unit of write_sem.
Inside == Reading # {} \/ AtLast # {}

-----------------------------------------------------------------------------
\* A set of processes counts the same, one more or one less when one process moves.
LEMMA OneMoves ==
  ASSUME NEW S \in SUBSET Proc, NEW T \in SUBSET Proc, NEW p,
         \A q \in Proc : q # p => (q \in S <=> q \in T)
  PROVE  /\ Cardinality(S) \in Nat
         /\ Cardinality(T) \in Nat
         /\ Cardinality(T) + (IF p \in S THEN 1 ELSE 0)
              = Cardinality(S) + (IF p \in T THEN 1 ELSE 0)
<1>1. (p \in T => T = S \cup {p}) /\ (p \notin T => T = S \ {p})
  OBVIOUS
<1>2. IsFiniteSet(S) /\ IsFiniteSet(T)
  BY RWAssumption, FS_Subset
<1>3. Cardinality(S \cup {p}) = IF p \in S THEN Cardinality(S) ELSE Cardinality(S) + 1
  BY <1>2, FS_AddElement
<1>4. Cardinality(S \ {p}) = IF p \in S THEN Cardinality(S) - 1 ELSE Cardinality(S)
  BY <1>2, FS_RemoveElement
<1>5. Cardinality(S) \in Nat /\ Cardinality(T) \in Nat
  BY <1>2, FS_CardinalityType
<1>6. CASE p \in T
  <2>1. Cardinality(T) = Cardinality(S \cup {p})
    BY <1>1, <1>6
  <2> QED
    BY <1>3, <1>5, <1>6, <2>1
<1>7. CASE p \notin T
  <2>1. Cardinality(T) = Cardinality(S \ {p})
    BY <1>1, <1>7
  <2> QED
    BY <1>4, <1>5, <1>7, <2>1
<1> QED
  BY <1>6, <1>7

\* At most one process is where a count of one says there is one.
LEMMA CountOfOne ==
  ASSUME NEW S \in SUBSET Proc
  PROVE  /\ Cardinality(S) \in 0 .. Cardinality(Proc)
         /\ Cardinality(S) = 0 <=> S = {}
         /\ Cardinality(S) = 1 => \A p, q \in S : p = q
         /\ (\A p, q \in S : p = q) => Cardinality(S) <= 1
<1>1. IsFiniteSet(S)
  BY RWAssumption, FS_Subset
<1>2. Cardinality(S) \in 0 .. Cardinality(Proc)
  BY <1>1, RWAssumption, FS_Subset, FS_CardinalityType
<1>3. Cardinality(S) = 0 <=> S = {}
  BY <1>1, FS_EmptySet
<1>4. Cardinality(S) = 1 <=> \E x : S = {x}
  BY <1>1, FS_Singleton
<1> QED
  BY <1>2, <1>3, <1>4

\* A step of p: what becomes of the labels.
Steps(p) == /\ pc' \in [Proc -> Labels]
            /\ \A q \in Proc : q # p => pc'[q] = pc[q]

\* How the four counts change in a step of p.
LEMMA CountsMove ==
  ASSUME NEW p \in Proc, Steps(p)
  PROVE  /\ Cardinality(Entering) \in Nat /\ Cardinality(Entering)' \in Nat
         /\ Cardinality(Entering)' + (IF pc[p] \in {"r_count", "r_first", "r_unlock", "r_signal"}
                                         THEN 1 ELSE 0)
              = Cardinality(Entering) + (IF pc'[p] \in {"r_count", "r_first", "r_unlock", "r_signal"}
                                            THEN 1 ELSE 0)
         /\ Cardinality(Waiting) \in Nat /\ Cardinality(Waiting)' \in Nat
         /\ Cardinality(Waiting)' + (IF pc[p] \in {"w_wait", "load", "store", "w_uncount"}
                                        THEN 1 ELSE 0)
              = Cardinality(Waiting) + (IF pc'[p] \in {"w_wait", "load", "store", "w_uncount"}
                                           THEN 1 ELSE 0)
         /\ Cardinality(Writing) \in Nat /\ Cardinality(Writing)' \in Nat
         /\ Cardinality(Writing)' + (IF pc[p] \in {"load", "store", "w_uncount", "w_signal"}
                                        THEN 1 ELSE 0)
              = Cardinality(Writing) + (IF pc'[p] \in {"load", "store", "w_uncount", "w_signal"}
                                           THEN 1 ELSE 0)
         /\ Cardinality(Counted) \in Nat /\ Cardinality(Counted)' \in Nat
         /\ Cardinality(Counted)' + (IF pc[p] \in {"r_first", "r_unlock", "r_signal", "read"}
                                        THEN 1 ELSE 0)
              = Cardinality(Counted) + (IF pc'[p] \in {"r_first", "r_unlock", "r_signal", "read"}
                                           THEN 1 ELSE 0)
<1>1. /\ Cardinality(Entering) \in Nat /\ Cardinality(Entering)' \in Nat
      /\ Cardinality(Entering)' + (IF pc[p] \in {"r_count", "r_first", "r_unlock", "r_signal"}
                                      THEN 1 ELSE 0)
           = Cardinality(Entering) + (IF pc'[p] \in {"r_count", "r_first", "r_unlock", "r_signal"}
                                         THEN 1 ELSE 0)
  <2>1. /\ Entering \in SUBSET Proc /\ Entering' \in SUBSET Proc
        /\ \A q \in Proc : q # p => (q \in Entering <=> q \in Entering')
    BY DEF Entering, Steps
  <2>2. /\ p \in Entering <=> pc[p] \in {"r_count", "r_first", "r_unlock", "r_signal"}
        /\ p \in Entering' <=> pc'[p] \in {"r_count", "r_first", "r_unlock", "r_signal"}
    BY DEF Entering
  <2> QED
    BY <2>1, <2>2, OneMoves
<1>2. /\ Cardinality(Waiting) \in Nat /\ Cardinality(Waiting)' \in Nat
      /\ Cardinality(Waiting)' + (IF pc[p] \in {"w_wait", "load", "store", "w_uncount"}
                                     THEN 1 ELSE 0)
           = Cardinality(Waiting) + (IF pc'[p] \in {"w_wait", "load", "store", "w_uncount"}
                                        THEN 1 ELSE 0)
  <2>1. /\ Waiting \in SUBSET Proc /\ Waiting' \in SUBSET Proc
        /\ \A q \in Proc : q # p => (q \in Waiting <=> q \in Waiting')
    BY DEF Waiting, Steps
  <2>2. /\ p \in Waiting <=> pc[p] \in {"w_wait", "load", "store", "w_uncount"}
        /\ p \in Waiting' <=> pc'[p] \in {"w_wait", "load", "store", "w_uncount"}
    BY DEF Waiting
  <2> QED
    BY <2>1, <2>2, OneMoves
<1>3. /\ Cardinality(Writing) \in Nat /\ Cardinality(Writing)' \in Nat
      /\ Cardinality(Writing)' + (IF pc[p] \in {"load", "store", "w_uncount", "w_signal"}
                                     THEN 1 ELSE 0)
           = Cardinality(Writing) + (IF pc'[p] \in {"load", "store", "w_uncount", "w_signal"}
                                        THEN 1 ELSE 0)
  <2>1. /\ Writing \in SUBSET Proc /\ Writing' \in SUBSET Proc
        /\ \A q \in Proc : q # p => (q \in Writing <=> q \in Writing')
    BY DEF Writing, Steps
  <2>2. /\ p \in Writing <=> pc[p] \in {"load", "store", "w_uncount", "w_signal"}
        /\ p \in Writing' <=> pc'[p] \in {"load", "store", "w_uncount", "w_signal"}
    BY DEF Writing
  <2> QED
    BY <2>1, <2>2, OneMoves
<1>4. /\ Cardinality(Counted) \in Nat /\ Cardinality(Counted)' \in Nat
      /\ Cardinality(Counted)' + (IF pc[p] \in {"r_first", "r_unlock", "r_signal", "read"}
                                     THEN 1 ELSE 0)
           = Cardinality(Counted) + (IF pc'[p] \in {"r_first", "r_unlock", "r_signal", "read"}
                                        THEN 1 ELSE 0)
  <2>1. /\ Counted \in SUBSET Proc /\ Counted' \in SUBSET Proc
        /\ \A q \in Proc : q # p => (q \in Counted <=> q \in Counted')
    BY DEF Counted, Steps
  <2>2. /\ p \in Counted <=> pc[p] \in {"r_first", "r_unlock", "r_signal", "read"}
        /\ p \in Counted' <=> pc'[p] \in {"r_first", "r_unlock", "r_signal", "read"}
    BY DEF Counted
  <2> QED
    BY <2>1, <2>2, OneMoves
<1> QED
  BY <1>1, <1>2, <1>3, <1>4

\* The counts are numbers of processes, and none if there are none.
LEMMA Counts ==
  /\ Cardinality(Entering) \in 0 .. Cardinality(Proc)
  /\ Cardinality(Waiting) \in 0 .. Cardinality(Proc)
  /\ Cardinality(Writing) \in 0 .. Cardinality(Proc)
  /\ Cardinality(Counted) \in 0 .. Cardinality(Proc)
  /\ Cardinality(Proc) \in Nat
  /\ Cardinality(Counted) = 0 <=> Counted = {}
  /\ Cardinality(Writing) = 0 <=> Writing = {}
  /\ Cardinality(Counted) = 1 => \A p, q \in Counted : p = q
  /\ Cardinality(Writing) = 1 => \A p, q \in Writing : p = q
<1>1. /\ Entering \in SUBSET Proc /\ Waiting \in SUBSET Proc
      /\ Writing \in SUBSET Proc /\ Counted \in SUBSET Proc
  BY DEF Entering, Waiting, Writing, Counted
<1>2. Cardinality(Proc) \in Nat
  BY RWAssumption, FS_CardinalityType
<1> QED
  BY <1>1, <1>2, CountOfOne

\* The same after a step.
LEMMA CountsPrime ==
  /\ Cardinality(Entering)' \in 0 .. Cardinality(Proc)
  /\ Cardinality(Waiting)' \in 0 .. Cardinality(Proc)
  /\ Cardinality(Writing)' \in 0 .. Cardinality(Proc)
  /\ Cardinality(Counted)' \in 0 .. Cardinality(Proc)
  /\ (Cardinality(Counted) = 0 <=> Counted = {})'
<1>1. /\ Entering' \in SUBSET Proc /\ Waiting' \in SUBSET Proc
      /\ Writing' \in SUBSET Proc /\ Counted' \in SUBSET Proc
  BY DEF Entering, Waiting, Writing, Counted
<1> QED
  BY <1>1, CountOfOne

\* sys_init_rw_lock() establishes the invariant (LAB4/rwlock.c:5-14).
LEMMA InitIInv == Init => IInv
<1> SUFFICES ASSUME Init PROVE IInv
  OBVIOUS
<1>1. \A p \in Proc : pc[p] = "idle"
  BY DEF Init
<1>2. Entering = {} /\ Waiting = {} /\ Writing = {} /\ Counted = {} /\ Reading = {} /\ AtLast = {}
  BY <1>1 DEF Entering, Waiting, Writing, Counted, Reading, AtLast
<1>3. Cardinality({}) = 0 /\ Cardinality(Proc) \in Nat
  BY RWAssumption, FS_EmptySet, FS_CardinalityType
<1>4. read_count \in 0 .. Cardinality(Proc) /\ write_waiting \in 0 .. Cardinality(Proc)
  BY <1>3 DEF Init
<1>5. TypeOK
  <2>1. pc \in [Proc -> Labels] /\ loaded \in [Proc -> Nat]
    BY DEF Init, Labels
  <2>2. read_sem \in 0 .. 1 /\ write_sem \in 0 .. 1 /\ shared_value \in Nat
    BY DEF Init
  <2>3. panicked \in BOOLEAN /\ lock \in Proc \cup {None}
    BY Zenon DEF Init
  <2> QED
    BY <1>4, <2>1, <2>2, <2>3 DEF TypeOK
<1>6. LockOwned /\ EndsKnown /\ LoadFresh
  BY <1>1, RWAssumption DEF Init, LockOwned, EndsKnown, LoadFresh
<1>7. ReadUnitOwned /\ WritersCounted /\ CountsKept
  BY <1>2, <1>3 DEF Init, ReadUnitOwned, WritersCounted, CountsKept, WriteUnitOwned,
                    ReadersCounted
<1> QED
  BY <1>5, <1>6, <1>7 DEF IInv

\* Every statement of reader() and writer() preserves the invariant
\* (LAB4/rwlock.c:32-74).
LEMMA NextIInv == IInv /\ [Next]_vars => IInv'
<1> SUFFICES ASSUME IInv, [Next]_vars
             PROVE  IInv'
  OBVIOUS
<1> USE DEF IInv
<1>1. ASSUME NEW p \in Proc, CallReader(p) PROVE IInv'
  <2> USE <1>1 DEF CallReader
  <2>1. /\ Steps(p)
        /\ pc[p] = "idle"
        /\ pc'[p] = "r_wait"
    BY DEF Steps, Labels, TypeOK, At, Goto
  <2>2. LockOwned' /\ EndsKnown'
    BY <2>1, RWAssumption DEF LockOwned, EndsKnown, Steps, TypeOK, sems, counts, data
  <2>3. ReadUnitOwned' /\ WritersCounted' /\ ReadersCounted'
    BY <2>1, CountsMove
       DEF ReadUnitOwned, WritersCounted, CountsKept, ReadersCounted, sems, counts,
           TypeOK
  <2>4. Reading' = Reading /\ AtLast' = AtLast
    BY <2>1 DEF Reading, AtLast, Steps
  <2>5. WriteUnitOwned'
    BY <2>1, <2>4, CountsMove DEF CountsKept, WriteUnitOwned, Inside, sems, TypeOK
  <2>6. LoadFresh'
    BY <2>1 DEF LoadFresh, data, Steps, TypeOK
  <2>7. TypeOK'
    BY <2>1, <2>3, <2>5, CountsPrime
       DEF TypeOK, CountsKept, ReadUnitOwned, WritersCounted, WriteUnitOwned,
           ReadersCounted, sems, counts, data, Steps
  <2> QED
    BY <2>2, <2>3, <2>5, <2>6, <2>7 DEF CountsKept
<1>2. ASSUME NEW p \in Proc, CallWriter(p) PROVE IInv'
  <2> USE <1>2 DEF CallWriter
  <2>1. /\ Steps(p)
        /\ pc[p] = "idle"
        /\ pc'[p] = "w_count"
    BY DEF Steps, Labels, TypeOK, At, Goto
  <2>2. LockOwned' /\ EndsKnown'
    BY <2>1, RWAssumption DEF LockOwned, EndsKnown, Steps, TypeOK, sems, counts, data
  <2>3. ReadUnitOwned' /\ WritersCounted' /\ ReadersCounted'
    BY <2>1, CountsMove
       DEF ReadUnitOwned, WritersCounted, CountsKept, ReadersCounted, sems, counts,
           TypeOK
  <2>4. Reading' = Reading /\ AtLast' = AtLast
    BY <2>1 DEF Reading, AtLast, Steps
  <2>5. WriteUnitOwned'
    BY <2>1, <2>4, CountsMove DEF CountsKept, WriteUnitOwned, Inside, sems, TypeOK
  <2>6. LoadFresh'
    BY <2>1 DEF LoadFresh, data, Steps, TypeOK
  <2>7. TypeOK'
    BY <2>1, <2>3, <2>5, CountsPrime
       DEF TypeOK, CountsKept, ReadUnitOwned, WritersCounted, WriteUnitOwned,
           ReadersCounted, sems, counts, data, Steps
  <2> QED
    BY <2>2, <2>3, <2>5, <2>6, <2>7 DEF CountsKept
<1>3. ASSUME NEW p \in Proc, ReaderWait(p) PROVE IInv'
  <2> USE <1>3 DEF ReaderWait
  <2>1. /\ Steps(p)
        /\ pc[p] = "r_wait"
        /\ pc'[p] = "r_count"
    BY DEF Steps, Labels, TypeOK, At, Goto
  <2>2. LockOwned' /\ EndsKnown'
    BY <2>1, RWAssumption DEF LockOwned, EndsKnown, Steps, TypeOK, sems, counts, data
  <2>3. ReadUnitOwned' /\ WritersCounted' /\ ReadersCounted'
    BY <2>1, CountsMove
       DEF ReadUnitOwned, WritersCounted, CountsKept, ReadersCounted, sems, counts,
           TypeOK
  <2>4. Reading' = Reading /\ AtLast' = AtLast
    BY <2>1 DEF Reading, AtLast, Steps
  <2>5. WriteUnitOwned'
    BY <2>1, <2>4, CountsMove DEF CountsKept, WriteUnitOwned, Inside, sems, TypeOK
  <2>6. LoadFresh'
    BY <2>1 DEF LoadFresh, data, Steps, TypeOK
  <2>7. TypeOK'
    BY <2>1, <2>3, <2>5, CountsPrime
       DEF TypeOK, CountsKept, ReadUnitOwned, WritersCounted, WriteUnitOwned,
           ReadersCounted, sems, counts, data, Steps
  <2> QED
    BY <2>2, <2>3, <2>5, <2>6, <2>7 DEF CountsKept
<1>4. ASSUME NEW p \in Proc, ReaderCount(p) PROVE IInv'
  <2> USE <1>4 DEF ReaderCount
  <2>1. /\ Steps(p)
        /\ pc[p] = "r_count"
        /\ pc'[p] = IF read_count = 0 THEN "r_first" ELSE "r_unlock"
    BY DEF Steps, Labels, TypeOK, At, Goto
  <2>2. LockOwned' /\ EndsKnown'
    BY <2>1, RWAssumption DEF LockOwned, EndsKnown, Steps, TypeOK, sems, counts, data
  <2>3. ReadUnitOwned' /\ WritersCounted' /\ ReadersCounted'
    BY <2>1, CountsMove
       DEF ReadUnitOwned, WritersCounted, CountsKept, ReadersCounted, sems, counts,
           TypeOK
  <2>4. WriteUnitOwned'
    <3>1. AtLast = {} /\ \A q \in Proc : pc[q] # "r_first"
      BY RWAssumption DEF AtLast, LockOwned
    <3>2. Inside <=> read_count # 0
      BY <3>1, Counts DEF CountsKept, ReadersCounted, Inside, Reading, Counted
    <3>3. Inside' <=> Inside
      BY <2>1, <3>1, <3>2 DEF Inside, Reading, AtLast, Steps
    <3> QED
      BY <2>1, <3>3, CountsMove DEF CountsKept, WriteUnitOwned, Inside, sems, TypeOK
  <2>5. LoadFresh'
    BY <2>1 DEF LoadFresh, data, Steps, TypeOK
  <2>6. TypeOK'
    BY <2>1, <2>3, <2>4, CountsPrime
       DEF TypeOK, CountsKept, ReadUnitOwned, WritersCounted, WriteUnitOwned,
           ReadersCounted, sems, counts, data, Steps
  <2> QED
    BY <2>2, <2>3, <2>4, <2>5, <2>6 DEF CountsKept
<1>5. ASSUME NEW p \in Proc, ReaderFirst(p) PROVE IInv'
  <2> USE <1>5 DEF ReaderFirst
  <2>1. /\ Steps(p)
        /\ pc[p] = "r_first"
        /\ pc'[p] = IF write_sem > 0 THEN "r_unlock" ELSE "r_first"
    BY DEF Steps, Labels, TypeOK, At, Goto
  <2>2. LockOwned' /\ EndsKnown'
    BY <2>1, RWAssumption DEF LockOwned, EndsKnown, Steps, TypeOK, sems, counts, data
  <2>3. ReadUnitOwned' /\ WritersCounted' /\ ReadersCounted'
    BY <2>1, CountsMove
       DEF ReadUnitOwned, WritersCounted, CountsKept, ReadersCounted, sems, counts,
           TypeOK
  <2>4. Counted = {p} /\ AtLast = {}
    BY <2>1, Counts
       DEF CountsKept, ReadersCounted, EndsKnown, Counted, AtLast, LockOwned
  <2>5. ~Inside /\ (Inside' <=> write_sem > 0)
    BY <2>1, <2>4 DEF Inside, Reading, AtLast, Counted, Steps
  <2>6. WriteUnitOwned'
    BY <2>1, <2>5, CountsMove DEF CountsKept, WriteUnitOwned, Inside, sems, TypeOK
  <2>7. LoadFresh'
    BY <2>1 DEF LoadFresh, data, Steps, TypeOK
  <2>8. panicked' \in BOOLEAN
    BY Zenon DEF TypeOK
  <2>9. /\ read_sem' \in 0 .. 1 /\ write_sem' \in 0 .. 1
         /\ read_count' \in 0 .. Cardinality(Proc) /\ write_waiting' \in 0 .. Cardinality(Proc)
    BY DEF TypeOK, sems, counts
  <2>10. TypeOK'
    BY <2>1, <2>8, <2>9 DEF TypeOK, data, Steps
  <2> QED
    BY <2>2, <2>3, <2>6, <2>7, <2>10 DEF CountsKept
<1>6. ASSUME NEW p \in Proc, ReaderUnlock(p) PROVE IInv'
  <2> USE <1>6 DEF ReaderUnlock
  <2>1. /\ Steps(p)
        /\ pc[p] = "r_unlock"
        /\ pc'[p] = "r_signal"
    BY DEF Steps, Labels, TypeOK, At, Goto
  <2>2. LockOwned' /\ EndsKnown'
    BY <2>1, RWAssumption DEF LockOwned, EndsKnown, Steps, TypeOK, sems, counts, data
  <2>3. ReadUnitOwned' /\ WritersCounted' /\ ReadersCounted'
    BY <2>1, CountsMove
       DEF ReadUnitOwned, WritersCounted, CountsKept, ReadersCounted, sems, counts,
           TypeOK
  <2>4. Reading' = Reading /\ AtLast' = AtLast
    BY <2>1 DEF Reading, AtLast, Steps
  <2>5. WriteUnitOwned'
    BY <2>1, <2>4, CountsMove DEF CountsKept, WriteUnitOwned, Inside, sems, TypeOK
  <2>6. LoadFresh'
    BY <2>1 DEF LoadFresh, data, Steps, TypeOK
  <2>7. TypeOK'
    BY <2>1, <2>3, <2>5, CountsPrime
       DEF TypeOK, CountsKept, ReadUnitOwned, WritersCounted, WriteUnitOwned,
           ReadersCounted, sems, counts, data, Steps
  <2> QED
    BY <2>2, <2>3, <2>5, <2>6, <2>7 DEF CountsKept
<1>7. ASSUME NEW p \in Proc, ReaderSignal(p) PROVE IInv'
  <2> USE <1>7 DEF ReaderSignal
  <2>1. /\ Steps(p)
        /\ pc[p] = "r_signal"
        /\ pc'[p] = "read"
    BY DEF Steps, Labels, TypeOK, At, Goto
  <2>2. LockOwned' /\ EndsKnown'
    BY <2>1, RWAssumption DEF LockOwned, EndsKnown, Steps, TypeOK, sems, counts, data
  <2>3. ReadUnitOwned' /\ WritersCounted' /\ ReadersCounted'
    BY <2>1, CountsMove
       DEF ReadUnitOwned, WritersCounted, CountsKept, ReadersCounted, sems, counts,
           TypeOK
  <2>4. Reading' = Reading /\ AtLast' = AtLast
    BY <2>1 DEF Reading, AtLast, Steps
  <2>5. WriteUnitOwned'
    BY <2>1, <2>4, CountsMove DEF CountsKept, WriteUnitOwned, Inside, sems, TypeOK
  <2>6. LoadFresh'
    BY <2>1 DEF LoadFresh, data, Steps, TypeOK
  <2>7. TypeOK'
    BY <2>1, <2>3, <2>5, CountsPrime
       DEF TypeOK, CountsKept, ReadUnitOwned, WritersCounted, WriteUnitOwned,
           ReadersCounted, sems, counts, data, Steps
  <2> QED
    BY <2>2, <2>3, <2>5, <2>6, <2>7 DEF CountsKept
<1>8. ASSUME NEW p \in Proc, ReaderUncount(p) PROVE IInv'
  <2> USE <1>8 DEF ReaderUncount
  <2>1. /\ Steps(p)
        /\ pc[p] = "read"
        /\ pc'[p] = IF read_count = 1 THEN "r_last" ELSE "r_release"
    BY DEF Steps, Labels, TypeOK, At, Goto
  <2>2. LockOwned' /\ EndsKnown'
    BY <2>1, RWAssumption DEF LockOwned, EndsKnown, Steps, TypeOK, sems, counts, data
  <2>3. ReadUnitOwned' /\ WritersCounted' /\ ReadersCounted'
    BY <2>1, CountsMove
       DEF ReadUnitOwned, WritersCounted, CountsKept, ReadersCounted, sems, counts,
           TypeOK
  <2>4. WriteUnitOwned'
    <3>1. Inside /\ AtLast = {} /\ \A q \in Proc : pc[q] # "r_first"
      BY <2>1, RWAssumption DEF Inside, AtLast, Reading, LockOwned
    <3>2. Inside'
      <4>1. CASE read_count = 1
        BY <2>1, <4>1 DEF Inside, AtLast
      <4>2. CASE read_count # 1
        <5>1. Counted' # {}
          BY <2>1, <4>2, CountsMove, CountsPrime DEF CountsKept, ReadersCounted
        <5>2. PICK q \in Proc : q # p /\ q \in Counted
          BY <2>1, <4>2, <5>1 DEF Counted, Steps
        <5> QED
          BY <2>1, <3>1, <5>2 DEF Inside, Reading, Counted, Steps
      <4> QED
        BY <4>1, <4>2
    <3> QED
      BY <2>1, <3>1, <3>2, CountsMove
         DEF CountsKept, WriteUnitOwned, Inside, sems, TypeOK
  <2>5. LoadFresh'
    BY <2>1 DEF LoadFresh, data, Steps, TypeOK
  <2>6. TypeOK'
    BY <2>1, <2>3, <2>4, CountsPrime
       DEF TypeOK, CountsKept, ReadUnitOwned, WritersCounted, WriteUnitOwned,
           ReadersCounted, sems, counts, data, Steps
  <2> QED
    BY <2>2, <2>3, <2>4, <2>5, <2>6 DEF CountsKept
<1>9. ASSUME NEW p \in Proc, ReaderLast(p) PROVE IInv'
  <2> USE <1>9 DEF ReaderLast
  <2>1. /\ Steps(p)
        /\ pc[p] = "r_last"
        /\ pc'[p] = "r_release"
    BY DEF Steps, Labels, TypeOK, At, Goto
  <2>2. LockOwned' /\ EndsKnown'
    BY <2>1, RWAssumption DEF LockOwned, EndsKnown, Steps, TypeOK, sems, counts, data
  <2>3. ReadUnitOwned' /\ WritersCounted' /\ ReadersCounted'
    BY <2>1, CountsMove
       DEF ReadUnitOwned, WritersCounted, CountsKept, ReadersCounted, sems, counts,
           TypeOK
  <2>4. Counted = {} /\ AtLast = {p}
    BY <2>1, Counts
       DEF CountsKept, ReadersCounted, EndsKnown, Counted, AtLast, LockOwned
  <2>5. Inside /\ ~Inside'
    BY <2>1, <2>4 DEF Inside, Reading, AtLast, Counted, Steps
  <2>6. WriteUnitOwned'
    BY <2>1, <2>5, CountsMove DEF CountsKept, WriteUnitOwned, Inside, sems, TypeOK
  <2>7. LoadFresh'
    BY <2>1 DEF LoadFresh, data, Steps, TypeOK
  <2>8. TypeOK'
    BY <2>1, <2>3, <2>6, CountsPrime
       DEF TypeOK, CountsKept, ReadUnitOwned, WritersCounted, WriteUnitOwned,
           ReadersCounted, sems, counts, data, Steps
  <2> QED
    BY <2>2, <2>3, <2>6, <2>7, <2>8 DEF CountsKept
<1>10. ASSUME NEW p \in Proc, ReaderRelease(p) PROVE IInv'
  <2> USE <1>10 DEF ReaderRelease
  <2>1. /\ Steps(p)
        /\ pc[p] = "r_release"
        /\ pc'[p] = "idle"
    BY DEF Steps, Labels, TypeOK, At, Goto
  <2>2. LockOwned' /\ EndsKnown'
    BY <2>1, RWAssumption DEF LockOwned, EndsKnown, Steps, TypeOK, sems, counts, data
  <2>3. ReadUnitOwned' /\ WritersCounted' /\ ReadersCounted'
    BY <2>1, CountsMove
       DEF ReadUnitOwned, WritersCounted, CountsKept, ReadersCounted, sems, counts,
           TypeOK
  <2>4. Reading' = Reading /\ AtLast' = AtLast
    BY <2>1 DEF Reading, AtLast, Steps
  <2>5. WriteUnitOwned'
    BY <2>1, <2>4, CountsMove DEF CountsKept, WriteUnitOwned, Inside, sems, TypeOK
  <2>6. LoadFresh'
    BY <2>1 DEF LoadFresh, data, Steps, TypeOK
  <2>7. TypeOK'
    BY <2>1, <2>3, <2>5, CountsPrime
       DEF TypeOK, CountsKept, ReadUnitOwned, WritersCounted, WriteUnitOwned,
           ReadersCounted, sems, counts, data, Steps
  <2> QED
    BY <2>2, <2>3, <2>5, <2>6, <2>7 DEF CountsKept
<1>11. ASSUME NEW p \in Proc, WriterCount(p) PROVE IInv'
  <2> USE <1>11 DEF WriterCount
  <2>1. /\ Steps(p)
        /\ pc[p] = "w_count"
        /\ pc'[p] = "w_wait"
    BY DEF Steps, Labels, TypeOK, At, Goto
  <2>2. LockOwned' /\ EndsKnown'
    BY <2>1, RWAssumption DEF LockOwned, EndsKnown, Steps, TypeOK, sems, counts, data
  <2>3. ReadUnitOwned' /\ WritersCounted' /\ ReadersCounted'
    BY <2>1, CountsMove
       DEF ReadUnitOwned, WritersCounted, CountsKept, ReadersCounted, sems, counts,
           TypeOK
  <2>4. Reading' = Reading /\ AtLast' = AtLast
    BY <2>1 DEF Reading, AtLast, Steps
  <2>5. WriteUnitOwned'
    BY <2>1, <2>4, CountsMove DEF CountsKept, WriteUnitOwned, Inside, sems, TypeOK
  <2>6. LoadFresh'
    BY <2>1 DEF LoadFresh, data, Steps, TypeOK
  <2>7. TypeOK'
    BY <2>1, <2>3, <2>5, CountsPrime
       DEF TypeOK, CountsKept, ReadUnitOwned, WritersCounted, WriteUnitOwned,
           ReadersCounted, sems, counts, data, Steps
  <2> QED
    BY <2>2, <2>3, <2>5, <2>6, <2>7 DEF CountsKept
<1>12. ASSUME NEW p \in Proc, WriterWait(p) PROVE IInv'
  <2> USE <1>12 DEF WriterWait
  <2>1. /\ Steps(p)
        /\ pc[p] = "w_wait"
        /\ pc'[p] = "load"
    BY DEF Steps, Labels, TypeOK, At, Goto
  <2>2. LockOwned' /\ EndsKnown'
    BY <2>1, RWAssumption DEF LockOwned, EndsKnown, Steps, TypeOK, sems, counts, data
  <2>3. ReadUnitOwned' /\ WritersCounted' /\ ReadersCounted'
    BY <2>1, CountsMove
       DEF ReadUnitOwned, WritersCounted, CountsKept, ReadersCounted, sems, counts,
           TypeOK
  <2>4. Reading' = Reading /\ AtLast' = AtLast
    BY <2>1 DEF Reading, AtLast, Steps
  <2>5. WriteUnitOwned'
    BY <2>1, <2>4, CountsMove DEF CountsKept, WriteUnitOwned, Inside, sems, TypeOK
  <2>6. LoadFresh'
    BY <2>1 DEF LoadFresh, data, Steps, TypeOK
  <2>7. TypeOK'
    BY <2>1, <2>3, <2>5, CountsPrime
       DEF TypeOK, CountsKept, ReadUnitOwned, WritersCounted, WriteUnitOwned,
           ReadersCounted, sems, counts, data, Steps
  <2> QED
    BY <2>2, <2>3, <2>5, <2>6, <2>7 DEF CountsKept
<1>13. ASSUME NEW p \in Proc, WriterLoad(p) PROVE IInv'
  <2> USE <1>13 DEF WriterLoad
  <2>1. /\ Steps(p)
        /\ pc[p] = "load"
        /\ pc'[p] = "store"
    BY DEF Steps, Labels, TypeOK, At, Goto
  <2>2. LockOwned' /\ EndsKnown'
    BY <2>1, RWAssumption DEF LockOwned, EndsKnown, Steps, TypeOK, sems, counts, data
  <2>3. ReadUnitOwned' /\ WritersCounted' /\ ReadersCounted'
    BY <2>1, CountsMove
       DEF ReadUnitOwned, WritersCounted, CountsKept, ReadersCounted, sems, counts,
           TypeOK
  <2>4. Reading' = Reading /\ AtLast' = AtLast
    BY <2>1 DEF Reading, AtLast, Steps
  <2>5. Cardinality(Writing)' = Cardinality(Writing) /\ Cardinality(Writing) \in Nat
    BY <2>1, CountsMove
  <2>6. WriteUnitOwned'
    BY <2>4, <2>5 DEF CountsKept, WriteUnitOwned, Inside, sems
  <2>7. LoadFresh'
    BY <2>1 DEF LoadFresh, data, Steps, TypeOK
  <2>8. TypeOK'
    BY <2>1, <2>3, <2>6, CountsPrime
       DEF TypeOK, CountsKept, ReadUnitOwned, WritersCounted, WriteUnitOwned,
           ReadersCounted, sems, counts, data, Steps
  <2> QED
    BY <2>2, <2>3, <2>6, <2>7, <2>8 DEF CountsKept
<1>14. ASSUME NEW p \in Proc, WriterStore(p) PROVE IInv'
  <2> USE <1>14 DEF WriterStore
  <2>1. /\ Steps(p)
        /\ pc[p] = "store"
        /\ pc'[p] = "w_uncount"
    BY DEF Steps, Labels, TypeOK, At, Goto
  <2>2. LockOwned' /\ EndsKnown'
    BY <2>1, RWAssumption DEF LockOwned, EndsKnown, Steps, TypeOK, sems, counts, data
  <2>3. ReadUnitOwned' /\ WritersCounted' /\ ReadersCounted'
    BY <2>1, CountsMove
       DEF ReadUnitOwned, WritersCounted, CountsKept, ReadersCounted, sems, counts,
           TypeOK
  <2>4. Reading' = Reading /\ AtLast' = AtLast
    BY <2>1 DEF Reading, AtLast, Steps
  <2>5. Cardinality(Writing)' = Cardinality(Writing) /\ Cardinality(Writing) \in Nat
    BY <2>1, CountsMove
  <2>6. WriteUnitOwned'
    BY <2>4, <2>5 DEF CountsKept, WriteUnitOwned, Inside, sems
  <2>7. LoadFresh'
    <3>1. \A q \in Writing : q = p
      BY <2>1, Counts DEF CountsKept, WriteUnitOwned, Writing, TypeOK
    <3> QED
      BY <2>1, <3>1 DEF LoadFresh, Writing, Steps, TypeOK
  <2>8. TypeOK'
    BY <2>1, <2>3, <2>6, CountsPrime
       DEF TypeOK, CountsKept, ReadUnitOwned, WritersCounted, WriteUnitOwned,
           ReadersCounted, sems, counts, data, Steps
  <2> QED
    BY <2>2, <2>3, <2>6, <2>7, <2>8 DEF CountsKept
<1>15. ASSUME NEW p \in Proc, WriterUncount(p) PROVE IInv'
  <2> USE <1>15 DEF WriterUncount
  <2>1. /\ Steps(p)
        /\ pc[p] = "w_uncount"
        /\ pc'[p] = "w_signal"
    BY DEF Steps, Labels, TypeOK, At, Goto
  <2>2. LockOwned' /\ EndsKnown'
    BY <2>1, RWAssumption DEF LockOwned, EndsKnown, Steps, TypeOK, sems, counts, data
  <2>3. ReadUnitOwned' /\ WritersCounted' /\ ReadersCounted'
    BY <2>1, CountsMove
       DEF ReadUnitOwned, WritersCounted, CountsKept, ReadersCounted, sems, counts,
           TypeOK
  <2>4. Reading' = Reading /\ AtLast' = AtLast
    BY <2>1 DEF Reading, AtLast, Steps
  <2>5. Cardinality(Writing)' = Cardinality(Writing) /\ Cardinality(Writing) \in Nat
    BY <2>1, CountsMove
  <2>6. WriteUnitOwned'
    BY <2>4, <2>5 DEF CountsKept, WriteUnitOwned, Inside, sems
  <2>7. LoadFresh'
    BY <2>1 DEF LoadFresh, data, Steps, TypeOK
  <2>8. TypeOK'
    BY <2>1, <2>3, <2>6, CountsPrime
       DEF TypeOK, CountsKept, ReadUnitOwned, WritersCounted, WriteUnitOwned,
           ReadersCounted, sems, counts, data, Steps
  <2> QED
    BY <2>2, <2>3, <2>6, <2>7, <2>8 DEF CountsKept
<1>16. ASSUME NEW p \in Proc, WriterSignal(p) PROVE IInv'
  <2> USE <1>16 DEF WriterSignal
  <2>1. /\ Steps(p)
        /\ pc[p] = "w_signal"
        /\ pc'[p] = "idle"
    BY DEF Steps, Labels, TypeOK, At, Goto
  <2>2. LockOwned' /\ EndsKnown'
    BY <2>1, RWAssumption DEF LockOwned, EndsKnown, Steps, TypeOK, sems, counts, data
  <2>3. ReadUnitOwned' /\ WritersCounted' /\ ReadersCounted'
    BY <2>1, CountsMove
       DEF ReadUnitOwned, WritersCounted, CountsKept, ReadersCounted, sems, counts,
           TypeOK
  <2>4. Reading' = Reading /\ AtLast' = AtLast
    BY <2>1 DEF Reading, AtLast, Steps
  <2>5. WriteUnitOwned'
    BY <2>1, <2>4, CountsMove DEF CountsKept, WriteUnitOwned, Inside, sems, TypeOK
  <2>6. LoadFresh'
    BY <2>1 DEF LoadFresh, data, Steps, TypeOK
  <2>7. TypeOK'
    BY <2>1, <2>3, <2>5, CountsPrime
       DEF TypeOK, CountsKept, ReadUnitOwned, WritersCounted, WriteUnitOwned,
           ReadersCounted, sems, counts, data, Steps
  <2> QED
    BY <2>2, <2>3, <2>5, <2>6, <2>7 DEF CountsKept
<1>17. CASE UNCHANGED vars
  BY <1>17 DEF vars, sems, counts, data, TypeOK, LockOwned, ReadUnitOwned, Entering,
     WritersCounted, Waiting, EndsKnown, CountsKept, WriteUnitOwned, Writing, Reading,
     AtLast, ReadersCounted, Counted, LoadFresh
<1> QED
  BY <1>1, <1>2, <1>3, <1>4, <1>5, <1>6, <1>7, <1>8, <1>9, <1>10, <1>11, <1>12, <1>13,
     <1>14, <1>15, <1>16, <1>17
     DEF Next, Reader, Writer

-----------------------------------------------------------------------------
\* The inductive invariant holds in every reachable state.
THEOREM RWLockInvariant == Spec => []IInv
BY InitIInv, NextIInv, PTL DEF Spec

\* Type correctness: each semaphore has its one unit or none, the counts are
\* at most the number of processes.
THEOREM RWLockType == Spec => []TypeOK
<1>1. IInv => TypeOK
  BY DEF IInv
<1> QED
  BY <1>1, RWLockInvariant, PTL

\* The units taken and given by the first and the last reader agree with the
\* counts (LAB4/rwlock.c:38-50).
THEOREM RWLockCounts == Spec => []CountsKept
<1>1. IInv => CountsKept
  BY DEF IInv
<1> QED
  BY <1>1, RWLockInvariant, PTL

\* A writer excludes the readers and the other writers, however many there are
\* (LAB4/rwlock.c:36-51, :60-70).
THEOREM RWLockWriterAlone == Spec => []WriterAlone
<1>1. ASSUME IInv, NEW w \in Writing PROVE Reading = {} /\ Writing = {w}
  <2>1. write_sem \in 0 .. 1 /\ WriteUnitOwned
    BY <1>1 DEF IInv, TypeOK, CountsKept
  <2>2. Cardinality(Writing) # 0 /\ Cardinality(Writing) \in Nat
    BY Counts
  <2>3. Cardinality(Writing) = 1 /\ Reading = {}
    BY <2>1, <2>2 DEF WriteUnitOwned
  <2> QED
    BY <2>3, Counts
<1>2. IInv => WriterAlone
  BY <1>1 DEF WriterAlone
<1> QED
  BY <1>2, RWLockInvariant, PTL

\* No increment of the shared value is lost: whatever the others did since it loaded
\* the value, a writer's store adds one to the value it replaces, and no other step
\* changes it (LAB4/rwlock.c:60-70).
THEOREM RWLockIncrements == Spec => IncrementsKept
<1>1. ASSUME IInv, NEW p \in Proc, WriterStore(p)
      PROVE  Stores(p) /\ shared_value' = shared_value + 1
  <2>1. pc[p] = "store" /\ pc' = [pc EXCEPT ![p] = "w_uncount"]
    BY <1>1 DEF WriterStore, At, Goto
  <2>2. Stores(p)
    BY <1>1, <2>1 DEF Stores, IInv, TypeOK
  <2> QED
    BY <1>1, <2>1, <2>2 DEF IInv, LoadFresh, WriterStore
<1>2. ASSUME IInv, NEW p \in Proc, Reader(p) \/ Writer(p), ~WriterStore(p)
      PROVE  (\A q \in Proc : ~Stores(q)) /\ shared_value' = shared_value
  <2>1. pc[p] # "store" /\ (\A q \in Proc : q # p => pc'[q] = pc[q])
    BY <1>2 DEF IInv, TypeOK, Reader, CallReader, ReaderWait, ReaderCount, ReaderFirst,
                ReaderUnlock, ReaderSignal, ReaderUncount, ReaderLast, ReaderRelease,
                Writer, CallWriter, WriterCount, WriterWait, WriterLoad, WriterUncount,
                WriterSignal, At, Goto
  <2>2. shared_value' = shared_value
    BY <1>2 DEF Reader, CallReader, ReaderWait, ReaderCount, ReaderFirst, ReaderUnlock,
                ReaderSignal, ReaderUncount, ReaderLast, ReaderRelease, Writer,
                CallWriter, WriterCount, WriterWait, WriterLoad, WriterUncount,
                WriterSignal, data
  <2> QED
    BY <2>1, <2>2 DEF Stores
<1>3. IInv /\ [Next]_vars =>
        [shared_value' = IF \E p \in Proc : Stores(p) THEN shared_value + 1
                                                      ELSE shared_value]_vars
  BY <1>1, <1>2 DEF Next
<1> QED
  BY <1>3, RWLockInvariant, PTL DEF Spec, IncrementsKept
=============================================================================
