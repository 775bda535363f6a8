----------------------------- MODULE BarberProofs -----------------------------
(***************************************************************************)
(* Theorems about the sleeping barber of LAB4/sysproc.c, for any finite set*)
(* of customers and any number of chairs: type correctness, the account of *)
(* every unit of the six semaphores, and that a customer is turned away    *)
(* only when the chairs are taken.                                         *)
(***************************************************************************)
EXTENDS Barber, TLAPS, FiniteSetTheorems

\* The mutex admits one process, the chairs and the haircuts are conserved: the
\* account itself is inductive, given the types.
IInv == TypeOK /\ UnitsConserved

\* A step of customer c, or of nobody but the barber.
Steps(c) == /\ pc' \in [Customer -> Labels]
            /\ \A d \in Customer : d # c => pc'[d] = pc[d]

InMutex == {"test", "seat", "announce", "unlock", "full"}

One(b) == IF b THEN 1 ELSE 0

\* A set of customers counts the same, one more or one less when one customer moves.
LEMMA OneMoves ==
  ASSUME NEW S \in SUBSET Customer, NEW T \in SUBSET Customer, NEW c,
         \A d \in Customer : d # c => (d \in S <=> d \in T)
  PROVE  /\ Cardinality(S) \in Nat
         /\ Cardinality(T) \in Nat
         /\ Cardinality(T) + One(c \in S) = Cardinality(S) + One(c \in T)
<1>1. (c \in T => T = S \cup {c}) /\ (c \notin T => T = S \ {c})
  OBVIOUS
<1>2. IsFiniteSet(S) /\ IsFiniteSet(T)
  BY BarberAssumption, FS_Subset
<1>3. Cardinality(S \cup {c}) = IF c \in S THEN Cardinality(S) ELSE Cardinality(S) + 1
  BY <1>2, FS_AddElement
<1>4. Cardinality(S \ {c}) = IF c \in S THEN Cardinality(S) - 1 ELSE Cardinality(S)
  BY <1>2, FS_RemoveElement
<1>5. Cardinality(S) \in Nat /\ Cardinality(T) \in Nat
  BY <1>2, FS_CardinalityType
<1>6. CASE c \in T
  <2>1. Cardinality(T) = Cardinality(S \cup {c})
    BY <1>1, <1>6
  <2> QED
    BY <1>3, <1>5, <1>6, <2>1 DEF One
<1>7. CASE c \notin T
  <2>1. Cardinality(T) = Cardinality(S \ {c})
    BY <1>1, <1>7
  <2> QED
    BY <1>4, <1>5, <1>7, <2>1 DEF One
<1> QED
  BY <1>6, <1>7

\* How the number of customers at some labels changes in a step of c.
LEMMA AtMoves ==
  ASSUME NEW c \in Customer, Steps(c), NEW L
  PROVE  /\ At(L) \in Nat
         /\ At(L)' \in Nat
         /\ At(L)' + One(pc[c] \in L) = At(L) + One(pc'[c] \in L)
<1> DEFINE S == {d \in Customer : pc[d] \in L}
           T == {d \in Customer : pc'[d] \in L}
<1>1. /\ S \in SUBSET Customer /\ T \in SUBSET Customer
      /\ \A d \in Customer : d # c => (d \in S <=> d \in T)
  BY DEF Steps
<1>2. (c \in S <=> pc[c] \in L) /\ (c \in T <=> pc'[c] \in L)
  OBVIOUS
<1>3. At(L) = Cardinality(S) /\ At(L)' = Cardinality(T)
  BY DEF At
<1> HIDE DEF S, T
<1>4. /\ Cardinality(S) \in Nat /\ Cardinality(T) \in Nat
      /\ Cardinality(T) + One(c \in S) = Cardinality(S) + One(c \in T)
  BY <1>1, OneMoves
<1> QED
  BY <1>2, <1>3, <1>4 DEF One

\* The barber's steps move no customer.
LEMMA AtStays == ASSUME UNCHANGED pc, NEW L PROVE At(L)' = At(L)
BY DEF At

\* A number of customers is a natural number, also after a step.
LEMMA AtNat == \A L : At(L) \in Nat /\ At(L)' \in Nat
<1> TAKE L
<1>1. /\ {c \in Customer : pc[c] \in L} \in SUBSET Customer
      /\ {c \in Customer : pc'[c] \in L} \in SUBSET Customer
  OBVIOUS
<1> QED
  BY <1>1, BarberAssumption, FS_Subset, FS_CardinalityType DEF At

\* Two customers are not between the wait and the signal of the mutex at once.
LEMMA OneInMutex ==
  ASSUME TypeOK, MutexOwned, NEW c \in Customer, NEW d \in Customer, c # d,
         pc[d] \in InMutex
  PROVE  pc[c] \notin InMutex
<1> DEFINE S == {e \in Customer : pc[e] \in InMutex}
<1>1. IsFiniteSet(S) /\ IsFiniteSet(S \ {d})
  BY BarberAssumption, FS_Subset
<1>2. Cardinality(S \ {d}) = Cardinality(S) - 1
  BY <1>1, FS_RemoveElement
<1>3. Cardinality(S) \in Nat /\ Cardinality(S \ {d}) \in Nat
  BY <1>1, FS_CardinalityType
<1>4. sems["mutex"] + Cardinality(S)
        + BarberAt({"test", "none", "some", "customers", "chair", "service", "waiting",
                    "done"}) = 1
  BY DEF MutexOwned, At, InMutex
<1>5. sems["mutex"] \in Nat
  BY DEF TypeOK, Sems
<1>6. Cardinality(S \ {d}) = 0
  BY <1>2, <1>3, <1>4, <1>5 DEF BarberAt
<1>7. S \ {d} = {}
  BY <1>1, <1>6, FS_EmptySet
<1> QED
  BY <1>7

\* sys_init_barber() establishes the account (LAB4/sysproc.c:134-145).
LEMMA InitIInv == Init => IInv
<1> SUFFICES ASSUME Init PROVE IInv
  OBVIOUS
<1>1. \A L : "outside" \notin L => At(L) = 0
  <2> SUFFICES ASSUME NEW L, "outside" \notin L PROVE At(L) = 0
    OBVIOUS
  <2>1. {c \in Customer : pc[c] \in L} = {}
    BY DEF Init
  <2> QED
    BY <2>1, FS_EmptySet DEF At
<1>2. TypeOK
  BY BarberAssumption DEF Init, TypeOK, Sems, BarberLabels, Labels
<1>3. At({"test", "seat", "announce", "unlock", "full"}) = 0
  BY <1>1
<1>4. At(Seated) = 0 /\ At(Announced) = 0 /\ At({"served"}) = 0
  BY <1>1 DEF Seated, Announced
<1>5. /\ sems["mutex"] = 1 /\ sems["customers"] = 0 /\ sems["waiting"] = CHAIRS
      /\ sems["service"] = 0 /\ barber = "sleep_mutex"
  BY DEF Init, Sems
<1>6. UnitsConserved
  BY <1>3, <1>4, <1>5, BarberAssumption
     DEF UnitsConserved, MutexOwned, SeatStillFree, ChairsConserved, HaircutsConserved,
         Cuts, BarberAt, Init
<1> QED
  BY <1>2, <1>6 DEF IInv

\* Every statement of the barber preserves the account (LAB4/sysproc.c:150-159,
\* :184-191).
LEMMA BarberIInv ==
  ASSUME IInv, BarberStep
  PROVE  IInv'
<1>1. /\ TypeOK /\ MutexOwned /\ SeatStillFree /\ ChairsConserved /\ HaircutsConserved
      /\ UNCHANGED pc
  BY DEF IInv, UnitsConserved, BarberStep, SleepMutex, SleepTest, SleepNone, SleepWait,
         SleepSome, CutMutex, CutCustomer, CutChair, CutService, CutWaiting, CutDone, Moves
<1>2. \A L : At(L)' = At(L)
  BY <1>1, AtStays
<1>3. \A L : At(L) \in Nat
  BY AtNat
<1>4. CASE SleepMutex
  <2> USE <1>4 DEF SleepMutex, Moves, sem_wait, sem_signal
  <2>1. TypeOK'
    BY <1>1 DEF TypeOK, BarberLabels, Sems
  <2>2. MutexOwned'
    BY <1>1, <1>2, <1>3 DEF MutexOwned, BarberAt, TypeOK, Sems
  <2>3. SeatStillFree'
    BY <1>1 DEF SeatStillFree, TypeOK, Sems
  <2>4. ChairsConserved' /\ HaircutsConserved'
    BY <1>1, <1>2, <1>3, BarberAssumption
       DEF ChairsConserved, HaircutsConserved, Cuts, BarberAt, TypeOK, Sems
  <2> QED
    BY <2>1, <2>2, <2>3, <2>4 DEF IInv, UnitsConserved
<1>5. CASE SleepTest
  <2> USE <1>5 DEF SleepTest, Moves, sem_wait, sem_signal
  <2>1. TypeOK'
    BY <1>1 DEF TypeOK, BarberLabels, Sems
  <2>2. MutexOwned'
    BY <1>1, <1>2, <1>3 DEF MutexOwned, BarberAt, TypeOK, Sems
  <2>3. SeatStillFree'
    BY <1>1 DEF SeatStillFree, TypeOK, Sems
  <2>4. ChairsConserved' /\ HaircutsConserved'
    BY <1>1, <1>2, <1>3, BarberAssumption
       DEF ChairsConserved, HaircutsConserved, Cuts, BarberAt, TypeOK, Sems
  <2> QED
    BY <2>1, <2>2, <2>3, <2>4 DEF IInv, UnitsConserved
<1>6. CASE SleepNone
  <2> USE <1>6 DEF SleepNone, Moves, sem_wait, sem_signal
  <2>1. TypeOK'
    BY <1>1 DEF TypeOK, BarberLabels, Sems
  <2>2. MutexOwned'
    BY <1>1, <1>2, <1>3 DEF MutexOwned, BarberAt, TypeOK, Sems
  <2>3. SeatStillFree'
    BY <1>1 DEF SeatStillFree, TypeOK, Sems
  <2>4. ChairsConserved' /\ HaircutsConserved'
    BY <1>1, <1>2, <1>3, BarberAssumption
       DEF ChairsConserved, HaircutsConserved, Cuts, BarberAt, TypeOK, Sems
  <2> QED
    BY <2>1, <2>2, <2>3, <2>4 DEF IInv, UnitsConserved
<1>7. CASE SleepWait
  <2> USE <1>7 DEF SleepWait, Moves, sem_wait, sem_signal
  <2>1. TypeOK'
    BY <1>1 DEF TypeOK, BarberLabels, Sems
  <2>2. MutexOwned'
    BY <1>1, <1>2, <1>3 DEF MutexOwned, BarberAt, TypeOK, Sems
  <2>3. SeatStillFree'
    BY <1>1 DEF SeatStillFree, TypeOK, Sems
  <2>4. ChairsConserved' /\ HaircutsConserved'
    BY <1>1, <1>2, <1>3, BarberAssumption
       DEF ChairsConserved, HaircutsConserved, Cuts, BarberAt, TypeOK, Sems
  <2> QED
    BY <2>1, <2>2, <2>3, <2>4 DEF IInv, UnitsConserved
<1>8. CASE SleepSome
  <2> USE <1>8 DEF SleepSome, Moves, sem_wait, sem_signal
  <2>1. TypeOK'
    BY <1>1 DEF TypeOK, BarberLabels, Sems
  <2>2. MutexOwned'
    BY <1>1, <1>2, <1>3 DEF MutexOwned, BarberAt, TypeOK, Sems
  <2>3. SeatStillFree'
    BY <1>1 DEF SeatStillFree, TypeOK, Sems
  <2>4. ChairsConserved' /\ HaircutsConserved'
    BY <1>1, <1>2, <1>3, BarberAssumption
       DEF ChairsConserved, HaircutsConserved, Cuts, BarberAt, TypeOK, Sems
  <2> QED
    BY <2>1, <2>2, <2>3, <2>4 DEF IInv, UnitsConserved
<1>9. CASE CutMutex
  <2> USE <1>9 DEF CutMutex, Moves, sem_wait, sem_signal
  <2>1. TypeOK'
    BY <1>1 DEF TypeOK, BarberLabels, Sems
  <2>2. MutexOwned'
    BY <1>1, <1>2, <1>3 DEF MutexOwned, BarberAt, TypeOK, Sems
  <2>3. SeatStillFree'
    BY <1>1 DEF SeatStillFree, TypeOK, Sems
  <2>4. ChairsConserved' /\ HaircutsConserved'
    BY <1>1, <1>2, <1>3, BarberAssumption
       DEF ChairsConserved, HaircutsConserved, Cuts, BarberAt, TypeOK, Sems
  <2> QED
    BY <2>1, <2>2, <2>3, <2>4 DEF IInv, UnitsConserved
<1>10. CASE CutCustomer
  <2> USE <1>10 DEF CutCustomer, Moves, sem_wait, sem_signal
  <2>1. TypeOK'
    BY <1>1 DEF TypeOK, BarberLabels, Sems
  <2>2. MutexOwned'
    BY <1>1, <1>2, <1>3 DEF MutexOwned, BarberAt, TypeOK, Sems
  <2>3. SeatStillFree'
    BY <1>1 DEF SeatStillFree, TypeOK, Sems
  <2>4. ChairsConserved' /\ HaircutsConserved'
    BY <1>1, <1>2, <1>3, BarberAssumption
       DEF ChairsConserved, HaircutsConserved, Cuts, BarberAt, TypeOK, Sems
  <2> QED
    BY <2>1, <2>2, <2>3, <2>4 DEF IInv, UnitsConserved
<1>11. CASE CutChair
  <2> USE <1>11 DEF CutChair, Moves, sem_wait, sem_signal
  <2>1. TypeOK'
    BY <1>1 DEF TypeOK, BarberLabels, Sems
  <2>2. MutexOwned'
    BY <1>1, <1>2, <1>3 DEF MutexOwned, BarberAt, TypeOK, Sems
  <2>3. SeatStillFree'
    BY <1>1 DEF SeatStillFree, TypeOK, Sems
  <2>4. ChairsConserved' /\ HaircutsConserved'
    BY <1>1, <1>2, <1>3, BarberAssumption
       DEF ChairsConserved, HaircutsConserved, Cuts, BarberAt, TypeOK, Sems
  <2> QED
    BY <2>1, <2>2, <2>3, <2>4 DEF IInv, UnitsConserved
<1>12. CASE CutService
  <2> USE <1>12 DEF CutService, Moves, sem_wait, sem_signal
  <2>1. TypeOK'
    BY <1>1 DEF TypeOK, BarberLabels, Sems
  <2>2. MutexOwned'
    BY <1>1, <1>2, <1>3 DEF MutexOwned, BarberAt, TypeOK, Sems
  <2>3. SeatStillFree'
    BY <1>1 DEF SeatStillFree, TypeOK, Sems
  <2>4. ChairsConserved' /\ HaircutsConserved'
    BY <1>1, <1>2, <1>3, BarberAssumption
       DEF ChairsConserved, HaircutsConserved, Cuts, BarberAt, TypeOK, Sems
  <2> QED
    BY <2>1, <2>2, <2>3, <2>4 DEF IInv, UnitsConserved
<1>13. CASE CutWaiting
  <2> USE <1>13 DEF CutWaiting, Moves, sem_wait, sem_signal
  <2>1. TypeOK'
    BY <1>1 DEF TypeOK, BarberLabels, Sems
  <2>2. MutexOwned'
    BY <1>1, <1>2, <1>3 DEF MutexOwned, BarberAt, TypeOK, Sems
  <2>3. SeatStillFree'
    BY <1>1 DEF SeatStillFree, TypeOK, Sems
  <2>4. ChairsConserved' /\ HaircutsConserved'
    BY <1>1, <1>2, <1>3, BarberAssumption
       DEF ChairsConserved, HaircutsConserved, Cuts, BarberAt, TypeOK, Sems
  <2> QED
    BY <2>1, <2>2, <2>3, <2>4 DEF IInv, UnitsConserved
<1>14. CASE CutDone
  <2> USE <1>14 DEF CutDone, Moves, sem_wait, sem_signal
  <2>1. TypeOK'
    BY <1>1 DEF TypeOK, BarberLabels, Sems
  <2>2. MutexOwned'
    BY <1>1, <1>2, <1>3 DEF MutexOwned, BarberAt, TypeOK, Sems
  <2>3. SeatStillFree'
    BY <1>1 DEF SeatStillFree, TypeOK, Sems
  <2>4. ChairsConserved' /\ HaircutsConserved'
    BY <1>1, <1>2, <1>3, BarberAssumption
       DEF ChairsConserved, HaircutsConserved, Cuts, BarberAt, TypeOK, Sems
  <2> QED
    BY <2>1, <2>2, <2>3, <2>4 DEF IInv, UnitsConserved
<1> QED
  BY <1>4, <1>5, <1>6, <1>7, <1>8, <1>9, <1>10, <1>11, <1>12, <1>13, <1>14 DEF BarberStep

\* Customer c goes from one label to another: how the counts of the account change.
Counts(c, from, to) ==
  /\ Steps(c) /\ pc[c] = from /\ pc'[c] = to /\ UNCHANGED barber
  /\ At(InMutex)' + One(from \in InMutex) = At(InMutex) + One(to \in InMutex)
  /\ At(Seated)' + One(from \in Seated) = At(Seated) + One(to \in Seated)
  /\ At(Announced)' + One(from \in Announced) = At(Announced) + One(to \in Announced)
  /\ At({"served"})' + One(from = "served") = At({"served"}) + One(to = "served")

LEMMA WalksCounts ==
  ASSUME TypeOK, NEW c \in Customer, NEW from \in Labels, NEW to \in Labels,
         Walks(c, from, to)
  PROVE  Counts(c, from, to)
<1>1. Steps(c) /\ pc[c] = from /\ pc'[c] = to /\ UNCHANGED barber
  BY DEF Walks, Steps, TypeOK
<1>2. from \in {"served"} <=> from = "served"
  OBVIOUS
<1>3. to \in {"served"} <=> to = "served"
  OBVIOUS
<1>4. At({"served"})' + One(from = "served") = At({"served"}) + One(to = "served")
  BY <1>1, <1>2, <1>3, AtMoves DEF One
<1> QED
  BY <1>1, <1>4, AtMoves DEF Counts

\* Every statement of a customer preserves the account (LAB4/sysproc.c:163-179).
LEMMA CustomerIInv ==
  ASSUME IInv, NEW c \in Customer, Arrive(c) \/ CustomerStep(c)
  PROVE  IInv'
<1>1. TypeOK /\ MutexOwned /\ SeatStillFree /\ ChairsConserved /\ HaircutsConserved
  BY DEF IInv, UnitsConserved
<1>2. \A L : At(L) \in Nat /\ At(L)' \in Nat
  BY AtNat
<1>3. \A d \in Customer : d # c /\ pc[d] = "seat" => pc[c] \notin InMutex
  <2> SUFFICES ASSUME NEW d \in Customer, d # c, pc[d] = "seat"
               PROVE  pc[c] \notin InMutex
    OBVIOUS
  <2>1. pc[d] \in InMutex
    BY DEF InMutex
  <2> QED
    BY <1>1, <2>1, OneInMutex
<1>4. CASE Arrive(c)
  <2> USE <1>4 DEF Arrive, sem_wait, sem_signal
  <2>1. Counts(c, "outside", "arrive")
    BY <1>1, WalksCounts DEF Labels
  <2>2. TypeOK'
    BY <1>1, <2>1 DEF Counts, TypeOK, Steps, Sems
  <2>3. MutexOwned'
    BY <1>1, <1>2, <2>1 DEF Counts, MutexOwned, InMutex, BarberAt, TypeOK, Sems, One
  <2>4. SeatStillFree'
    BY <1>1, <1>3, <2>1 DEF Counts, SeatStillFree, InMutex, TypeOK, Sems, Steps
  <2>5. ChairsConserved' /\ HaircutsConserved'
    BY <1>1, <1>2, <2>1, BarberAssumption
       DEF Counts, ChairsConserved, HaircutsConserved, Cuts, BarberAt, TypeOK, Sems, One,
           Seated, Announced
  <2> QED
    BY <2>2, <2>3, <2>4, <2>5 DEF IInv, UnitsConserved
<1>5. CASE ArriveMutex(c)
  <2> USE <1>5 DEF ArriveMutex, sem_wait, sem_signal
  <2>1. Counts(c, "arrive", "test")
    BY <1>1, WalksCounts DEF Labels
  <2>2. TypeOK'
    BY <1>1, <2>1 DEF Counts, TypeOK, Steps, Sems
  <2>3. MutexOwned'
    BY <1>1, <1>2, <2>1 DEF Counts, MutexOwned, InMutex, BarberAt, TypeOK, Sems, One
  <2>4. SeatStillFree'
    BY <1>1, <1>3, <2>1 DEF Counts, SeatStillFree, InMutex, TypeOK, Sems, Steps
  <2>5. ChairsConserved' /\ HaircutsConserved'
    BY <1>1, <1>2, <2>1, BarberAssumption
       DEF Counts, ChairsConserved, HaircutsConserved, Cuts, BarberAt, TypeOK, Sems, One,
           Seated, Announced
  <2> QED
    BY <2>2, <2>3, <2>4, <2>5 DEF IInv, UnitsConserved
<1>6. CASE ArriveTest(c)
  <2> USE <1>6 DEF ArriveTest, sem_wait, sem_signal
  <2>1. Counts(c, "test", IF sems["waiting"] > 0 THEN "seat" ELSE "full")
    BY <1>1, WalksCounts DEF Labels
  <2>2. TypeOK'
    BY <1>1, <2>1 DEF Counts, TypeOK, Steps, Sems
  <2>3. MutexOwned'
    BY <1>1, <1>2, <2>1 DEF Counts, MutexOwned, InMutex, BarberAt, TypeOK, Sems, One
  <2>4. SeatStillFree'
    BY <1>1, <1>3, <2>1 DEF Counts, SeatStillFree, InMutex, TypeOK, Sems, Steps
  <2>5. ChairsConserved' /\ HaircutsConserved'
    BY <1>1, <1>2, <2>1, BarberAssumption
       DEF Counts, ChairsConserved, HaircutsConserved, Cuts, BarberAt, TypeOK, Sems, One,
           Seated, Announced
  <2> QED
    BY <2>2, <2>3, <2>4, <2>5 DEF IInv, UnitsConserved
<1>7. CASE ArriveSeat(c)
  <2> USE <1>7 DEF ArriveSeat, sem_wait, sem_signal
  <2>1. Counts(c, "seat", "announce")
    BY <1>1, WalksCounts DEF Labels
  <2>2. TypeOK'
    BY <1>1, <2>1 DEF Counts, TypeOK, Steps, Sems
  <2>3. MutexOwned'
    BY <1>1, <1>2, <2>1 DEF Counts, MutexOwned, InMutex, BarberAt, TypeOK, Sems, One
  <2>4. SeatStillFree'
    BY <1>1, <1>3, <2>1 DEF Counts, SeatStillFree, InMutex, TypeOK, Sems, Steps
  <2>5. ChairsConserved' /\ HaircutsConserved'
    BY <1>1, <1>2, <2>1, BarberAssumption
       DEF Counts, ChairsConserved, HaircutsConserved, Cuts, BarberAt, TypeOK, Sems, One,
           Seated, Announced
  <2> QED
    BY <2>2, <2>3, <2>4, <2>5 DEF IInv, UnitsConserved
<1>8. CASE ArriveAnnounce(c)
  <2> USE <1>8 DEF ArriveAnnounce, sem_wait, sem_signal
  <2>1. Counts(c, "announce", "unlock")
    BY <1>1, WalksCounts DEF Labels
  <2>2. TypeOK'
    BY <1>1, <2>1 DEF Counts, TypeOK, Steps, Sems
  <2>3. MutexOwned'
    BY <1>1, <1>2, <2>1 DEF Counts, MutexOwned, InMutex, BarberAt, TypeOK, Sems, One
  <2>4. SeatStillFree'
    BY <1>1, <1>3, <2>1 DEF Counts, SeatStillFree, InMutex, TypeOK, Sems, Steps
  <2>5. ChairsConserved' /\ HaircutsConserved'
    BY <1>1, <1>2, <2>1, BarberAssumption
       DEF Counts, ChairsConserved, HaircutsConserved, Cuts, BarberAt, TypeOK, Sems, One,
           Seated, Announced
  <2> QED
    BY <2>2, <2>3, <2>4, <2>5 DEF IInv, UnitsConserved
<1>9. CASE ArriveUnlock(c)
  <2> USE <1>9 DEF ArriveUnlock, sem_wait, sem_signal
  <2>1. Counts(c, "unlock", "wake")
    BY <1>1, WalksCounts DEF Labels
  <2>2. TypeOK'
    BY <1>1, <2>1 DEF Counts, TypeOK, Steps, Sems
  <2>3. MutexOwned'
    BY <1>1, <1>2, <2>1 DEF Counts, MutexOwned, InMutex, BarberAt, TypeOK, Sems, One
  <2>4. SeatStillFree'
    BY <1>1, <1>3, <2>1 DEF Counts, SeatStillFree, InMutex, TypeOK, Sems, Steps
  <2>5. ChairsConserved' /\ HaircutsConserved'
    BY <1>1, <1>2, <2>1, BarberAssumption
       DEF Counts, ChairsConserved, HaircutsConserved, Cuts, BarberAt, TypeOK, Sems, One,
           Seated, Announced
  <2> QED
    BY <2>2, <2>3, <2>4, <2>5 DEF IInv, UnitsConserved
<1>10. CASE ArriveWake(c)
  <2> USE <1>10 DEF ArriveWake, sem_wait, sem_signal
  <2>1. Counts(c, "wake", "chair")
    BY <1>1, WalksCounts DEF Labels
  <2>2. TypeOK'
    BY <1>1, <2>1 DEF Counts, TypeOK, Steps, Sems
  <2>3. MutexOwned'
    BY <1>1, <1>2, <2>1 DEF Counts, MutexOwned, InMutex, BarberAt, TypeOK, Sems, One
  <2>4. SeatStillFree'
    BY <1>1, <1>3, <2>1 DEF Counts, SeatStillFree, InMutex, TypeOK, Sems, Steps
  <2>5. ChairsConserved' /\ HaircutsConserved'
    BY <1>1, <1>2, <2>1, BarberAssumption
       DEF Counts, ChairsConserved, HaircutsConserved, Cuts, BarberAt, TypeOK, Sems, One,
           Seated, Announced
  <2> QED
    BY <2>2, <2>3, <2>4, <2>5 DEF IInv, UnitsConserved
<1>11. CASE ArriveChair(c)
  <2> USE <1>11 DEF ArriveChair, sem_wait, sem_signal
  <2>1. Counts(c, "chair", "service")
    BY <1>1, WalksCounts DEF Labels
  <2>2. TypeOK'
    BY <1>1, <2>1 DEF Counts, TypeOK, Steps, Sems
  <2>3. MutexOwned'
    BY <1>1, <1>2, <2>1 DEF Counts, MutexOwned, InMutex, BarberAt, TypeOK, Sems, One
  <2>4. SeatStillFree'
    BY <1>1, <1>3, <2>1 DEF Counts, SeatStillFree, InMutex, TypeOK, Sems, Steps
  <2>5. ChairsConserved' /\ HaircutsConserved'
    BY <1>1, <1>2, <2>1, BarberAssumption
       DEF Counts, ChairsConserved, HaircutsConserved, Cuts, BarberAt, TypeOK, Sems, One,
           Seated, Announced
  <2> QED
    BY <2>2, <2>3, <2>4, <2>5 DEF IInv, UnitsConserved
<1>12. CASE ArriveService(c)
  <2> USE <1>12 DEF ArriveService, sem_wait, sem_signal
  <2>1. Counts(c, "service", "served")
    BY <1>1, WalksCounts DEF Labels
  <2>2. TypeOK'
    BY <1>1, <2>1 DEF Counts, TypeOK, Steps, Sems
  <2>3. MutexOwned'
    BY <1>1, <1>2, <2>1 DEF Counts, MutexOwned, InMutex, BarberAt, TypeOK, Sems, One
  <2>4. SeatStillFree'
    BY <1>1, <1>3, <2>1 DEF Counts, SeatStillFree, InMutex, TypeOK, Sems, Steps
  <2>5. ChairsConserved' /\ HaircutsConserved'
    BY <1>1, <1>2, <2>1, BarberAssumption
       DEF Counts, ChairsConserved, HaircutsConserved, Cuts, BarberAt, TypeOK, Sems, One,
           Seated, Announced
  <2> QED
    BY <2>2, <2>3, <2>4, <2>5 DEF IInv, UnitsConserved
<1>13. CASE ArriveFull(c)
  <2> USE <1>13 DEF ArriveFull, sem_wait, sem_signal
  <2>1. Counts(c, "full", "left")
    BY <1>1, WalksCounts DEF Labels
  <2>2. TypeOK'
    BY <1>1, <2>1 DEF Counts, TypeOK, Steps, Sems
  <2>3. MutexOwned'
    BY <1>1, <1>2, <2>1 DEF Counts, MutexOwned, InMutex, BarberAt, TypeOK, Sems, One
  <2>4. SeatStillFree'
    BY <1>1, <1>3, <2>1 DEF Counts, SeatStillFree, InMutex, TypeOK, Sems, Steps
  <2>5. ChairsConserved' /\ HaircutsConserved'
    BY <1>1, <1>2, <2>1, BarberAssumption
       DEF Counts, ChairsConserved, HaircutsConserved, Cuts, BarberAt, TypeOK, Sems, One,
           Seated, Announced
  <2> QED
    BY <2>2, <2>3, <2>4, <2>5 DEF IInv, UnitsConserved
<1> QED
  BY <1>4, <1>5, <1>6, <1>7, <1>8, <1>9, <1>10, <1>11, <1>12, <1>13 DEF CustomerStep

LEMMA NextIInv == IInv /\ [Next]_vars => IInv'
<1> SUFFICES ASSUME IInv, [Next]_vars PROVE IInv'
  OBVIOUS
<1>1. CASE BarberStep
  BY <1>1, BarberIInv
<1>2. CASE \E c \in Customer : Arrive(c) \/ CustomerStep(c)
  BY <1>2, CustomerIInv
<1>3. CASE UNCHANGED vars
  <2>1. UNCHANGED <<sems, barber, pc>>
    BY <1>3 DEF vars
  <2>2. \A L : At(L)' = At(L)
    BY <2>1, AtStays
  <2> QED
    BY <2>1, <2>2
       DEF IInv, TypeOK, UnitsConserved, MutexOwned, SeatStillFree, ChairsConserved,
           HaircutsConserved, Cuts, BarberAt
<1> QED
  BY <1>1, <1>2, <1>3 DEF Next

-----------------------------------------------------------------------------
\* The account of the units is an invariant, however unfair the semaphores are.
THEOREM BarberInvariant == SafeSpec => []IInv
<1>1. Init => IInv
  BY InitIInv
<1>2. IInv /\ [Next]_vars => IInv'
  BY NextIInv
<1> QED
  BY <1>1, <1>2, PTL DEF SafeSpec

\* The semaphores never fall below 0, and everybody is at a statement of the program
\* (LAB4/sysproc.c:134-191).
THEOREM BarberType == Spec => []TypeOK
<1>1. IInv => TypeOK
  BY DEF IInv
<1> QED
  BY <1>1, BarberInvariant, PTL DEF Spec

\* Every unit of the semaphores is accounted for, on every way out of every call, for
\* any number of customers and chairs (LAB4/sysproc.c:150-191).
THEOREM BarberUnits == Spec => []UnitsConserved
<1>1. IInv => UnitsConserved
  BY DEF IInv
<1> QED
  BY <1>1, BarberInvariant, PTL DEF Spec

\* The barber is not between the two signals that give a chair and the one that gives
\* it back while a customer tests for a chair: the mutex is with the customer.
LEMMA FullWhenTurnedAway ==
  ASSUME IInv, NEW c \in Customer, pc[c] = "test", pc'[c] = "full", [Next]_vars
  PROVE  At(Seated) - Cuts >= CHAIRS
<1>1. TypeOK /\ MutexOwned /\ ChairsConserved
  BY DEF IInv, UnitsConserved
<1>2. /\ At(InMutex) \in Nat /\ At(InMutex) # 0
      /\ At(Seated) \in Nat /\ At(Announced) \in Nat
  <2>1. c \in {d \in Customer : pc[d] \in InMutex}
    BY DEF InMutex
  <2>2. IsFiniteSet({d \in Customer : pc[d] \in InMutex})
    BY BarberAssumption, FS_Subset
  <2> QED
    BY <2>1, <2>2, FS_EmptySet, AtNat DEF At
<1>3. barber \notin {"chair", "service", "waiting"}
  BY <1>1, <1>2 DEF MutexOwned, InMutex, BarberAt, TypeOK, Sems
<1>4. ArriveTest(c)
  <2>1. ~ (BarberStep \/ UNCHANGED vars)
    BY DEF BarberStep, SleepMutex, SleepTest, SleepNone, SleepWait, SleepSome, CutMutex,
           CutCustomer, CutChair, CutService, CutWaiting, CutDone, Moves, vars
  <2>2. PICK d \in Customer : Arrive(d) \/ CustomerStep(d)
    BY <2>1 DEF Next
  <2>3. c = d
    BY <1>1, <2>2
       DEF Arrive, CustomerStep, ArriveMutex, ArriveTest, ArriveSeat, ArriveAnnounce,
           ArriveUnlock, ArriveWake, ArriveChair, ArriveService, ArriveFull, Walks, TypeOK
  <2> QED
    BY <2>2, <2>3
       DEF Arrive, CustomerStep, ArriveMutex, ArriveSeat, ArriveAnnounce, ArriveUnlock,
           ArriveWake, ArriveChair, ArriveService, ArriveFull, Walks
<1>5. sems["waiting"] = 0
  BY <1>1, <1>4 DEF ArriveTest, Walks, TypeOK, Sems
<1> QED
  BY <1>1, <1>2, <1>3, <1>5, BarberAssumption
     DEF ChairsConserved, Cuts, BarberAt, TypeOK, Sems

\* "leaves (no chairs)" (LAB4/barber.c:24): a customer is turned away only when CHAIRS
\* customers sit there whose haircut has not begun.
THEOREM BarberTurnedAway == Spec => TurnedAwayWhenFull
<1>1. IInv /\ [Next]_vars
        => [\A c \in Customer : pc[c] = "test" /\ pc'[c] = "full"
              => At(Seated) - Cuts >= CHAIRS]_vars
  BY FullWhenTurnedAway
<1> QED
  BY <1>1, BarberInvariant, PTL DEF Spec, SafeSpec, TurnedAwayWhenFull
=============================================================================
