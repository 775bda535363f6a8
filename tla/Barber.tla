-------------------------------- MODULE Barber --------------------------------
(***************************************************************************)
(* The sleeping barber: the system calls sys_barber_sleep, sys_cut_hair and*)
(* sys_customer_arr (LAB4/sysproc.c:134-191) as LAB4/barber.c calls them,  *)
(* one barber in a loop and customers that come once.  The six semaphores  *)
(* are those of Semaphore.tla; here each operation on one is the one step  *)
(* that CountingSemaphore.tla says it is.                                  *)
(***************************************************************************)
EXTENDS Integers, FiniteSets

CONSTANTS Customer,  \* the processes that barber.c forks as customers
          CHAIRS     \* what sys_init_barber gives sems[4]: 5

ASSUME BarberAssumption == IsFiniteSet(Customer) /\ CHAIRS \in Nat \ {0}

\* The comments of sys_init_barber name sems[0] to sems[5].
Sems == {"barber", "chair", "mutex", "customers", "waiting", "service"}

VARIABLES sems,   \* the value of each semaphore
          barber, \* the next statement of the barber
          pc      \* the next statement of each customer

vars == <<sems, barber, pc>>

BarberLabels == {"sleep_mutex", "test", "none", "some", "asleep", "cut_mutex",
                 "customers", "chair", "service", "waiting", "done"}
Labels == {"outside", "arrive", "test", "seat", "announce", "unlock", "wake",
           "chair", "service", "served", "full", "left"}

TypeOK == /\ sems \in [Sems -> Nat]
          /\ barber \in BarberLabels
          /\ pc \in [Customer -> Labels]

\* sys_init_barber().
Init == /\ sems = [s \in Sems |-> CASE s \in {"chair", "mutex"} -> 1
                                    [] s = "waiting" -> CHAIRS
                                    [] OTHER -> 0]
        /\ barber = "sleep_mutex"
        /\ pc = [c \in Customer |-> "outside"]

\* Mutant of sem_wait: the value is not tested.
sem_waitUntested(s) == sems' = [sems EXCEPT ![s] = @ - 1]

sem_wait(s) == /\ sems[s] > 0
               /\ sems' = [sems EXCEPT ![s] = @ - 1]
sem_signal(s) == sems' = [sems EXCEPT ![s] = @ + 1]

\* The barber, or customer c, goes from one statement to another.
Moves(from, to) == barber = from /\ barber' = to /\ UNCHANGED pc
Walks(c, from, to) == pc[c] = from /\ pc' = [pc EXCEPT ![c] = to] /\ UNCHANGED barber

(***************************************************************************)
(* sys_barber_sleep().                                                     *)
(***************************************************************************)
SleepMutex == Moves("sleep_mutex", "test") /\ sem_wait("mutex")

\* The value of sems[3] is read without its lock.
SleepTest == /\ Moves("test", IF sems["customers"] = 0 THEN "none" ELSE "some")
             /\ UNCHANGED sems

SleepNone == Moves("none", "asleep") /\ sem_signal("mutex")
SleepWait == Moves("asleep", "cut_mutex") /\ sem_wait("barber")
SleepSome == Moves("some", "cut_mutex") /\ sem_signal("mutex")

(***************************************************************************)
(* sys_cut_hair().                                                         *)
(***************************************************************************)
CutMutex == Moves("cut_mutex", "customers") /\ sem_wait("mutex")
CutCustomer == Moves("customers", "chair") /\ sem_wait("customers")
CutChair == Moves("chair", "service") /\ sem_signal("chair")

\* Mutant of CutWaiting: the free chair is signalled on the wrong semaphore.
CutWaitingOther == Moves("waiting", "done") /\ sem_signal("chair")

CutService == Moves("service", "waiting") /\ sem_signal("service")
CutWaiting == Moves("waiting", "done") /\ sem_signal("waiting")
CutDone == Moves("done", "sleep_mutex") /\ sem_signal("mutex")

(***************************************************************************)
(* sys_customer_arr().                                                     *)
(***************************************************************************)
Arrive(c) == Walks(c, "outside", "arrive") /\ UNCHANGED sems

\* Mutant of ArriveTest: one chair is kept free.
ArriveTestOne(c) == /\ Walks(c, "test", IF sems["waiting"] > 1 THEN "seat" ELSE "full")
                    /\ UNCHANGED sems

ArriveMutex(c) == Walks(c, "arrive", "test") /\ sem_wait("mutex")

\* The value of sems[4] is read without its lock.
ArriveTest(c) == /\ Walks(c, "test", IF sems["waiting"] > 0 THEN "seat" ELSE "full")
                 /\ UNCHANGED sems

ArriveSeat(c) == Walks(c, "seat", "announce") /\ sem_wait("waiting")
ArriveAnnounce(c) == Walks(c, "announce", "unlock") /\ sem_signal("customers")
ArriveUnlock(c) == Walks(c, "unlock", "wake") /\ sem_signal("mutex")
ArriveWake(c) == Walks(c, "wake", "chair") /\ sem_signal("barber")
ArriveChair(c) == Walks(c, "chair", "service") /\ sem_wait("chair")
ArriveService(c) == Walks(c, "service", "served") /\ sem_wait("service")

\* No chair: release the mutex, return -1.
ArriveFull(c) == Walks(c, "full", "left") /\ sem_signal("mutex")

-----------------------------------------------------------------------------
BarberStep == \/ SleepMutex \/ SleepTest   \/ SleepNone \/ SleepWait  \/ SleepSome
              \/ CutMutex   \/ CutCustomer \/ CutChair  \/ CutService \/ CutWaiting
              \/ CutDone

CustomerStep(c) == \/ ArriveMutex(c)    \/ ArriveTest(c)   \/ ArriveSeat(c)
                   \/ ArriveAnnounce(c) \/ ArriveUnlock(c) \/ ArriveWake(c)
                   \/ ArriveChair(c)    \/ ArriveService(c) \/ ArriveFull(c)

Next == BarberStep \/ \E c \in Customer : Arrive(c) \/ CustomerStep(c)

SafeSpec == Init /\ [][Next]_vars

\* Every process executes its program, and a process whose semaphore has a unit
\* again and again gets one: more than the semaphores promise.
Fairness == SF_vars(BarberStep) /\ \A c \in Customer : SF_vars(CustomerStep(c))

Spec == SafeSpec /\ Fairness

-----------------------------------------------------------------------------
At(labels) == Cardinality({c \in Customer : pc[c] \in labels})
BarberAt(labels) == IF barber \in labels THEN 1 ELSE 0

Seated == {"announce", "unlock", "wake", "chair", "service", "served"}
Announced == Seated \ {"announce"}

\* The haircuts begun: customers announced, less those not yet taken up.
Cuts == At(Announced) - sems["customers"]

\* One process at a time is between the wait and the signal of the mutex, the
\* barber included, whichever way it leaves (LAB4/sysproc.c:153-159, :166-176,
\* :184-189).
MutexOwned ==
  sems["mutex"] + At({"test", "seat", "announce", "unlock", "full"})
                + BarberAt({"test", "none", "some", "customers", "chair", "service",
                            "waiting", "done"}) = 1

\* A customer that found a free chair does not wait for it with the mutex
\* (LAB4/sysproc.c:167-168).
SeatStillFree == \A c \in Customer : pc[c] = "seat" => sems["waiting"] > 0

\* The waiting chairs are conserved: taken once by each customer that stays, given
\* back once by each haircut (LAB4/sysproc.c:168, :188).
ChairsConserved ==
  sems["waiting"] = CHAIRS - At(Seated) + Cuts - BarberAt({"chair", "service", "waiting"})

\* Nobody is served without a haircut, and no haircut is given twice
\* (LAB4/sysproc.c:173, :185-187).
HaircutsConserved ==
  sems["service"] + At({"served"}) = Cuts - BarberAt({"chair", "service"})

\* Every unit of the semaphores is accounted for: a unit signalled twice or not at
\* all, on one way out of one call, shows only many calls later (LAB4/sysproc.c:150-191).
UnitsConserved == MutexOwned /\ SeatStillFree /\ ChairsConserved /\ HaircutsConserved

\* "leaves (no chairs)" (LAB4/barber.c:24): a customer is turned away only when
\* CHAIRS customers sit there whose haircut has not begun.
TurnedAwayWhenFull ==
  [][\A c \in Customer : pc[c] = "test" /\ pc'[c] = "full" => At(Seated) - Cuts >= CHAIRS]_vars

\* "Customer %d gets haircut", or "leaves (no chairs)" (LAB4/barber.c:20-25): every
\* customer that arrives comes out again one way or the other.
CustomerComesOut ==
  \A c \in Customer : pc[c] = "arrive" ~> pc[c] \in {"served", "left"}
=============================================================================
