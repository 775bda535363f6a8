-------------------------------- MODULE RWLock --------------------------------
(***************************************************************************)
(* The reader-writer lock of LAB4/rwlock.c and the system calls that use it*)
(* (LAB4/sysproc.c:96-131): reader() and writer(), called for the bits of a*)
(* pattern.  read_sem and write_sem are semaphores of the kind that        *)
(* Semaphore.tla models; here each of their operations is the one step that*)
(* CountingSemaphore.tla says it is.  my_rw_lock.lock is a spin lock: a    *)
(* thread that goes to sleep with it makes sched() panic.                  *)
(***************************************************************************)
EXTENDS Integers, FiniteSets

CONSTANTS Proc,      \* the processes that call sys_get_rw_pattern
          None,      \* nobody holds the spin lock
          MaxValue   \* bound: writer() is called only below this shared_value

ASSUME RWAssumption == /\ None \notin Proc
                       /\ MaxValue \in Nat
                       /\ IsFiniteSet(Proc)

VARIABLES read_sem,      \* my_rw_lock.read_sem.value
          write_sem,     \* my_rw_lock.write_sem.value
          read_count,    \* my_rw_lock.read_count
          write_waiting, \* my_rw_lock.write_waiting
          lock,          \* the process holding my_rw_lock.lock
          shared_value,  \* what readers print and writers increment
          loaded,        \* what a writer's increment has read
          pc,            \* the next statement of each process
          panicked       \* panic() has frozen the machine

sems == <<read_sem, write_sem>>
counts == <<read_count, write_waiting>>
data == <<shared_value, loaded>>
vars == <<sems, counts, lock, data, pc, panicked>>

Labels == {"idle", "r_wait", "r_count", "r_first", "r_unlock", "r_signal",
           "read", "r_last", "r_release",
           "w_count", "w_wait", "load", "store", "w_uncount", "w_signal"}

TypeOK == /\ read_sem \in 0 .. 1
          /\ write_sem \in 0 .. 1
          /\ read_count \in 0 .. Cardinality(Proc)
          /\ write_waiting \in 0 .. Cardinality(Proc)
          /\ lock \in Proc \cup {None}
          /\ shared_value \in Nat
          /\ loaded \in [Proc -> Nat]
          /\ pc \in [Proc -> Labels]
          /\ panicked \in BOOLEAN

\* After sys_init_rw_lock().
Init == /\ read_sem = 1
        /\ write_sem = 1
        /\ read_count = 0
        /\ write_waiting = 0
        /\ lock = None
        /\ shared_value = 0
        /\ loaded = [p \in Proc |-> 0]
        /\ pc = [p \in Proc |-> "idle"]
        /\ panicked = FALSE

At(p, l) == ~panicked /\ pc[p] = l
Goto(p, l) == pc' = [pc EXCEPT ![p] = l]

(***************************************************************************)
(* sys_get_rw_pattern(): a bit 0 calls reader(), a bit 1 calls writer().   *)
(***************************************************************************)
CallReader(p) == /\ At(p, "idle")
                 /\ Goto(p, "r_wait")
                 /\ UNCHANGED <<sems, counts, lock, data, panicked>>

CallWriter(p) == /\ At(p, "idle")
                 /\ shared_value < MaxValue
                 /\ Goto(p, "w_count")
                 /\ UNCHANGED <<sems, counts, lock, data, panicked>>

(***************************************************************************)
(* reader().                                                               *)
(***************************************************************************)
\* sem_wait(&read_sem).
ReaderWait(p) == /\ At(p, "r_wait")
                 /\ read_sem > 0
                 /\ read_sem' = read_sem - 1
                 /\ Goto(p, "r_count")
                 /\ UNCHANGED <<write_sem, counts, lock, data, panicked>>

\* Mutant: the second reader takes the unit.
ReaderCountLate(p) == /\ At(p, "r_count")
                      /\ lock = None
                      /\ lock' = p
                      /\ read_count' = read_count + 1
                      /\ Goto(p, IF read_count = 1 THEN "r_first" ELSE "r_unlock")
                      /\ UNCHANGED <<sems, write_waiting, data, panicked>>

\* acquire(&lock); read_count++; is this the first reader?
ReaderCount(p) == /\ At(p, "r_count")
                  /\ lock = None
                  /\ lock' = p
                  /\ read_count' = read_count + 1
                  /\ Goto(p, IF read_count = 0 THEN "r_first" ELSE "r_unlock")
                  /\ UNCHANGED <<sems, write_waiting, data, panicked>>

\* sem_wait(&write_sem) with my_rw_lock.lock held: with no unit it calls sleep(),
\* and sched() counts one spin lock too many: panic("sched locks").
ReaderFirst(p) == /\ At(p, "r_first")
                  /\ IF write_sem > 0
                       THEN /\ write_sem' = write_sem - 1
                            /\ Goto(p, "r_unlock")
                            /\ UNCHANGED panicked
                       ELSE /\ panicked' = TRUE
                            /\ UNCHANGED <<write_sem, pc>>
                  /\ UNCHANGED <<read_sem, counts, lock, data>>

ReaderUnlock(p) == /\ At(p, "r_unlock")
                   /\ lock' = None
                   /\ Goto(p, "r_signal")
                   /\ UNCHANGED <<sems, counts, data, panicked>>

\* sem_signal(&read_sem), then the read.
ReaderSignal(p) == /\ At(p, "r_signal")
                   /\ read_sem' = read_sem + 1
                   /\ Goto(p, "read")
                   /\ UNCHANGED <<write_sem, counts, lock, data, panicked>>

\* Mutant: the last reader is not noticed.
ReaderUncountLate(p) == /\ At(p, "read")
                        /\ lock = None
                        /\ lock' = p
                        /\ read_count' = read_count - 1
                        /\ Goto(p, IF read_count = 0 THEN "r_last" ELSE "r_release")
                        /\ UNCHANGED <<sems, write_waiting, data, panicked>>

\* acquire(&lock); read_count--; was this the last reader?
ReaderUncount(p) == /\ At(p, "read")
                    /\ lock = None
                    /\ lock' = p
                    /\ read_count' = read_count - 1
                    /\ Goto(p, IF read_count = 1 THEN "r_last" ELSE "r_release")
                    /\ UNCHANGED <<sems, write_waiting, data, panicked>>

\* Mutant: the unit goes to read_sem.
ReaderLastOther(p) == /\ At(p, "r_last")
                      /\ read_sem' = read_sem + 1
                      /\ Goto(p, "r_release")
                      /\ UNCHANGED <<write_sem, counts, lock, data, panicked>>

\* sem_signal(&write_sem): with the spin lock held, but it does not sleep.
ReaderLast(p) == /\ At(p, "r_last")
                 /\ write_sem' = write_sem + 1
                 /\ Goto(p, "r_release")
                 /\ UNCHANGED <<read_sem, counts, lock, data, panicked>>

ReaderRelease(p) == /\ At(p, "r_release")
                    /\ lock' = None
                    /\ Goto(p, "idle")
                    /\ UNCHANGED <<sems, counts, data, panicked>>

(***************************************************************************)
(* writer().                                                               *)
(***************************************************************************)
\* write_waiting++ under the lock.
WriterCount(p) == /\ At(p, "w_count")
                  /\ lock = None
                  /\ write_waiting' = write_waiting + 1
                  /\ Goto(p, "w_wait")
                  /\ UNCHANGED <<sems, read_count, lock, data, panicked>>

\* Mutant: no sem_wait.
WriterWaitSkipped(p) == /\ At(p, "w_wait")
                        /\ Goto(p, "load")
                        /\ UNCHANGED <<sems, counts, lock, data, panicked>>

\* sem_wait(&write_sem).
WriterWait(p) == /\ At(p, "w_wait")
                 /\ write_sem > 0
                 /\ write_sem' = write_sem - 1
                 /\ Goto(p, "load")
                 /\ UNCHANGED <<read_sem, counts, lock, data, panicked>>

\* shared_value++ is a load and a store.
WriterLoad(p) == /\ At(p, "load")
                 /\ loaded' = [loaded EXCEPT ![p] = shared_value]
                 /\ Goto(p, "store")
                 /\ UNCHANGED <<sems, counts, lock, shared_value, panicked>>

WriterStore(p) == /\ At(p, "store")
                  /\ shared_value' = loaded[p] + 1
                  /\ Goto(p, "w_uncount")
                  /\ UNCHANGED <<sems, counts, lock, loaded, panicked>>

\* write_waiting-- under the lock.
WriterUncount(p) == /\ At(p, "w_uncount")
                    /\ lock = None
                    /\ write_waiting' = write_waiting - 1
                    /\ Goto(p, "w_signal")
                    /\ UNCHANGED <<sems, read_count, lock, data, panicked>>

\* sem_signal(&write_sem).
WriterSignal(p) == /\ At(p, "w_signal")
                   /\ write_sem' = write_sem + 1
                   /\ Goto(p, "idle")
                   /\ UNCHANGED <<read_sem, counts, lock, data, panicked>>

-----------------------------------------------------------------------------
Reader(p) == \/ CallReader(p)   \/ ReaderWait(p)    \/ ReaderCount(p)
             \/ ReaderFirst(p)  \/ ReaderUnlock(p)  \/ ReaderSignal(p)
             \/ ReaderUncount(p) \/ ReaderLast(p)   \/ ReaderRelease(p)

Writer(p) == \/ CallWriter(p)   \/ WriterCount(p)   \/ WriterWait(p)
             \/ WriterLoad(p)   \/ WriterStore(p)   \/ WriterUncount(p)
             \/ WriterSignal(p)

Next == \E p \in Proc : Reader(p) \/ Writer(p)

Spec == Init /\ [][Next]_vars

-----------------------------------------------------------------------------
Reading == {p \in Proc : pc[p] \in {"r_unlock", "r_signal", "read"}}
Writing == {p \in Proc : pc[p] \in {"load", "store", "w_uncount", "w_signal"}}
AtLast == {p \in Proc : pc[p] = "r_last"}
Counted == {p \in Proc : pc[p] \in {"r_first", "r_unlock", "r_signal", "read"}}

\* A writer is alone: no reader is between its entry and its exit, and no other
\* writer (LAB4/rwlock.c:36-51, :60-70).
WriterAlone == \A w \in Writing : Reading = {} /\ Writing = {w}

\* The unit of write_sem is with exactly one owner: nobody, a writer, or the
\* readers together, who got it through the first and give it back through the
\* last of them (LAB4/rwlock.c:38-40, :48-50, :60, :70).
WriteUnitOwned ==
  write_sem + Cardinality(Writing)
            + (IF Reading # {} \/ AtLast # {} THEN 1 ELSE 0) = 1

\* read_count counts the readers inside (LAB4/rwlock.c:38, :48).
ReadersCounted == read_count = Cardinality(Counted)

\* The counts and the unit that is taken and given back by their ends agree
\* (LAB4/rwlock.c:38-50).
CountsKept == WriteUnitOwned /\ ReadersCounted

\* A writer that stores leaves one more than what is there when it stores, not than
\* what it once loaded, and nothing else changes shared_value: no increment is lost,
\* though the lock that write_waiting needs is not held around it
\* (LAB4/rwlock.c:60-70).
Stores(p) == pc[p] = "store" /\ pc'[p] # "store"
IncrementsKept ==
  [][shared_value' = IF \E p \in Proc : Stores(p) THEN shared_value + 1
                                                 ELSE shared_value]_vars

\* "Enter scheduler.  Must hold only ptable.lock" (LAB4/proc.c:358): reader() never
\* goes to sleep with my_rw_lock.lock.
SleepsUnlocked == ~panicked
=============================================================================
