----------------------------- MODULE PipeProofs -----------------------------
(***************************************************************************)
(* Theorems about Pipe.tla, for every number of processes, files and       *)
(* bytes: the ends of the pipe are counted, nobody sleeps on it without a  *)
(* reason, and it is a bounded queue of bytes (Fifo.tla).                  *)
(***************************************************************************)
EXTENDS Pipe, TLAPS, FiniteSetTheorems, WellFoundedInduction

(***************************************************************************)
(* The arithmetic of counters that wrap around.                            *)
(***************************************************************************)
LEMMA DivMod ==
  ASSUME NEW w \in Nat \ {0}, NEW x \in Int
  PROVE  x = (x \div w) * w + (x % w) /\ x \div w \in Int /\ x % w \in 0 .. w - 1
<1>1. x = (x \div w) * w + (x % w)
  OBVIOUS
<1>2. x \div w \in Int /\ x % w \in 0 .. w - 1
  OBVIOUS
<1> QED
  BY <1>1, <1>2

LEMMA ModIs ==
  ASSUME NEW w \in Nat \ {0}, NEW q \in Int, NEW r \in 0 .. w - 1
  PROVE  (q * w + r) % w = r
OBVIOUS

LEMMA ModSmall ==
  ASSUME NEW w \in Nat \ {0}, NEW x \in 0 .. w - 1
  PROVE  x % w = x
OBVIOUS

\* A remainder may be taken before another number is added.
LEMMA ModAdd ==
  ASSUME NEW w \in Nat \ {0}, NEW x \in Int, NEW y \in Int
  PROVE  ((x % w) + y) % w = (x + y) % w
<1> DEFINE q == x \div w
           u == (x % w) + y
           q2 == u \div w
           r2 == u % w
<1>1. x = q * w + (x % w) /\ q \in Int /\ x % w \in 0 .. w - 1
  BY DivMod
<1>2. u \in Int /\ x + y = q * w + u
  BY <1>1
<1>3. u = q2 * w + r2 /\ q2 \in Int /\ r2 \in 0 .. w - 1
  BY <1>2, DivMod
<1> HIDE DEF q, u, q2, r2
<1>4. x + y = (q + q2) * w + r2
  BY <1>1, <1>2, <1>3
<1>5. q + q2 \in Int
  BY <1>1, <1>3
<1>6. (x + y) % w = r2
  BY <1>3, <1>4, <1>5, ModIs
<1> QED
  BY <1>6 DEF u, r2

LEMMA ModSub ==
  ASSUME NEW w \in Nat \ {0}, NEW x \in Int, NEW y \in Int
  PROVE  (y - (x % w)) % w = (y - x) % w
<1> DEFINE q == x \div w
           u == y - x
           q2 == u \div w
           r2 == u % w
<1>1. x = q * w + (x % w) /\ q \in Int /\ x % w \in 0 .. w - 1
  BY DivMod
<1>2. u \in Int /\ y - (x % w) = q * w + u
  BY <1>1
<1>3. u = q2 * w + r2 /\ q2 \in Int /\ r2 \in 0 .. w - 1
  BY <1>2, DivMod
<1> HIDE DEF q, u, q2, r2
<1>4. y - (x % w) = (q + q2) * w + r2
  BY <1>1, <1>2, <1>3
<1>5. q + q2 \in Int
  BY <1>1, <1>3
<1>6. (y - (x % w)) % w = r2
  BY <1>3, <1>4, <1>5, ModIs
<1> QED
  BY <1>6 DEF u, r2

\* A counter modulo a multiple of w is as good as the number itself.
LEMMA ModOf ==
  ASSUME NEW w \in Nat \ {0}, NEW v \in Nat \ {0}, v % w = 0, NEW x \in Int
  PROVE  (x % v) % w = x % w
<1> DEFINE k == v \div w
           q == x \div v
           u == x % v
           q2 == u \div w
           r2 == u % w
<1>1. v = k * w /\ k \in Int
  BY DivMod
<1>2. x = q * v + u /\ q \in Int /\ u \in Int
  BY DivMod
<1>3. u = q2 * w + r2 /\ q2 \in Int /\ r2 \in 0 .. w - 1
  BY <1>2, DivMod
<1> HIDE DEF k, q, u, q2, r2
<1>4. x = (q * k + q2) * w + r2
  BY <1>1, <1>2, <1>3
<1>5. q * k + q2 \in Int
  BY <1>1, <1>2, <1>3
<1>6. x % w = r2
  BY <1>3, <1>4, <1>5, ModIs
<1> QED
  BY <1>6 DEF u, r2

(***************************************************************************)
(* The buffer.                                                             *)
(***************************************************************************)
\* Where the m-th byte from byte a is.
LEMMA Wrapped ==
  ASSUME NEW a \in Int, NEW m \in Int
  PROVE  ((a % Width) + m) % PIPESIZE = (a + m) % PIPESIZE
<1> DEFINE u == a % Width
<1>1. PIPESIZE \in Nat \ {0} /\ Width \in Nat \ {0} /\ Width % PIPESIZE = 0
  BY PipeAssumption
<1>2. u \in Int
  <2>1. a % Width \in 0 .. Width - 1
    BY <1>1, DivMod
  <2> QED
    BY <1>1, <2>1
<1>3. u % PIPESIZE = a % PIPESIZE
  BY <1>1, ModOf
<1> HIDE DEF u
<1>4. ((u % PIPESIZE) + m) % PIPESIZE = (u + m) % PIPESIZE
  BY <1>1, <1>2, ModAdd
<1>5. ((a % PIPESIZE) + m) % PIPESIZE = (a + m) % PIPESIZE
  BY <1>1, ModAdd
<1> QED
  BY <1>2, <1>4, <1>5, <1>3 DEF u

\* The bytes that fit in the pipe are in different places.
LEMMA Places ==
  ASSUME NEW a \in Int, NEW m \in 0 .. PIPESIZE - 1
  PROVE  /\ (a + m) % PIPESIZE \in 0 .. PIPESIZE - 1
         /\ (((a + m) % PIPESIZE) - a) % PIPESIZE = m
<1> DEFINE u == a + m
<1>1. PIPESIZE \in Nat \ {0} /\ u \in Int /\ -a \in Int /\ m \in Nat
  BY PipeAssumption
<1>2. u % PIPESIZE \in 0 .. PIPESIZE - 1
  BY <1>1, DivMod
<1>3. ((u % PIPESIZE) + (-a)) % PIPESIZE = (u + (-a)) % PIPESIZE
  BY <1>1, ModAdd
<1>4. u + (-a) = m
  BY <1>1
<1> HIDE DEF u
<1>5. (u % PIPESIZE) + (-a) = (u % PIPESIZE) - a
  BY <1>1, <1>2
<1>6. m % PIPESIZE = m
  BY <1>1, ModSmall
<1> QED
  BY <1>2, <1>3, <1>4, <1>5, <1>6 DEF u

LEMMA UsedIs ==
  ASSUME nread \in 0 .. Width - 1, nwrite \in 0 .. Width - 1
  PROVE  Used \in 0 .. Width - 1 /\ nwrite = (nread + Used) % Width
<1>1. Width \in Nat \ {0} /\ nread \in Int /\ nwrite \in Int
  BY PipeAssumption
<1> DEFINE u == nwrite - nread
<1>2. u \in Int /\ u + nread = nwrite
  BY <1>1
<1>3. Used = u % Width /\ Used \in 0 .. Width - 1
  BY <1>1, <1>2, DivMod DEF Used
<1> HIDE DEF u
<1>4. ((u % Width) + nread) % Width = (u + nread) % Width
  BY <1>1, <1>2, ModAdd
<1>5. nwrite % Width = nwrite
  BY <1>1, ModSmall
<1>6. (u % Width) + nread = nread + Used
  BY <1>1, <1>3
<1> QED
  BY <1>2, <1>3, <1>4, <1>5, <1>6

LEMMA EmptyIs ==
  ASSUME nread \in 0 .. Width - 1, nwrite \in 0 .. Width - 1
  PROVE  Used = 0 <=> nread = nwrite
<1>1. Width \in Nat \ {0} /\ nread \in Int /\ nwrite \in Int
  BY PipeAssumption
<1>2. nread % Width = nread /\ 0 % Width = 0
  BY <1>1, ModSmall
<1>3. Used = 0 => nwrite = nread
  <2>1. nwrite = (nread + Used) % Width
    BY UsedIs
  <2>2. nread + 0 = nread
    BY <1>1
  <2> QED
    BY <1>2, <2>1, <2>2
<1>4. nwrite = nread => nwrite - nread = 0
  BY <1>1
<1> QED
  BY <1>2, <1>3, <1>4 DEF Used

\* Reading k bytes takes them from the counters.
LEMMA UsedAfterRead ==
  ASSUME NEW r \in 0 .. Width - 1, NEW w \in 0 .. Width - 1, NEW k \in Nat,
         k <= (w - r) % Width
  PROVE  (w - ((r + k) % Width)) % Width = ((w - r) % Width) - k
<1>1. Width \in Nat \ {0} /\ r \in Int /\ w \in Int /\ k \in Int /\ r + k \in Int /\ -k \in Int
  BY PipeAssumption
<1> DEFINE u == w - r
<1>2. u \in Int /\ w - (r + k) = u + (-k)
  BY <1>1
<1>3. (w - ((r + k) % Width)) % Width = (w - (r + k)) % Width
  BY <1>1, ModSub
<1> HIDE DEF u
<1>4. ((u % Width) + (-k)) % Width = (u + (-k)) % Width
  BY <1>1, <1>2, ModAdd
<1>5. u % Width \in 0 .. Width - 1 /\ k <= u % Width
  BY <1>1, <1>2, DivMod DEF u
<1>6. (u % Width) + (-k) = (u % Width) - k /\ (u % Width) - k \in 0 .. Width - 1
  BY <1>1, <1>5
<1>7. ((u % Width) - k) % Width = (u % Width) - k
  BY <1>1, <1>6, ModSmall
<1> QED
  BY <1>2, <1>3, <1>4, <1>6, <1>7 DEF u

\* Writing k bytes adds them.
LEMMA UsedAfterWrite ==
  ASSUME NEW r \in 0 .. Width - 1, NEW w \in 0 .. Width - 1, NEW k \in Nat,
         ((w - r) % Width) + k <= PIPESIZE
  PROVE  (((w + k) % Width) - r) % Width = ((w - r) % Width) + k
<1>1. Width \in Nat \ {0} /\ r \in Int /\ w \in Int /\ k \in Int /\ w + k \in Int
      /\ PIPESIZE < Width /\ PIPESIZE \in Nat /\ -r \in Int
  BY PipeAssumption
<1> DEFINE u == w - r
           v == w + k
<1>2. u \in Int /\ v \in Int /\ v + (-r) = u + k
  BY <1>1
<1> HIDE DEF u, v
<1>3. ((v % Width) + (-r)) % Width = (v + (-r)) % Width
  BY <1>1, <1>2, ModAdd
<1>4. ((u % Width) + k) % Width = (u + k) % Width
  BY <1>1, <1>2, ModAdd
<1>5. u % Width \in 0 .. Width - 1 /\ (u % Width) + k <= PIPESIZE
  BY <1>1, <1>2, DivMod DEF u
<1>6. (u % Width) + k \in 0 .. Width - 1
  BY <1>1, <1>5
<1>7. ((u % Width) + k) % Width = (u % Width) + k
  BY <1>1, <1>6, ModSmall
<1>8. v % Width \in Int /\ (v % Width) + (-r) = (v % Width) - r
  BY <1>1, <1>2, DivMod
<1> QED
  BY <1>2, <1>3, <1>4, <1>7, <1>8 DEF u, v

\* What write puts into the buffer, and what it leaves there.
LEMMA FillIs ==
  ASSUME TypeOK, NEW p \in Proc, NEW k \in Nat, Used + k <= PIPESIZE, Fill(p, k),
         nread' = nread
  PROVE  \E s \in [1 .. k -> Data] :
            /\ data' \in [0 .. PIPESIZE - 1 -> Data \cup {None}]
            /\ nwrite' \in 0 .. Width - 1
            /\ Used' = Used + k
            /\ \A m \in Nat : m < Used =>
                  data'[(nread + m) % PIPESIZE] = data[(nread + m) % PIPESIZE]
            /\ \A j \in 1 .. k : data'[(nread + Used + j - 1) % PIPESIZE] = s[j]
<1> DEFINE D == 0 .. PIPESIZE - 1
           js(i) == {j \in 1 .. k : (nwrite + j - 1) % PIPESIZE = i}
           at(m) == (nread + m) % PIPESIZE
<1>1. PICK s \in [1 .. k -> Data] :
         /\ data' = [i \in D |-> IF js(i) = {} THEN data[i] ELSE s[Max(js(i))]]
         /\ nwrite' = (nwrite + k) % Width
  BY DEF Fill
<1>2. /\ PIPESIZE \in Nat \ {0} /\ Width \in Nat \ {0}
      /\ nread \in 0 .. Width - 1 /\ nwrite \in 0 .. Width - 1
      /\ data \in [D -> Data \cup {None}]
  BY PipeAssumption DEF TypeOK
<1>3. Used \in Nat /\ Used \in 0 .. Width - 1 /\ nwrite = (nread + Used) % Width
  BY <1>2, UsedIs
<1>4. nread \in Int /\ nwrite \in Int /\ nread + Used \in Int
  BY <1>2, <1>3
<1>5. nwrite' \in 0 .. Width - 1
  BY <1>1, <1>2, <1>4, DivMod
<1>6. Used' = Used + k
  <2>1. (((nwrite + k) % Width) - nread) % Width = ((nwrite - nread) % Width) + k
    BY <1>2, UsedAfterWrite DEF Used
  <2> QED
    BY <1>1, <2>1 DEF Used
<1>7. \A m \in D : at(m) \in D /\ (at(m) - nread) % PIPESIZE = m
  BY <1>4, Places
<1>8. \A j \in 1 .. k : /\ Used + j - 1 \in D
                        /\ (nwrite + j - 1) % PIPESIZE = at(Used + j - 1)
  <2> TAKE j \in 1 .. k
  <2>1. j - 1 \in Int /\ Used + j - 1 \in D
    BY <1>2, <1>3
  <2>2. (((nread + Used) % Width) + (j - 1)) % PIPESIZE = (nread + Used + (j - 1)) % PIPESIZE
    BY <1>4, <2>1, Wrapped
  <2>3. /\ ((nread + Used) % Width) + (j - 1) = nwrite + j - 1
        /\ nread + Used + (j - 1) = nread + (Used + j - 1)
    BY <1>3, <1>4, <2>1
  <2> QED
    BY <2>1, <2>2, <2>3
<1> HIDE DEF at
<1>9. ASSUME NEW m \in Nat, m < Used
      PROVE  m \in D /\ js(at(m)) = {}
  <2>1. m \in D
    BY <1>2, <1>3, <1>9
  <2>2. \A j \in 1 .. k : Used + j - 1 \in D /\ Used + j - 1 # m
    BY <1>3, <1>8, <1>9
  <2>3. \A j \in 1 .. k : at(Used + j - 1) # at(m)
    BY <1>7, <2>1, <2>2
  <2> QED
    BY <1>8, <2>1, <2>3
<1>10. \A j \in 1 .. k : js(at(Used + j - 1)) = {j}
  <2> TAKE j \in 1 .. k
  <2>1. \A i \in 1 .. k : at(Used + i - 1) = at(Used + j - 1) => i = j
    BY <1>3, <1>7, <1>8
  <2> QED
    BY <1>8, <2>1
<1>11. \A j \in 1 .. k : Max({j}) = j
  BY DEF Max
<1>12. \A i \in D : js(i) # {} => Max(js(i)) \in 1 .. k
  <2> SUFFICES ASSUME NEW i \in D, js(i) # {}
               PROVE  Max(js(i)) \in 1 .. k
    OBVIOUS
  <2>1. PICK j \in 1 .. k : (nwrite + j - 1) % PIPESIZE = i
    OBVIOUS
  <2>2. js(i) = {j}
    BY <1>8, <1>10, <2>1
  <2> QED
    BY <1>11, <2>2
<1> HIDE DEF js
<1>13. data' \in [D -> Data \cup {None}]
  BY <1>1, <1>2, <1>12
<1>14. \A m \in Nat : m < Used => data'[at(m)] = data[at(m)]
  BY <1>1, <1>7, <1>9
<1>15. \A j \in 1 .. k : data'[at(Used + j - 1)] = s[j]
  BY <1>1, <1>7, <1>8, <1>10, <1>11
<1>16. \A j \in 1 .. k : at(Used + j - 1) = (nread + Used + j - 1) % PIPESIZE
  <2> TAKE j \in 1 .. k
  <2>1. nread + (Used + j - 1) = nread + Used + j - 1
    BY <1>3, <1>4
  <2> QED
    BY <2>1 DEF at
<1> QED
  BY <1>5, <1>6, <1>13, <1>14, <1>15, <1>16 DEF at

\* What read takes out of the buffer, and what it leaves there.
LEMMA ReadIs ==
  ASSUME TypeOK, NEW k \in Nat, k <= Used, Used <= PIPESIZE, data' = Emptied(k),
         nread' = (nread + k) % Width, nwrite' = nwrite
  PROVE  /\ data' \in [0 .. PIPESIZE - 1 -> Data \cup {None}]
         /\ nread' \in 0 .. Width - 1
         /\ Used' = Used - k
         /\ \A m \in Nat : k + m < Used =>
               data'[(nread' + m) % PIPESIZE] = data[(nread + k + m) % PIPESIZE]
<1>1. /\ PIPESIZE \in Nat \ {0} /\ Width \in Nat \ {0}
      /\ nread \in 0 .. Width - 1 /\ nwrite \in 0 .. Width - 1
      /\ data \in [0 .. PIPESIZE - 1 -> Data \cup {None}]
      /\ nread \in Int /\ nread + k \in Int
  BY PipeAssumption DEF TypeOK
<1>2. Used \in Nat
  BY <1>1, UsedIs
<1>3. data' \in [0 .. PIPESIZE - 1 -> Data \cup {None}]
  BY <1>1 DEF Emptied
<1>4. nread' \in 0 .. Width - 1
  BY <1>1, DivMod
<1>5. Used' = Used - k
  <2>1. (nwrite - ((nread + k) % Width)) % Width = ((nwrite - nread) % Width) - k
    BY <1>1, UsedAfterRead DEF Used
  <2> QED
    BY <2>1 DEF Used
<1>6. ASSUME NEW m \in Nat, k + m < Used
      PROVE  data'[(nread' + m) % PIPESIZE] = data[(nread + k + m) % PIPESIZE]
  <2> DEFINE i == (nread + (k + m)) % PIPESIZE
  <2>1. k + m \in 0 .. PIPESIZE - 1 /\ ~(k + m < k)
    BY <1>1, <1>2, <1>6
  <2>2. i \in 0 .. PIPESIZE - 1 /\ (i - nread) % PIPESIZE = k + m
    BY <1>1, <2>1, Places
  <2>3. (((nread + k) % Width) + m) % PIPESIZE = (nread + k + m) % PIPESIZE
    <3>1. m \in Int
      OBVIOUS
    <3> QED
      BY <1>1, <3>1, Wrapped
  <2>4. nread + k + m = nread + (k + m)
    BY <1>1
  <2> HIDE DEF i
  <2>5. data'[i] = data[i]
    BY <2>1, <2>2 DEF Emptied
  <2> QED
    BY <2>3, <2>4, <2>5 DEF i
<1> QED
  BY <1>3, <1>4, <1>5, <1>6

(***************************************************************************)
(* The inductive invariant.                                                *)
(***************************************************************************)
\* The calls that are about to give, and to take, a reference to f.
Making(f) == {p \in Proc : \E i \in DOMAIN call[p].new : call[p].new[i] = f}
Closing(f) == {p \in Proc : \E i \in DOMAIN call[p].todo : call[p].todo[i] = f}

IsEnd(f, w) == ftable[f].type = "PIPE" /\ ftable[f].writable = w

\* EndsCounted, part by part.
Counted == \A f \in Slot : ftable[f].ref =
               Cardinality(Descriptors(f)) + Cardinality(Making(f)) + Cardinality(Closing(f))
EndsOpen == \A w \in BOOLEAN :
               (IF w THEN writeopen ELSE readopen) <=>
               \/ \E f \in Slot : IsEnd(f, w)
               \/ \E p \in Proc : call[p].closing = EndOf(w)
PageKept == page <=> readopen \/ writeopen

NoRepeat(s) == \A i, j \in DOMAIN s : s[i] = s[j] => i = j

\* The files pipe() has got are its own, and their number follows from where it is.
NewFiles(p) ==
    /\ NoRepeat(call[p].new)
    /\ \A i \in DOMAIN call[p].new : ftable[call[p].new[i]].ref = 1
    /\ pc[p] = "filealloc" => Len(call[p].new) <= 1
    /\ pc[p] \in {"kalloc", "fdalloc"} => Len(call[p].new) = 2
    /\ pc[p] \notin {"filealloc", "kalloc", "fdalloc"} => call[p].new = <<>>

\* Files are closed, each once, at close, and an end of the pipe at pipeclose.
FilesToClose(p) ==
    /\ NoRepeat(call[p].todo)
    /\ pc[p] = "close" => call[p].todo # <<>>
    /\ pc[p] \notin {"close", "pipeclose"} => call[p].todo = <<>>
    /\ call[p].closing # "none" <=> pc[p] = "pipeclose"

UnusedIsEmpty(p) == pc[p] = "unused" => \A d \in Fd : ofile[p][d] = None

\* An end of the pipe is one file, or a file that is being closed.
OneEnd == \A w \in BOOLEAN :
    /\ \A f, g \in Slot : IsEnd(f, w) /\ IsEnd(g, w) => f = g
    /\ \A p, q \in Proc : call[p].closing = EndOf(w) /\ call[q].closing = EndOf(w) => p = q
    /\ \A p \in Proc, f \in Slot : ~(call[p].closing = EndOf(w) /\ IsEnd(f, w))

LockHeld == \A p \in Proc : plock = p <=> pc[p] \in {"readsleep", "writesleep"}

\* Who is in read or write has a descriptor for that end.
InPipe == \A p \in Proc : /\ pc[p] \in ReadLabels => p \in Holders(FALSE)
                          /\ pc[p] \in WriteLabels => p \in Holders(TRUE)

\* The pipe is not overfull, and what is in it has been written.
BytesKept == /\ Used <= PIPESIZE
             /\ \A m \in Nat : m < Used => data[(nread + m) % PIPESIZE] \in Data

Calls == \A p \in Proc : NewFiles(p) /\ FilesToClose(p) /\ UnusedIsEmpty(p)
Ends == EndsOpen /\ PageKept /\ OneEnd

IInv == /\ TypeOK
        /\ Counted
        /\ Calls
        /\ Ends
        /\ LockHeld
        /\ InPipe
        /\ BytesKept
        /\ SleeperHasReason

LEMMA EndsCountedIs ==
  ASSUME TypeOK, Counted, Ends
  PROVE  EndsCounted
<1>1. readopen \in BOOLEAN /\ writeopen \in BOOLEAN /\ page \in BOOLEAN
  BY DEF TypeOK
<1>2. page = (readopen \/ writeopen)
  BY <1>1 DEF Ends, PageKept
<1>3. ASSUME NEW w \in BOOLEAN
      PROVE  (IF w THEN writeopen ELSE readopen) =
             \/ \E f \in Slot : ftable[f].type = "PIPE" /\ ftable[f].writable = w
             \/ \E p \in Proc : call[p].closing = EndOf(w)
  <2>1. (IF w THEN writeopen ELSE readopen) <=>
             \/ \E f \in Slot : ftable[f].type = "PIPE" /\ ftable[f].writable = w
             \/ \E p \in Proc : call[p].closing = EndOf(w)
    BY DEF Ends, EndsOpen, IsEnd
  <2>2. (IF w THEN writeopen ELSE readopen) \in BOOLEAN
    BY <1>1
  <2> QED
    BY <2>1, <2>2
<1>4. \A f \in Slot : ftable[f].ref =
         Cardinality(Descriptors(f))
         + Cardinality({p \in Proc : \E i \in DOMAIN call[p].new : call[p].new[i] = f})
         + Cardinality({p \in Proc : \E i \in DOMAIN call[p].todo : call[p].todo[i] = f})
  BY DEF Counted, Making, Closing
<1> QED
  BY <1>2, <1>3, <1>4 DEF EndsCounted

(***************************************************************************)
(* Counting.                                                               *)
(***************************************************************************)
LEMMA Counts ==
  ASSUME NEW f
  PROVE  /\ IsFiniteSet(Descriptors(f)) /\ Cardinality(Descriptors(f)) \in Nat
         /\ IsFiniteSet(Making(f)) /\ Cardinality(Making(f)) \in Nat
         /\ IsFiniteSet(Closing(f)) /\ Cardinality(Closing(f)) \in Nat
<1>1. IsFiniteSet(Proc)
  BY FileAssumption
<1>2. IsFiniteSet(Fd)
  BY FS_Interval, FileAssumption DEF Fd
<1>3. IsFiniteSet(Proc \X Fd)
  BY <1>1, <1>2, FS_Product
<1>4. Descriptors(f) \in SUBSET (Proc \X Fd) /\ Making(f) \subseteq Proc /\
        Closing(f) \subseteq Proc
  BY DEF Descriptors, Making, Closing
<1>5. IsFiniteSet(Descriptors(f)) /\ IsFiniteSet(Making(f)) /\ IsFiniteSet(Closing(f))
  BY <1>1, <1>3, <1>4, FS_Subset
<1> QED
  BY <1>5, FS_CardinalityType

LEMMA CountPlus ==
  ASSUME NEW S, IsFiniteSet(S), NEW x, x \notin S
  PROVE  Cardinality(S \cup {x}) = Cardinality(S) + 1
BY FS_AddElement

LEMMA CountMinus ==
  ASSUME NEW S, IsFiniteSet(S), NEW x \in S
  PROVE  Cardinality(S \ {x}) = Cardinality(S) - 1 /\ Cardinality(S) >= 1
<1>1. Cardinality(S \ {x}) = Cardinality(S) - 1 /\ IsFiniteSet(S \ {x})
  BY FS_RemoveElement
<1>2. Cardinality(S \ {x}) \in Nat /\ Cardinality(S) \in Nat
  BY <1>1, FS_CardinalityType
<1> QED
  BY <1>1, <1>2

\* A file that is referred to from two sides has two references.
LEMMA Referred ==
  ASSUME TypeOK, Counted, NEW f \in Slot
  PROVE  /\ Descriptors(f) # {} \/ Making(f) # {} \/ Closing(f) # {} => ftable[f].ref >= 1
         /\ Descriptors(f) # {} /\ Making(f) # {} => ftable[f].ref >= 2
         /\ Descriptors(f) # {} /\ Closing(f) # {} => ftable[f].ref >= 2
         /\ Making(f) # {} /\ Closing(f) # {} => ftable[f].ref >= 2
<1>1. \A S : IsFiniteSet(S) /\ S # {} => Cardinality(S) >= 1
  BY CountMinus
<1>2. /\ Descriptors(f) # {} => Cardinality(Descriptors(f)) >= 1
      /\ Making(f) # {} => Cardinality(Making(f)) >= 1
      /\ Closing(f) # {} => Cardinality(Closing(f)) >= 1
  BY <1>1, Counts
<1>3. ftable[f].ref =
        Cardinality(Descriptors(f)) + Cardinality(Making(f)) + Cardinality(Closing(f))
  BY DEF Counted
<1>4. /\ Cardinality(Descriptors(f)) \in Nat /\ Cardinality(Making(f)) \in Nat
      /\ Cardinality(Closing(f)) \in Nat
  BY Counts
<1> DEFINE a == Cardinality(Descriptors(f))
           b == Cardinality(Making(f))
           c == Cardinality(Closing(f))
<1>5. a \in Nat /\ b \in Nat /\ c \in Nat /\ ftable[f].ref = a + b + c
  BY <1>3, <1>4
<1>6. /\ Descriptors(f) # {} => a >= 1
      /\ Making(f) # {} => b >= 1
      /\ Closing(f) # {} => c >= 1
  BY <1>2
<1> HIDE DEF a, b, c
<1> QED
  BY <1>5, <1>6

\* The parts of TypeOK that most steps need.
LEMMA Types ==
  ASSUME TypeOK
  PROVE  /\ ftable \in [Slot -> [ref : Nat, type : {"NONE", "PIPE", "INODE"},
                                 writable : BOOLEAN]]
         /\ ofile \in [Proc -> [Fd -> Slot \cup {None}]]
         /\ pc \in [Proc -> Labels]
         /\ call \in [Proc -> [count : 0 .. MaxCount, new : Seq(Slot), todo : Seq(Slot),
                               closing : {"none", "read", "write"}]]
BY DEF TypeOK, FileTypeOK

LEMMA WakingType ==
  ASSUME TypeOK, NEW p, NEW l \in Labels, NEW s, NEW t \in Labels
  PROVE  Waking(p, l, s, t) \in [Proc -> Labels]
BY Types DEF Waking

LEMMA LabelsIs ==
  {"read", "readsleep", "readasleep", "write", "writesleep", "writeasleep", "unused", "user",
   "filealloc", "kalloc", "fdalloc", "close", "pipeclose"} = Labels
BY DEF Labels, ReadLabels, WriteLabels

\* What a call keeps about its files, and its count.
CallType == [count : 0 .. MaxCount, new : Seq(Slot), todo : Seq(Slot),
             closing : {"none", "read", "write"}]

LEMMA CallTypeIs ==
  ASSUME NEW c \in CallType
  PROVE  /\ \A n \in 0 .. MaxCount : [c EXCEPT !.count = n] \in CallType
         /\ \A s \in Seq(Slot) : [c EXCEPT !.new = s] \in CallType
         /\ \A s \in Seq(Slot) : [c EXCEPT !.todo = s] \in CallType
         /\ \A e \in {"none", "read", "write"} : [c EXCEPT !.closing = e] \in CallType
         /\ c.count \in 0 .. MaxCount /\ c.new \in Seq(Slot) /\ c.todo \in Seq(Slot)
         /\ c.closing \in {"none", "read", "write"}
BY DEF CallType

\* The steps that change the call of one process only.
LEMMA CallStays ==
  ASSUME TypeOK, NEW p \in Proc, NEW c \in CallType, call' = [call EXCEPT ![p] = c]
  PROVE  call' \in [Proc -> CallType] /\ call'[p] = c /\ \A q \in Proc : q # p => call'[q] = call[q]
BY Types DEF CallType

\* Each step's effect on the call of its process, the other calls being left alone.
CallIs(p, c) == call' = [call EXCEPT ![p] = c]

LEMMA CallEffects ==
  ASSUME TypeOK, NEW p \in Proc
  PROVE  /\ PipeFile(p) => \E f \in Slot : CallIs(p, [call[p] EXCEPT !.new = Append(@, f)])
         /\ PipeBad(p) \/ PipeNoFds(p) =>
               CallIs(p, [call[p] EXCEPT !.todo = call[p].new, !.new = <<>>])
         /\ PipeFds(p) => CallIs(p, [call[p] EXCEPT !.new = <<>>])
         /\ \A d \in Fd : CloseFd(p, d) => CallIs(p, [call[p] EXCEPT !.todo = <<ofile[p][d]>>])
         /\ Pipeclose(p) => CallIs(p, [call[p] EXCEPT !.closing = "none"])
         /\ \A n : \A l : CallWith(p, n, l) => CallIs(p, [call[p] EXCEPT !.count = n])
         /\ PipereadCopy(p) \/ PipewriteDone(p) \/ PipewriteError(p) =>
               CallIs(p, [call[p] EXCEPT !.count = 0])
         /\ PipewriteWait(p) => CallIs(p, [call[p] EXCEPT !.count = @ - Room])
<1>1. call \in [Proc -> CallType]
  BY Types DEF CallType
<1>2. PipeFile(p) => \E f \in Slot : CallIs(p, [call[p] EXCEPT !.new = Append(@, f)])
  BY <1>1 DEF PipeFile, CallIs
<1>3. PipeBad(p) \/ PipeNoFds(p) =>
         CallIs(p, [call[p] EXCEPT !.todo = call[p].new, !.new = <<>>])
  BY <1>1 DEF PipeBad, PipeNoFds, CallIs
<1>4. PipeFds(p) => CallIs(p, [call[p] EXCEPT !.new = <<>>])
  BY <1>1 DEF PipeFds, CallIs
<1>5. \A d \in Fd : CloseFd(p, d) => CallIs(p, [call[p] EXCEPT !.todo = <<ofile[p][d]>>])
  BY <1>1 DEF CloseFd, CallIs
<1>6. Pipeclose(p) => CallIs(p, [call[p] EXCEPT !.closing = "none"])
  BY <1>1 DEF Pipeclose, CallIs
<1>7. \A n : \A l : CallWith(p, n, l) => CallIs(p, [call[p] EXCEPT !.count = n])
  BY <1>1 DEF CallWith, CallIs
<1>8. PipereadCopy(p) \/ PipewriteDone(p) \/ PipewriteError(p) =>
         CallIs(p, [call[p] EXCEPT !.count = 0])
  BY <1>1 DEF PipereadCopy, PipewriteDone, PipewriteError, CallIs
<1>9. PipewriteWait(p) => CallIs(p, [call[p] EXCEPT !.count = @ - Room])
  BY <1>1 DEF PipewriteWait, CallIs
<1> QED
  BY <1>2, <1>3, <1>4, <1>5, <1>6, <1>7, <1>8, <1>9

LEMMA CloseCall ==
  ASSUME TypeOK, Calls, NEW p \in Proc, Fileclose(p)
  PROVE  \E f \in Slot :
            /\ f = Head(call[p].todo) /\ p \in Closing(f) /\ Tail(call[p].todo) \in Seq(Slot)
            /\ call[p].todo \in Seq(Slot) /\ call[p].todo # <<>>
            /\ CallIs(p, [call[p] EXCEPT !.todo = Tail(@),
                             !.closing = IF ftable[f].ref = 1 /\ ftable[f].type = "PIPE"
                                         THEN EndOf(ftable[f].writable) ELSE @])
<1>1. call \in [Proc -> CallType] /\ pc[p] = "close"
  BY Types DEF CallType, Fileclose
<1>2. call[p].todo \in Seq(Slot) /\ call[p].todo # <<>>
  BY <1>1 DEF Calls, FilesToClose, CallType
<1>3. Head(call[p].todo) \in Slot /\ Tail(call[p].todo) \in Seq(Slot)
      /\ 1 \in DOMAIN call[p].todo /\ Head(call[p].todo) = call[p].todo[1]
  BY <1>2
<1>4. p \in Closing(Head(call[p].todo))
  BY <1>3 DEF Closing
<1> DEFINE f == Head(call[p].todo)
<1>5. call' = IF ftable[f].ref = 1 /\ ftable[f].type = "PIPE"
              THEN [call EXCEPT ![p].todo = Tail(@), ![p].closing = EndOf(ftable[f].writable)]
              ELSE [call EXCEPT ![p].todo = Tail(@)]
  BY <1>1 DEF Fileclose, CallType
<1>6. CallIs(p, [call[p] EXCEPT !.todo = Tail(@),
                 !.closing = IF ftable[f].ref = 1 /\ ftable[f].type = "PIPE"
                             THEN EndOf(ftable[f].writable) ELSE @])
  <2>1. call[p] = [call[p] EXCEPT !.closing = @]
    BY <1>1 DEF CallType
  <2>2. CASE ftable[f].ref = 1 /\ ftable[f].type = "PIPE"
    BY <1>1, <1>5, <2>2 DEF CallIs
  <2>3. CASE ~(ftable[f].ref = 1 /\ ftable[f].type = "PIPE")
    <3>1. [call[p] EXCEPT !.todo = Tail(@)] = [call[p] EXCEPT !.todo = Tail(@), !.closing = @]
      BY <1>1 DEF CallType
    <3> QED
      BY <1>1, <1>5, <2>3, <3>1 DEF CallIs
  <2> QED
    BY <2>2, <2>3
<1> QED
  BY <1>2, <1>3, <1>4, <1>6

LEMMA WithFdsType ==
  ASSUME TypeOK, NEW p \in Proc, NEW s \in Seq(Slot)
  PROVE  WithFds(p, s) \in [Fd -> Slot \cup {None}]
<1>1. \A d \in Fd : (\E i \in DOMAIN s : FdFor(p, i) = d) =>
         (CHOOSE i \in DOMAIN s : FdFor(p, i) = d) \in DOMAIN s
  OBVIOUS
<1>2. \A i \in DOMAIN s : s[i] \in Slot
  OBVIOUS
<1> QED
  BY <1>1, <1>2, Types DEF WithFds

LEMMA MinOfTwo ==
  ASSUME NEW a \in Int, NEW b \in Int
  PROVE  Min({a, b}) \in {a, b} /\ Min({a, b}) <= a /\ Min({a, b}) <= b
BY DEF Min

LEMMA RoomIs ==
  ASSUME TypeOK, BytesKept
  PROVE  Used \in Nat /\ Room \in Nat /\ Room <= PIPESIZE /\ Used + Room = PIPESIZE
<1>1. Used \in 0 .. Width - 1 /\ PIPESIZE \in Nat /\ Used <= PIPESIZE
  BY UsedIs, PipeAssumption DEF TypeOK, BytesKept
<1> QED
  BY <1>1 DEF Room

\* The buffer and the counters after each kind of step.
LEMMA FillTypes ==
  ASSUME TypeOK, BytesKept, NEW p \in Proc, PipewriteDone(p) \/ PipewriteError(p) \/
           PipewriteWait(p)
  PROVE  \E k \in 0 .. Room : /\ Fill(p, k) /\ nread' = nread
                              /\ data' \in [0 .. PIPESIZE - 1 -> Data \cup {None}]
                              /\ nwrite' \in 0 .. Width - 1
<1>1. call[p].count \in 0 .. MaxCount /\ Room \in Nat /\ Used \in Nat /\ Used + Room = PIPESIZE
      /\ MaxCount \in Nat
  BY Types, RoomIs, PipeAssumption
<1>2. \E k \in 0 .. Room : Fill(p, k) /\ nread' = nread
  BY <1>1 DEF PipewriteDone, PipewriteError, PipewriteWait
<1>3. PICK k \in 0 .. Room : Fill(p, k) /\ nread' = nread
  BY <1>2
<1>4. k \in Nat /\ Used + k <= PIPESIZE
  BY <1>1
<1> QED
  BY <1>3, <1>4, FillIs

LEMMA ReadTypes ==
  ASSUME TypeOK, BytesKept, NEW p \in Proc, PipereadCopy(p)
  PROVE  \E k \in Nat : /\ k <= Used /\ k = Min({call[p].count, Used}) /\ data' = Emptied(k)
                        /\ nread' = (nread + k) % Width /\ nwrite' = nwrite
                        /\ out' = [i \in 1 .. k |-> data[(nread + i - 1) % PIPESIZE]]
                        /\ data' \in [0 .. PIPESIZE - 1 -> Data \cup {None}]
                        /\ nread' \in 0 .. Width - 1
                        /\ out' \in Seq(Data) /\ Len(out') = k
<1> DEFINE k == Min({call[p].count, Used})
<1>1. /\ data' = Emptied(k) /\ nread' = (nread + k) % Width /\ nwrite' = nwrite
      /\ out' = [i \in 1 .. k |-> data[(nread + i - 1) % PIPESIZE]]
  BY DEF PipereadCopy
<1>2. call[p].count \in Nat /\ Used \in Nat /\ Used <= PIPESIZE
  BY Types, RoomIs, PipeAssumption DEF BytesKept
<1>3. k \in Nat /\ k <= Used
  <2>1. call[p].count \in Int /\ Used \in Int
    BY <1>2
  <2>2. k \in {call[p].count, Used} /\ k <= Used
    BY <2>1, MinOfTwo
  <2> HIDE DEF k
  <2> QED
    BY <1>2, <2>2
<1> HIDE DEF k
<1>4. /\ data' \in [0 .. PIPESIZE - 1 -> Data \cup {None}]
      /\ nread' \in 0 .. Width - 1
  BY <1>1, <1>2, <1>3, ReadIs
<1>5. \A i \in 1 .. k : data[(nread + i - 1) % PIPESIZE] \in Data
  <2> TAKE i \in 1 .. k
  <2>1. i - 1 \in Nat /\ i - 1 < Used
    BY <1>2, <1>3
  <2>2. nread + (i - 1) = nread + i - 1
    BY PipeAssumption DEF TypeOK
  <2>3. data[(nread + (i - 1)) % PIPESIZE] \in Data
    BY <2>1 DEF BytesKept
  <2> QED
    BY <2>2, <2>3
<1>6. out' \in Seq(Data) /\ Len(out') = k
  BY <1>1, <1>3, <1>5
<1> QED
  BY <1>1, <1>3, <1>4, <1>6 DEF k

FileRec == [ref : Nat, type : {"NONE", "PIPE", "INODE"}, writable : BOOLEAN]

LEMMA RefType ==
  ASSUME NEW r \in FileRec
  PROVE  /\ r.ref \in Nat /\ Closed \in FileRec
         /\ \A m \in Nat : [r EXCEPT !.ref = m] \in FileRec /\ [r EXCEPT !.ref = m].ref = m
                           /\ [r EXCEPT !.ref = m].type = r.type
                           /\ [r EXCEPT !.ref = m].writable = r.writable
BY DEF FileRec, Closed

\* What TypeOK says of all but the files, the calls and the labels.
BufferOK == /\ data \in [0 .. PIPESIZE - 1 -> Data \cup {None}]
            /\ nread \in 0 .. Width - 1 /\ nwrite \in 0 .. Width - 1
            /\ {readopen, writeopen, page, unsaid} \subseteq BOOLEAN
            /\ plock \in Proc \cup {None} /\ exiting \in SUBSET Proc /\ killed \in SUBSET Proc

LEMMA NextType ==
  ASSUME IInv, [Next]_vars
  PROVE  TypeOK'
<1>1. /\ TypeOK /\ Counted /\ Calls /\ BytesKept
  BY DEF IInv
<1>2. /\ ftable \in [Slot -> [ref : Nat, type : {"NONE", "PIPE", "INODE"}, writable : BOOLEAN]]
      /\ ofile \in [Proc -> [Fd -> Slot \cup {None}]]
      /\ pc \in [Proc -> Labels] /\ call \in [Proc -> CallType]
      /\ exiting \in SUBSET Proc /\ killed \in SUBSET Proc
  BY <1>1, Types DEF TypeOK, CallType, BufferOK
<1>3. 0 \in 0 .. Width - 1 /\ 0 \in 0 .. MaxCount /\ <<>> \in Seq(Data) /\ <<>> \in Seq(Slot)
      /\ Junk \in [0 .. PIPESIZE - 1 -> Data \cup {None}]
  BY PipeAssumption DEF Junk
<1>4. /\ nread \in 0 .. Width - 1 /\ nwrite \in 0 .. Width - 1
      /\ data \in [0 .. PIPESIZE - 1 -> Data \cup {None}]
      /\ {readopen, writeopen, page, unsaid} \subseteq BOOLEAN /\ plock \in Proc \cup {None}
  BY <1>1 DEF TypeOK
<1>5. \A p \in Proc : call[p] \in CallType
  BY <1>2
<1>6. \A p \in Proc : \A c \in CallType : CallIs(p, c) => call' \in [Proc -> CallType]
  BY <1>2 DEF CallIs
<1>7. \A p \in Proc : \A l \in Labels : Goto(p, l) => pc' \in [Proc -> Labels] /\ out' \in Seq(Data)
  BY <1>2, <1>3 DEF Goto, Quiet
<1>8. \A p \in Proc : \A l, t \in Labels : \A s : GotoWaking(p, l, s, t) =>
         pc' \in [Proc -> Labels] /\ out' \in Seq(Data)
  BY <1>2, <1>3 DEF GotoWaking, Quiet, Waking
<1>9. \A s : CloseOr(s) \in Labels
  BY LabelsIs DEF CloseOr
<1>10. \A w \in BOOLEAN : EndOf(w) \in {"none", "read", "write"}
  BY DEF EndOf
<1>11. ftable \in [Slot -> FileRec] /\ \A f \in Slot : ftable[f] \in FileRec
  BY <1>2 DEF FileRec

<1>12. ASSUME NEW p \in Proc, SysPipe(p)
      PROVE  TypeOK'
  <2>1. pc' \in [Proc -> Labels] /\ out' \in Seq(Data)
    BY <1>12, <1>7, <1>9, LabelsIs DEF SysPipe
  <2>2. call' \in [Proc -> CallType]
    BY <1>2, <1>12 DEF SysPipe
  <2>3. FileTypeOK'
    BY <1>1, <1>12 DEF SysPipe, filevars, TypeOK, FileTypeOK
  <2>4. BufferOK'
    BY <1>2, <1>4, <1>12 DEF BufferOK, SysPipe, pipe, flags
  <2> QED
    BY <2>1, <2>2, <2>3, <2>4 DEF TypeOK, CallType, BufferOK
<1>13. ASSUME NEW p \in Proc, PipeFile(p)
      PROVE  TypeOK'
  <2>1. \E f \in Slot : CallIs(p, [call[p] EXCEPT !.new = Append(@, f)])
                         /\ [call[p] EXCEPT !.new = Append(@, f)] \in CallType
    <3>1. PICK f \in Slot : CallIs(p, [call[p] EXCEPT !.new = Append(@, f)])
      BY <1>1, <1>13, CallEffects
    <3>2. Append(call[p].new, f) \in Seq(Slot)
      <4>1. call[p].new \in Seq(Slot)
        BY <1>5, CallTypeIs
      <4> QED
        BY <3>1, <4>1
    <3> QED
      BY <1>5, <3>1, <3>2, CallTypeIs
  <2>2. pc' \in [Proc -> Labels] /\ out' \in Seq(Data)
    BY <1>13, <1>7, <1>9, LabelsIs DEF PipeFile
  <2>3. call' \in [Proc -> CallType]
    BY <1>1, <1>5, <1>6, <2>1
  <2>4. FileTypeOK'
    BY <1>2, <1>13 DEF PipeFile, Filealloc, FileTypeOK
  <2>5. BufferOK'
    BY <1>2, <1>4, <1>13 DEF BufferOK, PipeFile, pipe, flags
  <2> QED
    BY <2>2, <2>3, <2>4, <2>5 DEF TypeOK, CallType, BufferOK
<1>14. ASSUME NEW p \in Proc, PipeBad(p)
      PROVE  TypeOK'
  <2>1. /\ CallIs(p, [call[p] EXCEPT !.todo = call[p].new, !.new = <<>>])
        /\ [call[p] EXCEPT !.todo = call[p].new, !.new = <<>>] \in CallType
    BY <1>1, <1>3, <1>5, <1>14, CallEffects, CallTypeIs
  <2>2. pc' \in [Proc -> Labels] /\ out' \in Seq(Data)
    BY <1>14, <1>7, <1>9, LabelsIs DEF PipeBad
  <2>3. call' \in [Proc -> CallType]
    BY <1>6, <2>1
  <2>4. FileTypeOK'
    BY <1>1, <1>14 DEF PipeBad, filevars, TypeOK, FileTypeOK
  <2>5. BufferOK'
    BY <1>2, <1>4, <1>14 DEF BufferOK, PipeBad, pipe, flags
  <2> QED
    BY <2>2, <2>3, <2>4, <2>5 DEF TypeOK, CallType, BufferOK
<1>15. ASSUME NEW p \in Proc, PipeNoFds(p)
      PROVE  TypeOK'
  <2>1. /\ CallIs(p, [call[p] EXCEPT !.todo = call[p].new, !.new = <<>>])
        /\ [call[p] EXCEPT !.todo = call[p].new, !.new = <<>>] \in CallType
    BY <1>1, <1>3, <1>5, <1>15, CallEffects, CallTypeIs
  <2>2. pc' \in [Proc -> Labels] /\ out' \in Seq(Data)
    BY <1>15, <1>7, <1>9, LabelsIs DEF PipeNoFds
  <2>3. call' \in [Proc -> CallType]
    BY <1>6, <2>1
  <2>4. FileTypeOK'
    BY <1>1, <1>15 DEF PipeNoFds, filevars, TypeOK, FileTypeOK
  <2>5. BufferOK'
    BY <1>2, <1>4, <1>15 DEF BufferOK, PipeNoFds, pipe, flags
  <2> QED
    BY <2>2, <2>3, <2>4, <2>5 DEF TypeOK, CallType, BufferOK
<1>16. ASSUME NEW p \in Proc, PipeMake(p)
      PROVE  TypeOK'
  <2>1. pc' \in [Proc -> Labels] /\ out' \in Seq(Data)
    BY <1>16, <1>7, <1>9, LabelsIs DEF PipeMake
  <2>2. call' \in [Proc -> CallType]
    BY <1>2, <1>16 DEF PipeMake, flags
  <2>3. FileTypeOK'
    BY <1>2, <1>16 DEF PipeMake, FileTypeOK
  <2>4. BufferOK'
    BY <1>2, <1>3, <1>4, <1>16 DEF BufferOK, PipeMake, flags
  <2> QED
    BY <2>1, <2>2, <2>3, <2>4 DEF TypeOK, CallType, BufferOK
<1>17. ASSUME NEW p \in Proc, PipeFds(p)
      PROVE  TypeOK'
  <2>1. /\ CallIs(p, [call[p] EXCEPT !.new = <<>>])
        /\ [call[p] EXCEPT !.new = <<>>] \in CallType
    BY <1>1, <1>3, <1>5, <1>17, CallEffects, CallTypeIs
  <2>2. WithFds(p, call[p].new) \in [Fd -> Slot \cup {None}]
    BY <1>1, <1>5, CallTypeIs, WithFdsType
  <2>3. pc' \in [Proc -> Labels] /\ out' \in Seq(Data)
    BY <1>17, <1>7, <1>9, LabelsIs DEF PipeFds
  <2>4. call' \in [Proc -> CallType]
    BY <1>6, <2>1
  <2>5. FileTypeOK'
    BY <1>2, <2>2, <1>17 DEF PipeFds, FileTypeOK
  <2>6. BufferOK'
    BY <1>2, <1>4, <1>17 DEF BufferOK, PipeFds, pipe, flags
  <2> QED
    BY <2>3, <2>4, <2>5, <2>6 DEF TypeOK, CallType, BufferOK
<1>18. ASSUME NEW p \in Proc, SysDup(p)
      PROVE  TypeOK'
  <2>1. PICK f \in Slot : DupFile(p, f)
    BY <1>2, <1>18 DEF SysDup
  <2>2. WithFds(p, <<f>>) \in [Fd -> Slot \cup {None}]
    <3>1. <<f>> \in Seq(Slot)
      OBVIOUS
    <3> QED
      BY <1>1, <1>18, <3>1, WithFdsType
  <2>3. ftable' = [ftable EXCEPT ![f] = [ftable[f] EXCEPT !.ref = ftable[f].ref + 1]]
        /\ ofile' = [ofile EXCEPT ![p] = WithFds(p, <<f>>)]
    BY <2>1 DEF DupFile
  <2>4. ftable' \in [Slot -> FileRec]
    <3>1. ftable[f].ref + 1 \in Nat
      BY <1>11, <2>1, RefType
    <3>2. [ftable[f] EXCEPT !.ref = ftable[f].ref + 1] \in FileRec
      BY <1>11, <2>1, <3>1, RefType
    <3> QED
      BY <1>11, <2>3, <3>2
  <2>5. pc' \in [Proc -> Labels] /\ out' \in Seq(Data)
    BY <1>2, <1>3, <1>18 DEF SysDup, Quiet
  <2>6. call' \in [Proc -> CallType]
    BY <1>2, <1>18 DEF SysDup
  <2>7. FileTypeOK'
    BY <1>2, <2>2, <2>3, <2>4 DEF FileTypeOK, DupFile, FileRec
  <2>8. BufferOK'
    BY <1>2, <1>4, <1>18 DEF BufferOK, SysDup, pipe, flags
  <2> QED
    BY <2>5, <2>6, <2>7, <2>8 DEF TypeOK, CallType, BufferOK
<1>19. ASSUME NEW p \in Proc, Fork(p)
      PROVE  TypeOK'
  <2>1. PICK c \in Proc : ForkFiles(p, c)
    BY <1>19 DEF Fork
  <2>2. \A f \in Slot : Cardinality({d \in Fd : ofile[p][d] = f}) \in Nat
    <3>1. IsFiniteSet(Fd)
      BY FS_Interval, FileAssumption DEF Fd
    <3> QED
      BY <3>1, FS_Subset, FS_CardinalityType
  <2>3. ftable' \in [Slot -> [ref : Nat, type : {"NONE", "PIPE", "INODE"}, writable : BOOLEAN]]
    <3> DEFINE n(f) == Cardinality({d \in Fd : ofile[p][d] = f})
    <3>1. ftable' = [f \in Slot |-> [ftable[f] EXCEPT !.ref = @ + n(f)]]
      BY <2>1 DEF ForkFiles
    <3>2. \A f \in Slot : n(f) \in Nat
      BY <2>2
    <3> HIDE DEF n
    <3>3. \A f \in Slot : ftable[f].ref + n(f) \in Nat
      BY <1>11, <3>2, RefType
    <3>4. \A f \in Slot : [ftable[f] EXCEPT !.ref = @ + n(f)] \in FileRec
      BY <1>11, <3>3, RefType
    <3> QED
      BY <3>1, <3>4 DEF FileRec
  <2>4. pc' \in [Proc -> Labels] /\ out' \in Seq(Data)
    BY <1>7, <1>19, LabelsIs DEF Fork
  <2>5. call' \in [Proc -> CallType]
    BY <1>2, <1>19 DEF Fork
  <2>6. FileTypeOK'
    BY <1>2, <2>1, <2>3 DEF FileTypeOK, ForkFiles
  <2>7. BufferOK'
    BY <1>2, <1>4, <1>19 DEF BufferOK, Fork, pipe, flags
  <2> QED
    BY <2>4, <2>5, <2>6, <2>7 DEF TypeOK, CallType, BufferOK
<1>20. ASSUME NEW p \in Proc, NEW d \in Fd, CloseFd(p, d),
              UNCHANGED killed /\ UNCHANGED unsaid, exiting' \in SUBSET Proc
      PROVE  TypeOK'
  <2>1. /\ CallIs(p, [call[p] EXCEPT !.todo = <<ofile[p][d]>>])
        /\ [call[p] EXCEPT !.todo = <<ofile[p][d]>>] \in CallType
    <3>1. <<ofile[p][d]>> \in Seq(Slot)
      BY <1>2, <1>20 DEF CloseFd
    <3> QED
      BY <1>1, <1>5, <3>1, <1>20, CallEffects, CallTypeIs
  <2>2. pc' \in [Proc -> Labels] /\ out' \in Seq(Data)
    BY <1>20, <1>7, LabelsIs DEF CloseFd
  <2>3. call' \in [Proc -> CallType]
    BY <1>6, <2>1
  <2>4. FileTypeOK'
    BY <1>2, <1>20 DEF CloseFd, FileTypeOK
  <2>5. BufferOK'
    BY <1>2, <1>4, <1>20 DEF BufferOK, CloseFd, pipe
  <2> QED
    BY <2>2, <2>3, <2>4, <2>5 DEF TypeOK, CallType, BufferOK
<1>21. ASSUME NEW p \in Proc, Fileclose(p)
      PROVE  TypeOK'
  <2>1. PICK f \in Slot :
           /\ f = Head(call[p].todo) /\ p \in Closing(f) /\ Tail(call[p].todo) \in Seq(Slot)
           /\ CallIs(p, [call[p] EXCEPT !.todo = Tail(@),
                            !.closing = IF ftable[f].ref = 1 /\ ftable[f].type = "PIPE"
                                        THEN EndOf(ftable[f].writable) ELSE @])
    BY <1>1, <1>21, CloseCall
  <2>2. [call[p] EXCEPT !.todo = Tail(@),
                        !.closing = IF ftable[f].ref = 1 /\ ftable[f].type = "PIPE"
                                    THEN EndOf(ftable[f].writable) ELSE @] \in CallType
    <3>1. EndOf(ftable[f].writable) \in {"none", "read", "write"}
      BY <1>2, <1>10
    <3> QED
      BY <1>5, <2>1, <3>1 DEF CallType
  <2>3. ftable[f].ref >= 1 /\ ftable[f].ref \in Nat
    BY <1>1, <1>2, <2>1, Referred
  <2>4. DropFile(f) /\ UNCHANGED ofile
    BY <2>1, <1>21 DEF Fileclose
  <2>5. ftable' \in [Slot -> FileRec]
    <3> DEFINE r == IF ftable[f].ref = 1 THEN Closed ELSE [ftable[f] EXCEPT !.ref = ftable[f].ref - 1]
    <3>1. ftable' = [ftable EXCEPT ![f] = r]
      BY <2>4 DEF DropFile
    <3>2. ftable[f].ref - 1 \in Nat
      BY <2>3
    <3>3. r \in FileRec
      BY <1>11, <2>1, <3>2, RefType
    <3> HIDE DEF r
    <3> QED
      BY <1>11, <3>1, <3>3
  <2>6. pc' \in [Proc -> Labels] /\ out' \in Seq(Data)
    BY <1>21, <1>7, <1>9, LabelsIs DEF Fileclose
  <2>7. call' \in [Proc -> CallType]
    BY <1>6, <2>1, <2>2
  <2>8. FileTypeOK'
    BY <1>2, <2>4, <2>5 DEF FileTypeOK, FileRec
  <2>9. BufferOK'
    BY <1>2, <1>4, <1>21 DEF BufferOK, Fileclose, pipe, flags
  <2> QED
    BY <2>6, <2>7, <2>8, <2>9 DEF TypeOK, CallType, BufferOK
<1>22. ASSUME NEW p \in Proc, Pipeclose(p)
      PROVE  TypeOK'
  <2>1. /\ CallIs(p, [call[p] EXCEPT !.closing = "none"])
        /\ [call[p] EXCEPT !.closing = "none"] \in CallType
    BY <1>1, <1>5, <1>22, CallEffects, CallTypeIs
  <2>2. pc' \in [Proc -> Labels] /\ out' \in Seq(Data)
    BY <1>22, <1>8, <1>9, LabelsIs DEF Pipeclose
  <2>3. call' \in [Proc -> CallType]
    BY <1>6, <2>1
  <2>4. FileTypeOK'
    BY <1>1, <1>22 DEF Pipeclose, filevars, TypeOK, FileTypeOK
  <2>5. BufferOK'
    BY <1>2, <1>3, <1>4, <1>22 DEF BufferOK, Pipeclose, flags
  <2> QED
    BY <2>2, <2>3, <2>4, <2>5 DEF TypeOK, CallType, BufferOK
<1>23. ASSUME NEW p \in Proc, ExitDone(p)
      PROVE  TypeOK'
  <2>1. pc' \in [Proc -> Labels] /\ out' \in Seq(Data)
    BY <1>23, <1>7, <1>9, LabelsIs DEF ExitDone
  <2>2. call' \in [Proc -> CallType]
    BY <1>2, <1>23 DEF ExitDone
  <2>3. FileTypeOK'
    BY <1>1, <1>23 DEF ExitDone, filevars, TypeOK, FileTypeOK
  <2>4. BufferOK'
    BY <1>2, <1>4, <1>23 DEF BufferOK, ExitDone, pipe, flags
  <2> QED
    BY <2>1, <2>2, <2>3, <2>4 DEF TypeOK, CallType, BufferOK
<1>24. ASSUME NEW p \in Proc, Kill(p)
      PROVE  TypeOK'
  <2>1. pc' \in [Proc -> Labels] /\ out' \in Seq(Data)
    BY <1>2, <1>3, <1>24, LabelsIs DEF Kill, Quiet
  <2>2. call' \in [Proc -> CallType]
    BY <1>2, <1>24 DEF Kill
  <2>3. FileTypeOK'
    BY <1>1, <1>24 DEF Kill, filevars, TypeOK, FileTypeOK
  <2>4. BufferOK'
    BY <1>2, <1>4, <1>24 DEF BufferOK, Kill, pipe, flags
  <2> QED
    BY <2>1, <2>2, <2>3, <2>4 DEF TypeOK, CallType, BufferOK
<1>25. ASSUME NEW p \in Proc, NEW m \in 0 .. MaxCount, NEW l \in Labels, CallWith(p, m, l)
      PROVE  TypeOK'
  <2>1. /\ CallIs(p, [call[p] EXCEPT !.count = m])
        /\ [call[p] EXCEPT !.count = m] \in CallType
    BY <1>1, <1>5, <1>25, CallEffects, CallTypeIs
  <2>2. pc' \in [Proc -> Labels] /\ out' \in Seq(Data)
    BY <1>25, <1>7 DEF CallWith
  <2>3. call' \in [Proc -> CallType]
    BY <1>6, <2>1
  <2>4. FileTypeOK'
    BY <1>1, <1>25 DEF CallWith, filevars, TypeOK, FileTypeOK
  <2>5. BufferOK'
    BY <1>2, <1>4, <1>25 DEF BufferOK, CallWith, pipe, flags
  <2> QED
    BY <2>2, <2>3, <2>4, <2>5 DEF TypeOK, CallType, BufferOK
<1>26. ASSUME NEW p \in Proc, PipereadWait(p)
      PROVE  TypeOK'
  <2>1. pc' \in [Proc -> Labels] /\ out' \in Seq(Data)
    BY <1>26, <1>7, <1>9, LabelsIs DEF PipereadWait
  <2>2. call' \in [Proc -> CallType]
    BY <1>2, <1>26 DEF PipereadWait
  <2>3. FileTypeOK'
    BY <1>1, <1>26 DEF PipereadWait, filevars, TypeOK, FileTypeOK
  <2>4. BufferOK'
    BY <1>2, <1>4, <1>26 DEF BufferOK, PipereadWait, pipe, flags
  <2> QED
    BY <2>1, <2>2, <2>3, <2>4 DEF TypeOK, CallType, BufferOK
<1>27. ASSUME NEW p \in Proc, PipereadSleep(p)
      PROVE  TypeOK'
  <2>1. pc' \in [Proc -> Labels] /\ out' \in Seq(Data)
    BY <1>27, <1>7, <1>9, LabelsIs DEF PipereadSleep
  <2>2. call' \in [Proc -> CallType]
    BY <1>2, <1>27 DEF PipereadSleep
  <2>3. FileTypeOK'
    BY <1>1, <1>27 DEF PipereadSleep, filevars, TypeOK, FileTypeOK
  <2>4. BufferOK'
    BY <1>2, <1>4, <1>27 DEF BufferOK, PipereadSleep, pipe, flags
  <2> QED
    BY <2>1, <2>2, <2>3, <2>4 DEF TypeOK, CallType, BufferOK
<1>28. ASSUME NEW p \in Proc, PipewriteSleep(p)
      PROVE  TypeOK'
  <2>1. pc' \in [Proc -> Labels] /\ out' \in Seq(Data)
    BY <1>28, <1>7, <1>9, LabelsIs DEF PipewriteSleep
  <2>2. call' \in [Proc -> CallType]
    BY <1>2, <1>28 DEF PipewriteSleep
  <2>3. FileTypeOK'
    BY <1>1, <1>28 DEF PipewriteSleep, filevars, TypeOK, FileTypeOK
  <2>4. BufferOK'
    BY <1>2, <1>4, <1>28 DEF BufferOK, PipewriteSleep, pipe, flags
  <2> QED
    BY <2>1, <2>2, <2>3, <2>4 DEF TypeOK, CallType, BufferOK
<1>29. ASSUME NEW p \in Proc, PipereadCopy(p)
      PROVE  TypeOK'
  <2>1. /\ CallIs(p, [call[p] EXCEPT !.count = 0])
        /\ [call[p] EXCEPT !.count = 0] \in CallType
    BY <1>1, <1>3, <1>5, <1>29, CallEffects, CallTypeIs
  <2>2. /\ data' \in [0 .. PIPESIZE - 1 -> Data \cup {None}]
        /\ nread' \in 0 .. Width - 1 /\ out' \in Seq(Data)
    BY <1>1, <1>29, ReadTypes
  <2>3. pc' \in [Proc -> Labels] /\ out' \in Seq(Data)
    BY <1>1, <2>2, <1>29, WakingType, LabelsIs DEF PipereadCopy
  <2>4. call' \in [Proc -> CallType]
    BY <1>6, <2>1
  <2>5. FileTypeOK'
    BY <1>1, <1>29 DEF PipereadCopy, filevars, TypeOK, FileTypeOK
  <2>6. BufferOK'
    BY <1>2, <1>4, <2>2, <1>29 DEF BufferOK, PipereadCopy, flags
  <2> QED
    BY <2>3, <2>4, <2>5, <2>6 DEF TypeOK, CallType, BufferOK
<1>30. ASSUME NEW p \in Proc, PipewriteDone(p)
      PROVE  TypeOK'
  <2>1. /\ CallIs(p, [call[p] EXCEPT !.count = 0])
        /\ [call[p] EXCEPT !.count = 0] \in CallType
    BY <1>1, <1>3, <1>5, <1>30, CallEffects, CallTypeIs
  <2>2. /\ data' \in [0 .. PIPESIZE - 1 -> Data \cup {None}]
        /\ nwrite' \in 0 .. Width - 1
    BY <1>1, <1>30, FillTypes
  <2>3. pc' \in [Proc -> Labels] /\ out' \in Seq(Data)
    BY <1>30, <1>7, <1>8, LabelsIs DEF PipewriteDone
  <2>4. call' \in [Proc -> CallType]
    BY <1>6, <2>1
  <2>5. FileTypeOK'
    BY <1>1, <1>30 DEF PipewriteDone, filevars, TypeOK, FileTypeOK
  <2>6. BufferOK'
    BY <1>2, <1>4, <2>2, <1>30 DEF BufferOK, PipewriteDone
  <2> QED
    BY <2>3, <2>4, <2>5, <2>6 DEF TypeOK, CallType, BufferOK
<1>31. ASSUME NEW p \in Proc, PipewriteError(p)
      PROVE  TypeOK'
  <2>1. /\ CallIs(p, [call[p] EXCEPT !.count = 0])
        /\ [call[p] EXCEPT !.count = 0] \in CallType
    BY <1>1, <1>3, <1>5, <1>31, CallEffects, CallTypeIs
  <2>2. /\ data' \in [0 .. PIPESIZE - 1 -> Data \cup {None}]
        /\ nwrite' \in 0 .. Width - 1
    BY <1>1, <1>31, FillTypes
  <2>3. pc' \in [Proc -> Labels] /\ out' \in Seq(Data)
    BY <1>31, <1>7, <1>8, LabelsIs DEF PipewriteError
  <2>4. call' \in [Proc -> CallType]
    BY <1>6, <2>1
  <2>5. FileTypeOK'
    BY <1>1, <1>31 DEF PipewriteError, filevars, TypeOK, FileTypeOK
  <2>6. BufferOK'
    BY <1>2, <1>4, <2>2, <1>31 DEF BufferOK, PipewriteError
  <2> QED
    BY <2>3, <2>4, <2>5, <2>6 DEF TypeOK, CallType, BufferOK
<1>32. ASSUME NEW p \in Proc, PipewriteWait(p)
      PROVE  TypeOK'
  <2>1. /\ CallIs(p, [call[p] EXCEPT !.count = @ - Room])
        /\ [call[p] EXCEPT !.count = @ - Room] \in CallType
    <3>1. call[p].count \in 0 .. MaxCount /\ Room \in Nat /\ call[p].count > Room
      BY <1>1, <1>5, <1>32, CallTypeIs, RoomIs DEF PipewriteWait
    <3>2. call[p].count - Room \in 0 .. MaxCount
      BY <3>1, PipeAssumption
    <3>3. \A m \in 0 .. MaxCount : [call[p] EXCEPT !.count = m] \in CallType
      BY <1>5, CallTypeIs
    <3>4. CallIs(p, [call[p] EXCEPT !.count = @ - Room])
      BY <1>1, <1>32, CallEffects
    <3> QED
      BY <3>2, <3>3, <3>4
  <2>2. /\ data' \in [0 .. PIPESIZE - 1 -> Data \cup {None}]
        /\ nwrite' \in 0 .. Width - 1
    BY <1>1, <1>32, FillTypes
  <2>3. pc' \in [Proc -> Labels] /\ out' \in Seq(Data)
    BY <1>32, <1>7, <1>8, LabelsIs DEF PipewriteWait
  <2>4. call' \in [Proc -> CallType]
    BY <1>6, <2>1
  <2>5. FileTypeOK'
    BY <1>1, <1>32 DEF PipewriteWait, filevars, TypeOK, FileTypeOK
  <2>6. BufferOK'
    BY <1>2, <1>4, <2>2, <1>32 DEF BufferOK, PipewriteWait
  <2> QED
    BY <2>3, <2>4, <2>5, <2>6 DEF TypeOK, CallType, BufferOK
<1>33. CASE UNCHANGED vars
  BY <1>1, <1>33 DEF vars, filevars, pipe, flags, TypeOK, FileTypeOK
<1>34. ASSUME NEW p \in Proc, SysRead(p) \/ SysWrite(p) \/ PipereadKilled(p)
      PROVE  TypeOK'
  <2>1. \E m \in 0 .. MaxCount : \E l \in Labels : CallWith(p, m, l)
    <3>1. 0 \in 0 .. MaxCount
      BY PipeAssumption
    <3>2. {"read", "write", "user"} \subseteq Labels
      BY LabelsIs
    <3> QED
      BY <1>3, <1>34, <3>1, <3>2 DEF SysRead, SysWrite, PipereadKilled
  <2> QED
    BY <1>25, <2>1
<1>35. ASSUME NEW p \in Proc, SysClose(p) \/ ExitClose(p)
      PROVE  TypeOK'
  <2>1. \E d \in Fd : CloseFd(p, d) /\ UNCHANGED killed /\ UNCHANGED unsaid /\
          exiting' \in SUBSET Proc
    BY <1>2, <1>35 DEF SysClose, ExitClose, flags
  <2> QED
    BY <1>20, <2>1
<1> QED
  BY <1>12, <1>13, <1>14, <1>15, <1>16, <1>17, <1>18, <1>19, <1>20, <1>21, <1>22, <1>23,
       <1>24, <1>25, <1>26, <1>27, <1>28, <1>29, <1>30, <1>31, <1>32, <1>33, <1>34, <1>35
     DEF Next, KernelStep, UserStep, Exit

(***************************************************************************)
(* What the steps do to the files.                                         *)
(***************************************************************************)
\* The steps of read and write, and kill: they change no file and no descriptor.
RWStep(p) == \/ SysRead(p) \/ SysWrite(p) \/ Kill(p)
             \/ PipereadWait(p) \/ PipereadKilled(p) \/ PipereadSleep(p) \/ PipereadCopy(p)
             \/ PipewriteDone(p) \/ PipewriteError(p) \/ PipewriteWait(p) \/ PipewriteSleep(p)

RWLabels == ReadLabels \cup WriteLabels \cup {"user"}

LEMMA PcMoves ==
  ASSUME TypeOK, NEW p \in Proc, NEW l
  PROVE  /\ Goto(p, l) => pc'[p] = l /\ \A q \in Proc : q # p => pc'[q] = pc[q]
         /\ \A s : \A t : GotoWaking(p, l, s, t) \/ pc' = Waking(p, l, s, t) =>
               /\ pc'[p] = l
               /\ \A q \in Proc : q # p => pc'[q] = IF pc[q] = s THEN t ELSE pc[q]
BY Types DEF Goto, GotoWaking, Waking

LEMMA RWSteps ==
  ASSUME TypeOK, NEW p \in Proc, RWStep(p)
  PROVE  /\ UNCHANGED <<ftable, ofile, readopen, writeopen, page, exiting>>
         /\ \A q \in Proc : /\ call'[q].new = call[q].new /\ call'[q].todo = call[q].todo
                            /\ call'[q].closing = call[q].closing
                            /\ pc'[q] = pc[q] \/ {pc[q], pc'[q]} \subseteq RWLabels
<1>1. UNCHANGED <<ftable, ofile, readopen, writeopen, page, exiting>>
  BY DEF RWStep, SysRead, SysWrite, CallWith, Kill, PipereadWait, PipereadKilled, PipereadSleep,
         PipereadCopy, PipewriteDone, PipewriteError, PipewriteWait, PipewriteSleep, filevars, pipe,
         flags
<1>2. call' = call \/ \E n : CallIs(p, [call[p] EXCEPT !.count = n])
  <2>1. SysRead(p) \/ SysWrite(p) \/ PipereadKilled(p) => \E n : \E l : CallWith(p, n, l)
    BY DEF SysRead, SysWrite, PipereadKilled
  <2>2. Kill(p) \/ PipereadWait(p) \/ PipereadSleep(p) \/ PipewriteSleep(p) => call' = call
    BY DEF Kill, PipereadWait, PipereadSleep, PipewriteSleep
  <2>3. \A n : \A l : CallWith(p, n, l) => CallIs(p, [call[p] EXCEPT !.count = n])
    BY CallEffects
  <2>4. PipereadCopy(p) \/ PipewriteDone(p) \/ PipewriteError(p) =>
           CallIs(p, [call[p] EXCEPT !.count = 0])
    BY CallEffects
  <2>5. PipewriteWait(p) => CallIs(p, [call[p] EXCEPT !.count = call[p].count - Room])
    BY CallEffects
  <2> QED
    BY <2>1, <2>2, <2>3, <2>4, <2>5 DEF RWStep
<1>3. \A q \in Proc : /\ call'[q].new = call[q].new /\ call'[q].todo = call[q].todo
                      /\ call'[q].closing = call[q].closing
  <2>1. call \in [Proc -> CallType]
    BY Types DEF CallType
  <2>2. \A n : CallIs(p, [call[p] EXCEPT !.count = n]) =>
          \A q \in Proc : call'[q] = IF q = p THEN [call[p] EXCEPT !.count = n] ELSE call[q]
    BY <2>1 DEF CallIs
  <2>3. \A n : /\ [call[p] EXCEPT !.count = n].new = call[p].new
              /\ [call[p] EXCEPT !.count = n].todo = call[p].todo
              /\ [call[p] EXCEPT !.count = n].closing = call[p].closing
    BY <2>1 DEF CallType
  <2>4. ASSUME NEW n, CallIs(p, [call[p] EXCEPT !.count = n]), NEW q \in Proc
        PROVE  /\ call'[q].new = call[q].new /\ call'[q].todo = call[q].todo
               /\ call'[q].closing = call[q].closing
    <3>1. call'[q] = IF q = p THEN [call[p] EXCEPT !.count = n] ELSE call[q]
      BY <2>2, <2>4
    <3> QED
      BY <2>3, <3>1
  <2> QED
    BY <1>2, <2>4
<1>4. {"read", "readsleep", "readasleep", "write", "writesleep", "writeasleep", "user"} = RWLabels
  BY DEF RWLabels, ReadLabels, WriteLabels
<1>5. \A l, t \in RWLabels : \A s \in RWLabels :
         pc[p] \in RWLabels /\ (Goto(p, l) \/ GotoWaking(p, l, s, t) \/ pc' = Waking(p, l, s, t)) =>
            \A q \in Proc : pc'[q] = pc[q] \/ {pc[q], pc'[q]} \subseteq RWLabels
  BY PcMoves
<1>6. Kill(p) => \A q \in Proc : pc'[q] = pc[q] \/ {pc[q], pc'[q]} \subseteq RWLabels
  BY <1>4, Types DEF Kill
<1>7. SysRead(p) \/ SysWrite(p) \/ PipereadKilled(p) \/ PipereadWait(p) \/ PipereadSleep(p)
         \/ PipewriteSleep(p) =>
         pc[p] \in RWLabels /\ \E l \in RWLabels : Goto(p, l)
  BY <1>4
     DEF SysRead, SysWrite, PipereadKilled, CallWith, InUser, PipereadWait,
         PipereadSleep,
              PipewriteSleep
<1>8. PipereadCopy(p) \/ PipewriteDone(p) \/ PipewriteError(p) \/ PipewriteWait(p) =>
         /\ pc[p] \in RWLabels
         /\ \E l, t \in RWLabels : \E s \in RWLabels :
               Goto(p, l) \/ GotoWaking(p, l, s, t) \/ pc' = Waking(p, l, s, t)
  BY <1>4 DEF PipereadCopy, PipewriteDone, PipewriteError, PipewriteWait
<1>9. \A q \in Proc : pc'[q] = pc[q] \/ {pc[q], pc'[q]} \subseteq RWLabels
  BY <1>5, <1>6, <1>7, <1>8 DEF RWStep
<1> QED
  BY <1>1, <1>3, <1>9

\* The steps, by what they do to files and calls.
LEMMA Steps ==
  ASSUME [Next]_vars
  PROVE  \/ UNCHANGED vars
         \/ \E p \in Proc :
              \/ PipeFile(p) \/ PipeBad(p) \/ PipeNoFds(p) \/ PipeMake(p) \/ PipeFds(p)
              \/ SysDup(p) \/ Fork(p) \/ Fileclose(p) \/ Pipeclose(p) \/ RWStep(p)
              \/ SysPipe(p) \/ ExitDone(p)
              \/ \E d \in Fd : CloseFd(p, d) /\ pc[p] = "user" /\ UNCHANGED <<killed, unsaid>>
<1>1. \A p \in Proc : SysClose(p) \/ ExitClose(p) =>
         \E d \in Fd : CloseFd(p, d) /\ pc[p] = "user" /\ UNCHANGED <<killed, unsaid>>
  BY DEF SysClose, ExitClose, InUser, flags
<1> QED
  BY <1>1 DEF Next, KernelStep, UserStep, Exit, RWStep

\* A file that pipe() has got keeps its one reference, and a file with a
\* descriptor stays the end that it is.
LEMMA FilesKept ==
  ASSUME IInv, [Next]_vars, NEW f \in Slot
  PROVE  /\ Making(f) # {} => ftable[f].ref = 1 /\ ftable'[f].ref = 1
         /\ Descriptors(f) # {} => /\ ftable'[f].type = ftable[f].type
                                   /\ ftable'[f].writable = ftable[f].writable
<1>1. /\ TypeOK /\ Counted /\ Calls
  BY DEF IInv
<1>2. ftable \in [Slot -> FileRec] /\ \A g \in Slot : ftable[g] \in FileRec
  BY <1>1, Types DEF FileRec
<1>3. Making(f) # {} => ftable[f].ref = 1
  BY <1>1 DEF Making, Calls, NewFiles
<1>4. /\ Descriptors(f) # {} \/ Making(f) # {} \/ Closing(f) # {} => ftable[f].ref >= 1
      /\ Descriptors(f) # {} /\ Making(f) # {} => ftable[f].ref >= 2
      /\ Descriptors(f) # {} /\ Closing(f) # {} => ftable[f].ref >= 2
      /\ Making(f) # {} /\ Closing(f) # {} => ftable[f].ref >= 2
      /\ ftable[f].ref \in Nat
  BY <1>1, <1>2, Referred, RefType
<1>5. CASE ftable' = ftable
  BY <1>3, <1>5
<1>6. ASSUME NEW p \in Proc, PipeFile(p)
      PROVE  /\ Making(f) # {} => ftable'[f].ref = 1
             /\ Descriptors(f) # {} => /\ ftable'[f].type = ftable[f].type
                                       /\ ftable'[f].writable = ftable[f].writable
  <2>1. PICK g \in Slot : ftable' = [ftable EXCEPT ![g].ref = 1]
    BY <1>6 DEF PipeFile, Filealloc
  <2>2. ftable'[f] = IF f = g THEN [ftable[f] EXCEPT !.ref = 1] ELSE ftable[f]
    BY <1>2, <2>1
  <2> QED
    BY <1>2, <1>3, <2>2, RefType
<1>7. ASSUME NEW p \in Proc, PipeMake(p)
      PROVE  /\ Making(f) # {} => ftable'[f].ref = 1
             /\ Descriptors(f) # {} => /\ ftable'[f].type = ftable[f].type
                                       /\ ftable'[f].writable = ftable[f].writable
  <2>1. call[p].new \in Seq(Slot) /\ Len(call[p].new) = 2
    BY <1>1, <1>7, Types DEF PipeMake, Calls, NewFiles
  <2>2. PICK g \in Slot, h \in Slot : g = call[p].new[1] /\ h = call[p].new[2]
    BY <2>1
  <2>3. p \in Making(g) /\ p \in Making(h)
    BY <2>1, <2>2 DEF Making
  <2>4. ftable' = [ftable EXCEPT ![g] = [@ EXCEPT !.type = "PIPE", !.writable = FALSE],
                                 ![h] = [@ EXCEPT !.type = "PIPE", !.writable = TRUE]]
    BY <1>7, <2>2 DEF PipeMake
  <2>5. f # g /\ f # h => ftable'[f] = ftable[f]
    BY <1>2, <2>4
  <2>6. ftable'[f].ref = ftable[f].ref
    BY <1>2, <2>4 DEF FileRec
  <2>7. Descriptors(f) # {} => f # g /\ f # h
    BY <1>3, <1>4, <2>3
  <2> QED
    BY <1>3, <2>5, <2>6, <2>7
<1>8. ASSUME NEW p \in Proc, SysDup(p)
      PROVE  /\ Making(f) # {} => ftable'[f].ref = 1
             /\ Descriptors(f) # {} => /\ ftable'[f].type = ftable[f].type
                                       /\ ftable'[f].writable = ftable[f].writable
  <2>1. PICK d \in Fd : ofile[p][d] # None /\ DupFile(p, ofile[p][d])
    BY <1>8 DEF SysDup
  <2>2. PICK g \in Slot : g = ofile[p][d] /\ ftable' = [ftable EXCEPT ![g].ref = @ + 1]
    <3>1. ofile[p][d] \in Slot
      BY <1>1, <1>8, <2>1, Types
    <3> QED
      BY <2>1, <3>1 DEF DupFile
  <2>3. ftable'[f] = IF f = g THEN [ftable[f] EXCEPT !.ref = @ + 1] ELSE ftable[f]
    BY <1>2, <2>2
  <2>4. <<p, d>> \in Descriptors(g)
    BY <2>2 DEF Descriptors
  <2>5. Making(f) # {} => f # g
    BY <1>3, <1>4, <2>4
  <2>6. ftable[f].ref + 1 \in Nat
    BY <1>4
  <2> QED
    BY <1>2, <1>3, <2>3, <2>5, <2>6, RefType
<1>9. ASSUME NEW p \in Proc, Fork(p)
      PROVE  /\ Making(f) # {} => ftable'[f].ref = 1
             /\ Descriptors(f) # {} => /\ ftable'[f].type = ftable[f].type
                                       /\ ftable'[f].writable = ftable[f].writable
  <2> DEFINE n(g) == Cardinality({d \in Fd : ofile[p][d] = g})
  <2>1. ftable' = [g \in Slot |-> [ftable[g] EXCEPT !.ref = @ + n(g)]]
    BY <1>9 DEF Fork, ForkFiles
  <2>2. Descriptors(f) = {} => {d \in Fd : ofile[p][d] = f} = {}
    <3>1. \A d \in Fd : ofile[p][d] = f => <<p, d>> \in Descriptors(f)
      BY DEF Descriptors
    <3> QED
      BY <3>1
  <2>3. Descriptors(f) = {} => n(f) = 0
    BY <2>2, FS_EmptySet
  <2> HIDE DEF n
  <2>4. Making(f) # {} => Descriptors(f) = {} /\ ftable[f].ref + 0 = 1
    BY <1>3, <1>4
  <2>5. /\ ftable'[f].ref = ftable[f].ref + n(f) /\ ftable'[f].type = ftable[f].type
        /\ ftable'[f].writable = ftable[f].writable
    BY <1>2, <2>1 DEF FileRec
  <2> QED
    BY <2>3, <2>4, <2>5
<1>10. ASSUME NEW p \in Proc, Fileclose(p)
      PROVE  /\ Making(f) # {} => ftable'[f].ref = 1
             /\ Descriptors(f) # {} => /\ ftable'[f].type = ftable[f].type
                                       /\ ftable'[f].writable = ftable[f].writable
  <2>1. PICK g \in Slot : g = Head(call[p].todo) /\ p \in Closing(g)
    BY <1>1, <1>10, CloseCall
  <2>2. DropFile(g)
    BY <1>10, <2>1 DEF Fileclose
  <2>3. CASE f # g
    <3>1. ftable'[f] = ftable[f]
      BY <1>2, <2>2, <2>3 DEF DropFile
    <3> QED
      BY <1>3, <3>1
  <2>4. CASE f = g
    <3>1. Making(f) = {}
      BY <1>3, <1>4, <2>1, <2>4
    <3>2. Descriptors(f) # {} => ftable[g].ref # 1
      BY <1>4, <2>1, <2>4
    <3>3. ftable[g].ref # 1 => ftable' = [ftable EXCEPT ![g].ref = @ - 1]
      BY <2>2 DEF DropFile
    <3>4. ftable[g].ref # 1 => ftable'[f] = [ftable[f] EXCEPT !.ref = @ - 1]
      BY <1>2, <2>4, <3>3
    <3>5. \A m : /\ [ftable[f] EXCEPT !.ref = m].type = ftable[f].type
               /\ [ftable[f] EXCEPT !.ref = m].writable = ftable[f].writable
      BY <1>2 DEF FileRec
    <3> QED
      BY <3>1, <3>2, <3>4, <3>5
  <2> QED
    BY <2>3, <2>4
<1>11. \A p \in Proc : PipeBad(p) \/ PipeNoFds(p) \/ PipeFds(p) \/ Pipeclose(p) \/ SysPipe(p)
          \/ ExitDone(p) \/ (\E d \in Fd : CloseFd(p, d)) => ftable' = ftable
  BY DEF PipeBad, PipeNoFds, PipeFds, Pipeclose, SysPipe, ExitDone, CloseFd, filevars
<1>12. \A p \in Proc : RWStep(p) => ftable' = ftable
  BY <1>1, RWSteps
<1>13. UNCHANGED vars => ftable' = ftable
  BY DEF vars, filevars
<1> QED
  BY <1>3, <1>5, <1>6, <1>7, <1>8, <1>9, <1>10, <1>11, <1>12, <1>13, Steps

LEMMA CallAt ==
  ASSUME TypeOK, NEW p \in Proc, NEW c, CallIs(p, c)
  PROVE  call'[p] = c /\ \A q \in Proc : q # p => call'[q] = call[q]
BY Types DEF CallIs

\* What holds of a call goes on to hold in the steps of others.
LEMMA CallKept ==
  ASSUME IInv, [Next]_vars, NEW q \in Proc, ofile'[q] = ofile[q],
         call'[q].new = call[q].new, call'[q].todo = call[q].todo,
         call'[q].closing = call[q].closing,
         pc'[q] = pc[q] \/ {pc[q], pc'[q]} \subseteq RWLabels
  PROVE  NewFiles(q)' /\ FilesToClose(q)' /\ UnusedIsEmpty(q)'
<1>1. TypeOK /\ NewFiles(q) /\ FilesToClose(q) /\ UnusedIsEmpty(q)
  BY DEF IInv, Calls
<1>2. call[q].new \in Seq(Slot)
  BY <1>1, Types
<1>3. \A i \in DOMAIN call[q].new : ftable'[call[q].new[i]].ref = 1
  <2> TAKE i \in DOMAIN call[q].new
  <2>1. q \in Making(call[q].new[i]) /\ call[q].new[i] \in Slot
    BY <1>2 DEF Making
  <2> QED
    BY <2>1, FilesKept
<1>4. RWLabels \cap {"filealloc", "kalloc", "fdalloc", "close", "pipeclose", "unused"} = {}
  BY DEF RWLabels, ReadLabels, WriteLabels
<1>5. CASE pc'[q] = pc[q]
  BY <1>1, <1>3, <1>5 DEF NewFiles, FilesToClose, UnusedIsEmpty, NoRepeat
<1>6. CASE {pc[q], pc'[q]} \subseteq RWLabels
  <2>1. {pc[q], pc'[q]} \cap {"filealloc", "kalloc", "fdalloc", "close", "pipeclose", "unused"} = {}
    BY <1>4, <1>6
  <2> QED
    BY <1>1, <1>3, <2>1 DEF NewFiles, FilesToClose, UnusedIsEmpty, NoRepeat
<1> QED
  BY <1>5, <1>6

\* The same for a process with nothing in its call.
LEMMA CallEmpty ==
  ASSUME NEW q \in Proc, call'[q].new = <<>>, call'[q].todo = <<>>, call'[q].closing = "none",
         pc'[q] \notin {"kalloc", "fdalloc", "close", "pipeclose", "unused"}
  PROVE  NewFiles(q)' /\ FilesToClose(q)' /\ UnusedIsEmpty(q)'
<1>1. NoRepeat(<<>>) /\ Len(<<>>) = 0 /\ DOMAIN <<>> = {}
  BY DEF NoRepeat
<1>2. NewFiles(q)'
  BY <1>1 DEF NewFiles, NoRepeat
<1>3. FilesToClose(q)'
  BY <1>1 DEF FilesToClose, NoRepeat
<1>4. UnusedIsEmpty(q)'
  BY DEF UnusedIsEmpty
<1> QED
  BY <1>2, <1>3, <1>4

LEMMA NextCalls ==
  ASSUME IInv, [Next]_vars
  PROVE  Calls'
<1>1. /\ TypeOK /\ Counted /\ Calls
      /\ \A p \in Proc : NewFiles(p) /\ FilesToClose(p) /\ UnusedIsEmpty(p)
  BY DEF IInv, Calls
<1>2. /\ ftable \in [Slot -> FileRec] /\ ofile \in [Proc -> [Fd -> Slot \cup {None}]]
      /\ pc \in [Proc -> Labels] /\ call \in [Proc -> CallType]
      /\ \A p \in Proc : call[p].new \in Seq(Slot) /\ call[p].todo \in Seq(Slot)
  BY <1>1, Types DEF CallType, FileRec
<1>3. \A p, q \in Proc : \A c : CallIs(p, c) =>
         call'[p] = c /\ (q # p => call'[q] = call[q])
  BY <1>1, CallAt
<1>4. \A p, q \in Proc : \A l : Goto(p, l) => pc'[p] = l /\ (q # p => pc'[q] = pc[q])
  BY <1>1, PcMoves
<1>5. \A q \in Proc :
         /\ ofile'[q] = ofile[q] /\ call'[q].new = call[q].new /\ call'[q].todo = call[q].todo
         /\ call'[q].closing = call[q].closing
         /\ pc'[q] = pc[q] \/ {pc[q], pc'[q]} \subseteq RWLabels
         => NewFiles(q)' /\ FilesToClose(q)' /\ UnusedIsEmpty(q)'
  BY CallKept
<1>6. \A p, q \in Proc : \A c, l :
         q # p /\ CallIs(p, c) /\ Goto(p, l) /\ ofile'[q] = ofile[q] =>
            NewFiles(q)' /\ FilesToClose(q)' /\ UnusedIsEmpty(q)'
  BY <1>3, <1>4, <1>5
<1>7. \A c \in CallType : \A x :
         /\ [c EXCEPT !.new = x].new = x /\ [c EXCEPT !.new = x].todo = c.todo
         /\ [c EXCEPT !.new = x].closing = c.closing
         /\ [c EXCEPT !.todo = x].todo = x /\ [c EXCEPT !.todo = x].new = c.new
         /\ [c EXCEPT !.todo = x].closing = c.closing
         /\ [c EXCEPT !.closing = x].new = c.new /\ [c EXCEPT !.closing = x].todo = c.todo
         /\ [c EXCEPT !.closing = x].closing = x
         /\ [c EXCEPT !.todo = x, !.new = <<>>].new = <<>>
         /\ [c EXCEPT !.todo = x, !.new = <<>>].todo = x
         /\ [c EXCEPT !.todo = x, !.new = <<>>].closing = c.closing
  BY DEF CallType
<1>8. NoRepeat(<<>>) /\ DOMAIN <<>> = {} /\ Len(<<>>) = 0
  BY DEF NoRepeat

<1>9. ASSUME NEW p \in Proc, PipeFile(p)
      PROVE  Calls'
  <2>1. PICK f \in Slot : CallIs(p, [call[p] EXCEPT !.new = Append(@, f)])
    BY <1>1, <1>9, CallEffects
  <2>2. /\ pc[p] = "filealloc" /\ ofile' = ofile
        /\ Goto(p, IF call[p].new = <<>> THEN "filealloc" ELSE "kalloc")
    BY <1>9 DEF PipeFile
  <2>3. \A q \in Proc : q # p => NewFiles(q)' /\ FilesToClose(q)' /\ UnusedIsEmpty(q)'
    BY <1>6, <1>9, <2>1, <2>2
  <2>4. /\ call'[p].new = Append(call[p].new, f) /\ call'[p].todo = call[p].todo
        /\ call'[p].closing = call[p].closing
        /\ pc'[p] = IF call[p].new = <<>> THEN "filealloc" ELSE "kalloc"
    <3>1. call'[p] = [call[p] EXCEPT !.new = Append(@, f)] /\ call[p] \in CallType
      BY <1>2, <1>3, <1>9, <2>1
    <3>2. pc'[p] = IF call[p].new = <<>> THEN "filealloc" ELSE "kalloc"
      BY <1>4, <1>9, <2>2
    <3> QED
      BY <1>7, <3>1, <3>2
  <2>5. ftable[f].ref = 0 /\ ftable'[f].ref = 1
    <3>1. PICK g \in Slot : /\ Filealloc(g)
                            /\ call' = [call EXCEPT ![p].new = Append(@, g)]
      BY <1>9 DEF PipeFile
    <3>2. call'[p].new = Append(call[p].new, g)
      BY <1>2, <1>9, <3>1 DEF CallType
    <3>3. f = g
      BY <1>2, <1>9, <2>4, <3>1, <3>2
    <3> QED
      BY <1>2, <3>1, <3>3 DEF Filealloc, Free, FileRec
  <2>6. \A i \in DOMAIN call[p].new : ftable[call[p].new[i]].ref = 1 /\ call[p].new[i] # f
                                      /\ ftable'[call[p].new[i]].ref = 1
    <3> TAKE i \in DOMAIN call[p].new
    <3>1. p \in Making(call[p].new[i]) /\ call[p].new[i] \in Slot
      BY <1>2, <1>9 DEF Making
    <3> QED
      BY <2>5, <3>1, FilesKept
  <2>7. NewFiles(p)'
    <3>1. NoRepeat(call[p].new) /\ Len(call[p].new) <= 1 /\ call[p].new \in Seq(Slot)
      BY <1>1, <1>2, <1>9, <2>2 DEF NewFiles
    <3>2. /\ Len(call'[p].new) = Len(call[p].new) + 1 /\
               DOMAIN call'[p].new = 1 .. Len(call[p].new) + 1
          /\ call'[p].new[Len(call[p].new) + 1] = f
          /\ \A i \in 1 .. Len(call[p].new) : call'[p].new[i] = call[p].new[i]
      BY <2>1, <2>4, <3>1
    <3>3. DOMAIN call[p].new = 1 .. Len(call[p].new) /\ Len(call[p].new) \in Nat
      BY <3>1
    <3>4. \A i \in DOMAIN call'[p].new : i \in DOMAIN call[p].new \/ i = Len(call[p].new) + 1
      BY <3>2, <3>3
    <3>5. NoRepeat(call'[p].new)
      BY <2>6, <3>1, <3>2, <3>3, <3>4 DEF NoRepeat
    <3>6. \A i \in DOMAIN call'[p].new : ftable'[call'[p].new[i]].ref = 1
      BY <2>5, <2>6, <3>2, <3>3, <3>4
    <3>7. /\ call[p].new = <<>> => Len(call[p].new) = 0
          /\ call[p].new # <<>> => Len(call[p].new) # 0
      BY <3>1
    <3>8. /\ pc'[p] = "filealloc" => Len(call'[p].new) <= 1
          /\ pc'[p] = "kalloc" => Len(call'[p].new) = 2
          /\ pc'[p] \in {"filealloc", "kalloc"}
      BY <2>4, <3>1, <3>2, <3>3, <3>7
    <3> QED
      BY <3>5, <3>6, <3>8 DEF NewFiles, NoRepeat
  <2>8. FilesToClose(p)' /\ UnusedIsEmpty(p)'
    <3>1. FilesToClose(p)
      BY <1>1, <1>9
    <3>2. pc'[p] \notin {"close", "pipeclose", "unused"}
      BY <2>4
    <3> QED
      BY <2>2, <2>4, <3>1, <3>2 DEF FilesToClose, UnusedIsEmpty, NoRepeat
  <2> QED
    BY <2>3, <2>7, <2>8 DEF Calls
<1>10. ASSUME NEW p \in Proc, PipeBad(p) \/ PipeNoFds(p)
      PROVE  Calls'
  <2>1. /\ CallIs(p, [call[p] EXCEPT !.todo = call[p].new, !.new = <<>>])
        /\ ofile' = ofile /\ pc[p] \in {"filealloc", "kalloc", "fdalloc"}
    BY <1>1, <1>10, CallEffects DEF PipeBad, PipeNoFds, filevars
  <2>2. Goto(p, CloseOr(call[p].new))
    <3>1. PipeNoFds(p) => call[p].new # <<>>
      <4>1. PipeNoFds(p) => Len(call[p].new) = 2
        BY <1>1, <1>10 DEF PipeNoFds, NewFiles
      <4> QED
        BY <4>1
    <3> QED
      BY <1>10, <3>1 DEF PipeBad, PipeNoFds, CloseOr
  <2>3. \A q \in Proc : q # p => NewFiles(q)' /\ FilesToClose(q)' /\ UnusedIsEmpty(q)'
    BY <1>6, <1>10, <2>1, <2>2
  <2>4. /\ call'[p].new = <<>> /\ call'[p].todo = call[p].new /\ call'[p].closing = "none"
        /\ pc'[p] = CloseOr(call[p].new) /\ NoRepeat(call[p].new)
    <3>1. call'[p] = [call[p] EXCEPT !.todo = call[p].new, !.new = <<>>]
      BY <1>3, <1>10, <2>1
    <3>2. call[p].closing = "none" /\ NoRepeat(call[p].new)
      BY <1>1, <1>10, <2>1 DEF FilesToClose, NewFiles
    <3>3. pc'[p] = CloseOr(call[p].new)
      BY <1>4, <1>10, <2>2
    <3> QED
      BY <1>2, <1>7, <1>10, <3>1, <3>2, <3>3
  <2>5. NewFiles(p)' /\ FilesToClose(p)' /\ UnusedIsEmpty(p)'
    BY <1>8, <2>4 DEF NewFiles, FilesToClose, UnusedIsEmpty, NoRepeat, CloseOr
  <2> QED
    BY <2>3, <2>5 DEF Calls
<1>11. ASSUME NEW p \in Proc, PipeMake(p)
      PROVE  Calls'
  <2>1. call' = call /\ ofile' = ofile /\ Goto(p, "fdalloc") /\ pc[p] = "kalloc"
    BY <1>11 DEF PipeMake
  <2>2. \A q \in Proc : q # p => NewFiles(q)' /\ FilesToClose(q)' /\ UnusedIsEmpty(q)'
    BY <1>4, <1>5, <1>11, <2>1
  <2>3. \A i \in DOMAIN call[p].new : ftable'[call[p].new[i]].ref = 1
    <3> TAKE i \in DOMAIN call[p].new
    <3>1. p \in Making(call[p].new[i]) /\ call[p].new[i] \in Slot
      BY <1>2, <1>11 DEF Making
    <3> QED
      BY <3>1, FilesKept
  <2>4. NewFiles(p) /\ FilesToClose(p) /\ pc'[p] = "fdalloc"
    BY <1>1, <1>4, <1>11, <2>1
  <2>5. NewFiles(p)' /\ FilesToClose(p)' /\ UnusedIsEmpty(p)'
    BY <2>1, <2>3, <2>4 DEF NewFiles, FilesToClose, UnusedIsEmpty, NoRepeat
  <2> QED
    BY <2>2, <2>5 DEF Calls
<1>12. ASSUME NEW p \in Proc, PipeFds(p)
      PROVE  Calls'
  <2>1. /\ CallIs(p, [call[p] EXCEPT !.new = <<>>]) /\ Goto(p, "user") /\ pc[p] = "fdalloc"
        /\ \A q \in Proc : q # p => ofile'[q] = ofile[q]
    BY <1>1, <1>2, <1>12, CallEffects DEF PipeFds
  <2>2. \A q \in Proc : q # p => NewFiles(q)' /\ FilesToClose(q)' /\ UnusedIsEmpty(q)'
    BY <1>6, <1>12, <2>1
  <2>3. FilesToClose(p) /\ pc'[p] = "user" /\ call'[p] = [call[p] EXCEPT !.new = <<>>]
    BY <1>1, <1>3, <1>4, <1>12, <2>1
  <2>4. call'[p].new = <<>> /\ call'[p].todo = <<>> /\ call'[p].closing = "none"
    BY <1>2, <1>7, <1>12, <2>1, <2>3 DEF FilesToClose
  <2>5. NewFiles(p)' /\ FilesToClose(p)' /\ UnusedIsEmpty(p)'
    BY <2>3, <2>4, CallEmpty
  <2> QED
    BY <2>2, <2>5 DEF Calls
<1>13. ASSUME NEW p \in Proc, SysDup(p)
      PROVE  Calls'
  <2>1. /\ call' = call /\ pc' = pc /\ pc[p] = "user"
        /\ \A q \in Proc : q # p => ofile'[q] = ofile[q]
    BY <1>2, <1>13 DEF SysDup, InUser, DupFile
  <2>2. \A q \in Proc : q # p => NewFiles(q)' /\ FilesToClose(q)' /\ UnusedIsEmpty(q)'
    BY <1>5, <1>13, <2>1
  <2>3. NewFiles(p) /\ FilesToClose(p)
    BY <1>1, <1>13
  <2>4. call'[p].new = <<>> /\ call'[p].todo = <<>> /\ call'[p].closing = "none" /\ pc'[p] = "user"
    BY <2>1, <2>3 DEF NewFiles, FilesToClose
  <2>5. NewFiles(p)' /\ FilesToClose(p)' /\ UnusedIsEmpty(p)'
    BY <1>13, <2>4, CallEmpty
  <2> QED
    BY <2>2, <2>5 DEF Calls
<1>14. ASSUME NEW p \in Proc, Fork(p)
      PROVE  Calls'
  <2>1. PICK c \in Proc : /\ call' = call /\ Goto(c, "user") /\ pc[c] = "unused"
                          /\ \A q \in Proc : q # c => ofile'[q] = ofile[q]
    BY <1>2, <1>14 DEF Fork, ForkFiles
  <2>2. \A q \in Proc : q # c => NewFiles(q)' /\ FilesToClose(q)' /\ UnusedIsEmpty(q)'
    BY <1>4, <1>5, <2>1
  <2>3. NewFiles(c) /\ FilesToClose(c) /\ pc'[c] = "user"
    BY <1>1, <1>4, <2>1
  <2>4. call'[c].new = <<>> /\ call'[c].todo = <<>> /\ call'[c].closing = "none"
    BY <2>1, <2>3 DEF NewFiles, FilesToClose
  <2>5. NewFiles(c)' /\ FilesToClose(c)' /\ UnusedIsEmpty(c)'
    BY <2>1, <2>3, <2>4, CallEmpty
  <2> QED
    BY <2>2, <2>5 DEF Calls
<1>15. ASSUME NEW p \in Proc, NEW d \in Fd, CloseFd(p, d), pc[p] = "user"
      PROVE  Calls'
  <2>1. /\ CallIs(p, [call[p] EXCEPT !.todo = <<ofile[p][d]>>]) /\ Goto(p, "close")
        /\ \A q \in Proc : q # p => ofile'[q] = ofile[q]
    BY <1>1, <1>2, <1>15, CallEffects DEF CloseFd
  <2>2. \A q \in Proc : q # p => NewFiles(q)' /\ FilesToClose(q)' /\ UnusedIsEmpty(q)'
    BY <1>6, <1>15, <2>1
  <2>3. /\ NewFiles(p) /\ FilesToClose(p) /\ pc'[p] = "close"
        /\ call'[p] = [call[p] EXCEPT !.todo = <<ofile[p][d]>>]
    BY <1>1, <1>3, <1>4, <1>15, <2>1
  <2>4. call'[p].new = <<>> /\ call'[p].todo = <<ofile[p][d]>> /\ call'[p].closing = "none"
    BY <1>2, <1>7, <1>15, <2>3 DEF NewFiles, FilesToClose
  <2>5. NoRepeat(<<ofile[p][d]>>) /\ <<ofile[p][d]>> # <<>>
    BY DEF NoRepeat
  <2>6. NewFiles(p)' /\ FilesToClose(p)' /\ UnusedIsEmpty(p)'
    BY <1>8, <2>3, <2>4, <2>5 DEF NewFiles, FilesToClose, UnusedIsEmpty, NoRepeat
  <2> QED
    BY <2>2, <2>6 DEF Calls
<1>16. ASSUME NEW p \in Proc, Fileclose(p)
      PROVE  Calls'
  <2>1. PICK f \in Slot :
           /\ f = Head(call[p].todo) /\ call[p].todo # <<>>
           /\ CallIs(p, [call[p] EXCEPT !.todo = Tail(@),
                            !.closing = IF ftable[f].ref = 1 /\ ftable[f].type = "PIPE"
                                        THEN EndOf(ftable[f].writable) ELSE @])
    BY <1>1, <1>16, CloseCall
  <2> DEFINE last == ftable[f].ref = 1 /\ ftable[f].type = "PIPE"
  <2>2. /\ Goto(p, IF last THEN "pipeclose" ELSE CloseOr(Tail(call[p].todo)))
        /\ ofile' = ofile /\ pc[p] = "close"
    BY <2>1, <1>16 DEF Fileclose
  <2>3. \A q \in Proc : q # p => NewFiles(q)' /\ FilesToClose(q)' /\ UnusedIsEmpty(q)'
    BY <1>6, <1>16, <2>1, <2>2
  <2>4. /\ NewFiles(p) /\ FilesToClose(p)
        /\ pc'[p] = IF last THEN "pipeclose" ELSE CloseOr(Tail(call[p].todo))
        /\ call'[p] = [call[p] EXCEPT !.todo = Tail(@),
                            !.closing = IF last THEN EndOf(ftable[f].writable) ELSE @]
    BY <1>1, <1>3, <1>4, <1>16, <2>1, <2>2
  <2>5. /\ call'[p].new = <<>> /\ call'[p].todo = Tail(call[p].todo)
        /\ call'[p].closing = IF last THEN EndOf(ftable[f].writable) ELSE "none"
        /\ NoRepeat(call[p].todo) /\ call[p].todo \in Seq(Slot)
    BY <1>2, <1>16, <2>2, <2>4 DEF NewFiles, FilesToClose, CallType
  <2>6. NoRepeat(Tail(call[p].todo))
    <3> DEFINE t == call[p].todo
    <3>1. t \in Seq(Slot) /\ t # <<>> /\ NoRepeat(t)
      BY <2>1, <2>5
    <3> HIDE DEF t
    <3>2. \A i \in DOMAIN Tail(t) : i + 1 \in DOMAIN t /\ Tail(t)[i] = t[i + 1] /\ i \in Nat
      BY <3>1
    <3>3. NoRepeat(Tail(t))
      BY <3>1, <3>2 DEF NoRepeat
    <3> QED
      BY <3>3 DEF t
  <2>7. EndOf(ftable[f].writable) # "none"
    BY DEF EndOf
  <2> HIDE DEF last
  <2>8. NewFiles(p)'
    BY <1>8, <2>4, <2>5 DEF NewFiles, NoRepeat, CloseOr
  <2>9. FilesToClose(p)' /\ UnusedIsEmpty(p)'
    BY <1>8, <2>4, <2>5, <2>6, <2>7 DEF FilesToClose, UnusedIsEmpty, NoRepeat, CloseOr
  <2> QED
    BY <2>3, <2>8, <2>9 DEF Calls
<1>17. ASSUME NEW p \in Proc, Pipeclose(p)
      PROVE  Calls'
  <2>1. CallIs(p, [call[p] EXCEPT !.closing = "none"]) /\ ofile' = ofile /\ pc[p] = "pipeclose"
    BY <1>1, <1>17, CallEffects DEF Pipeclose, filevars
  <2>2. \E s \in RWLabels : \E t \in RWLabels : GotoWaking(p, CloseOr(call[p].todo), s, t)
    <3>1. {"readasleep", "read", "writeasleep", "write"} \subseteq RWLabels
      BY DEF RWLabels, ReadLabels, WriteLabels
    <3> QED
      BY <1>17, <3>1 DEF Pipeclose
  <2>3. /\ pc'[p] = CloseOr(call[p].todo)
        /\ \A q \in Proc : q # p => pc'[q] = pc[q] \/ {pc[q], pc'[q]} \subseteq RWLabels
    <3>1. PICK s \in RWLabels, t \in RWLabels : GotoWaking(p, CloseOr(call[p].todo), s, t)
      BY <2>2
    <3>2. pc' = Waking(p, CloseOr(call[p].todo), s, t)
      BY <3>1 DEF GotoWaking
    <3>3. /\ pc'[p] = CloseOr(call[p].todo)
          /\ \A q \in Proc : q # p => pc'[q] = IF pc[q] = s THEN t ELSE pc[q]
      BY <1>2, <1>17, <3>2 DEF Waking
    <3> QED
      BY <3>1, <3>3
  <2>4. \A q \in Proc : q # p => NewFiles(q)' /\ FilesToClose(q)' /\ UnusedIsEmpty(q)'
    BY <1>3, <1>5, <1>17, <2>1, <2>3
  <2>5. NewFiles(p) /\ FilesToClose(p) /\ call'[p] = [call[p] EXCEPT !.closing = "none"]
    BY <1>1, <1>3, <1>17, <2>1
  <2>6. call'[p].new = <<>> /\ call'[p].todo = call[p].todo /\ call'[p].closing = "none"
    BY <1>2, <1>7, <1>17, <2>1, <2>5 DEF NewFiles
  <2>7. NewFiles(p)' /\ FilesToClose(p)' /\ UnusedIsEmpty(p)'
    BY <1>8, <2>3, <2>5, <2>6
       DEF NewFiles, FilesToClose, UnusedIsEmpty, NoRepeat, CloseOr
  <2> QED
    BY <2>4, <2>7 DEF Calls
<1>18. ASSUME NEW p \in Proc, RWStep(p)
      PROVE  Calls'
  <2>1. \A q \in Proc : NewFiles(q)' /\ FilesToClose(q)' /\ UnusedIsEmpty(q)'
    <3>1. /\ ofile' = ofile
          /\ \A q \in Proc : /\ call'[q].new = call[q].new /\ call'[q].todo = call[q].todo
                             /\ call'[q].closing = call[q].closing
                             /\ pc'[q] = pc[q] \/ {pc[q], pc'[q]} \subseteq RWLabels
      BY <1>1, <1>18, RWSteps
    <3> QED
      BY <1>5, <3>1
  <2> QED
    BY <2>1 DEF Calls
<1>19. ASSUME NEW p \in Proc, SysPipe(p)
      PROVE  Calls'
  <2>1. call' = call /\ ofile' = ofile /\ Goto(p, "filealloc") /\ pc[p] = "user"
    BY <1>19 DEF SysPipe, InUser, filevars
  <2>2. \A q \in Proc : q # p => NewFiles(q)' /\ FilesToClose(q)' /\ UnusedIsEmpty(q)'
    BY <1>4, <1>5, <1>19, <2>1
  <2>3. NewFiles(p) /\ FilesToClose(p) /\ pc'[p] = "filealloc"
    BY <1>1, <1>4, <1>19, <2>1
  <2>4. call'[p].new = <<>> /\ call'[p].todo = <<>> /\ call'[p].closing = "none"
    BY <2>1, <2>3 DEF NewFiles, FilesToClose
  <2>5. NewFiles(p)' /\ FilesToClose(p)' /\ UnusedIsEmpty(p)'
    BY <1>19, <2>3, <2>4, CallEmpty
  <2> QED
    BY <2>2, <2>5 DEF Calls
<1>20. ASSUME NEW p \in Proc, ExitDone(p)
      PROVE  Calls'
  <2>1. /\ call' = call /\ ofile' = ofile /\ Goto(p, "unused") /\ pc[p] = "user"
        /\ \A d \in Fd : ofile[p][d] = None
    BY <1>20 DEF ExitDone, filevars, Unused
  <2>2. \A q \in Proc : q # p => NewFiles(q)' /\ FilesToClose(q)' /\ UnusedIsEmpty(q)'
    BY <1>4, <1>5, <1>20, <2>1
  <2>3. NewFiles(p) /\ FilesToClose(p) /\ pc'[p] = "unused"
    BY <1>1, <1>4, <1>20, <2>1
  <2>4. call'[p].new = <<>> /\ call'[p].todo = <<>> /\ call'[p].closing = "none"
    BY <2>1, <2>3 DEF NewFiles, FilesToClose
  <2>5. NewFiles(p)' /\ FilesToClose(p)' /\ UnusedIsEmpty(p)'
    BY <1>8, <2>1, <2>3, <2>4 DEF NewFiles, FilesToClose, UnusedIsEmpty, NoRepeat
  <2> QED
    BY <2>2, <2>5 DEF Calls
<1>21. CASE UNCHANGED vars
  <2>1. \A q \in Proc : NewFiles(q)' /\ FilesToClose(q)' /\ UnusedIsEmpty(q)'
    BY <1>5, <1>21 DEF vars, filevars
  <2> QED
    BY <2>1 DEF Calls
<1> QED
  BY <1>9, <1>10, <1>11, <1>12, <1>13, <1>14, <1>15, <1>16, <1>17, <1>18, <1>19, <1>20, <1>21, Steps

(***************************************************************************)
(* The descriptors that fdalloc finds.                                     *)
(***************************************************************************)
LEMMA First ==
  ASSUME NEW S \in SUBSET Nat, S # {}
  PROVE  \E m \in S : \A n \in S : m <= n
<1> DEFINE R == {ss \in Nat \X Nat : ss[1] < ss[2]}
<1>1. IsWellFoundedOn(R, Nat)
  BY NatLessThanWellFounded DEF OpToRel
<1>2. PICK m \in S : \A n \in S : <<n, m>> \notin R
  BY <1>1, WFMin
<1>3. \A n \in S : ~(n < m)
  BY <1>2
<1> QED
  BY <1>3

LEMMA FirstFds ==
  ASSUME NEW p \in Proc
  PROVE  /\ Unused(p) # {} => FdFor(p, 1) \in Unused(p)
         /\ Cardinality(Unused(p)) >= 2 =>
               /\ FdFor(p, 1) \in Unused(p) /\ FdFor(p, 2) \in Unused(p)
               /\ FdFor(p, 1) # FdFor(p, 2)
<1> DEFINE U == Unused(p)
           below(d) == {e \in U : e <= d}
<1>1. U \in SUBSET Nat /\ U \subseteq Fd
  BY FileAssumption DEF Unused, Fd
<1>2. IsFiniteSet(U)
  <2>1. IsFiniteSet(Fd)
    BY FS_Interval, FileAssumption DEF Fd
  <2> QED
    BY <1>1, <2>1, FS_Subset
<1>3. \A i \in {1, 2} : FdFor(p, i) = CHOOSE d \in U : Cardinality(below(d)) = i
  BY DEF FdFor
<1>4. \A x : Cardinality({x}) = 1 /\ IsFiniteSet({x})
  BY FS_Singleton
<1> HIDE DEF U
<1>5. ASSUME U # {}
      PROVE  \E d \in U : below(d) = {d} /\ \A n \in U : d <= n
  <2>1. PICK d \in U : \A n \in U : d <= n
    BY <1>1, <1>5, First
  <2>2. \A n \in U : n <= d <=> n = d
    BY <1>1, <2>1
  <2>3. below(d) = {d}
    BY <2>2
  <2> QED
    BY <2>1, <2>3
<1>6. ASSUME U # {}
      PROVE  FdFor(p, 1) \in U /\ Cardinality(below(FdFor(p, 1))) = 1
  <2>1. \E d \in U : Cardinality(below(d)) = 1
    BY <1>4, <1>5, <1>6
  <2> HIDE DEF below
  <2> QED
    BY <1>3, <2>1
<1>7. ASSUME Cardinality(U) >= 2
      PROVE  FdFor(p, 2) \in U /\ Cardinality(below(FdFor(p, 2))) = 2
  <2>1. U # {}
    BY <1>7, FS_EmptySet
  <2>2. PICK d \in U : below(d) = {d} /\ \A n \in U : d <= n
    BY <1>5, <2>1
  <2>3. U \ {d} # {}
    <3>1. CASE U = {d}
      BY <1>4, <1>7, <3>1
    <3> QED
      BY <3>1
  <2>4. PICK e \in U \ {d} : \A n \in U \ {d} : e <= n
    <3>1. U \ {d} \in SUBSET Nat
      BY <1>1
    <3> QED
      BY <2>3, <3>1, First
  <2>5. below(e) = {d} \cup {e}
    <3>1. d <= e /\ e \in U /\ e <= e
      BY <1>1, <2>2, <2>4
    <3>2. \A n \in U : n <= e <=> n = d \/ n = e
      BY <1>1, <2>4, <3>1
    <3> QED
      BY <3>1, <3>2
  <2>6. Cardinality(below(e)) = 2
    <3>1. Cardinality({d} \cup {e}) = Cardinality({d}) + 1
      BY <1>4, <2>4, CountPlus
    <3> QED
      BY <1>4, <2>5, <3>1
  <2> HIDE DEF below
  <2> QED
    BY <1>3, <2>4, <2>6
<1>8. Cardinality(U) >= 2 => U # {}
  BY FS_EmptySet
<1> HIDE DEF below
<1> QED
  BY <1>6, <1>7, <1>8 DEF U

\* The files of s differ, and so do the unused descriptors they get.
Fresh(p, s) == /\ \A i \in DOMAIN s : FdFor(p, i) \in Unused(p)
               /\ \A i, j \in DOMAIN s : FdFor(p, i) = FdFor(p, j) => i = j
               /\ NoRepeat(s)

\* Each file of s has one descriptor more, no other file has.
OneMore(p, s, f) ==
  /\ \A i \in DOMAIN s : s[i] = f =>
       /\ Descriptors(f)' = Descriptors(f) \cup {<<p, FdFor(p, i)>>}
       /\ <<p, FdFor(p, i)>> \notin Descriptors(f)
  /\ (\A i \in DOMAIN s : s[i] # f) => Descriptors(f)' = Descriptors(f)

\* The descriptors of a file after some are given for the files of s.
LEMMA Given ==
  ASSUME TypeOK, NEW p \in Proc, NEW s \in Seq(Slot), NEW f \in Slot,
         ofile' = [ofile EXCEPT ![p] = WithFds(p, s)],
         Fresh(p, s)
  PROVE  OneMore(p, s, f)
<1>0. /\ \A i \in DOMAIN s : FdFor(p, i) \in Unused(p)
      /\ \A i, j \in DOMAIN s : FdFor(p, i) = FdFor(p, j) => i = j
      /\ NoRepeat(s)
  BY DEF Fresh
<1>1. ofile \in [Proc -> [Fd -> Slot \cup {None}]] /\ None \notin Slot
  BY Types, FileAssumption DEF Slot
<1>2. \A i \in DOMAIN s : FdFor(p, i) \in Fd /\ ofile[p][FdFor(p, i)] = None
  BY <1>0 DEF Unused
<1>3. \A i \in DOMAIN s : WithFds(p, s)[FdFor(p, i)] = s[i]
  BY <1>0, <1>2 DEF WithFds
<1>4. \A d \in Fd : (\A i \in DOMAIN s : FdFor(p, i) # d) => WithFds(p, s)[d] = ofile[p][d]
  BY DEF WithFds
<1>5. \A d \in Fd : WithFds(p, s)[d] = f <=>
         ofile[p][d] = f \/ \E i \in DOMAIN s : s[i] = f /\ FdFor(p, i) = d
  BY <1>1, <1>2, <1>3, <1>4
<1>6. \A q \in Proc : \A d \in Fd :
         ofile'[q][d] = IF q = p THEN WithFds(p, s)[d] ELSE ofile[q][d]
  BY <1>1
<1>7. \A q \in Proc : \A d \in Fd : <<q, d>> \in Descriptors(f)' <=>
         \/ <<q, d>> \in Descriptors(f)
         \/ q = p /\ \E i \in DOMAIN s : s[i] = f /\ FdFor(p, i) = d
  BY <1>5, <1>6 DEF Descriptors
<1>8. Descriptors(f) \subseteq Proc \X Fd /\ Descriptors(f)' \subseteq Proc \X Fd
  BY DEF Descriptors
<1>9. ASSUME NEW i \in DOMAIN s, s[i] = f
      PROVE  /\ Descriptors(f)' = Descriptors(f) \cup {<<p, FdFor(p, i)>>}
             /\ <<p, FdFor(p, i)>> \notin Descriptors(f)
  <2>1. \A j \in DOMAIN s : s[j] = f => j = i
    BY <1>0, <1>9 DEF NoRepeat
  <2>2. \A q \in Proc : \A d \in Fd : <<q, d>> \in Descriptors(f)' <=>
           <<q, d>> \in Descriptors(f) \cup {<<p, FdFor(p, i)>>}
    BY <1>7, <1>9, <2>1
  <2>3. <<p, FdFor(p, i)>> \in Proc \X Fd
    BY <1>2
  <2>4. Descriptors(f)' = Descriptors(f) \cup {<<p, FdFor(p, i)>>}
    BY <1>8, <2>2, <2>3
  <2>5. <<p, FdFor(p, i)>> \notin Descriptors(f)
    BY <1>1, <1>2 DEF Descriptors
  <2> QED
    BY <2>4, <2>5
<1>10. (\A i \in DOMAIN s : s[i] # f) => Descriptors(f)' = Descriptors(f)
  <2> SUFFICES ASSUME \A i \in DOMAIN s : s[i] # f
               PROVE  Descriptors(f)' = Descriptors(f)
    OBVIOUS
  <2>1. \A q \in Proc : \A d \in Fd : <<q, d>> \in Descriptors(f)' <=> <<q, d>> \in Descriptors(f)
    BY <1>7
  <2>2. \A x \in Proc \X Fd : x \in Descriptors(f)' <=> x \in Descriptors(f)
    BY <2>1
  <2> QED
    BY <1>8, <2>2
<1> QED
  BY <1>9, <1>10 DEF OneMore

(***************************************************************************)
(* The references.                                                         *)
(***************************************************************************)
Has(s, f) == \E i \in DOMAIN s : s[i] = f

LEMMA MakingAt ==
  ASSUME NEW p \in Proc, NEW f, \A q \in Proc : q # p => call'[q].new = call[q].new
  PROVE  /\ p \in Making(f) <=> Has(call[p].new, f)
         /\ Has(call'[p].new, f) => Making(f)' = Making(f) \cup {p}
         /\ ~Has(call'[p].new, f) => Making(f)' = Making(f) \ {p}
BY DEF Making, Has

LEMMA ClosingAt ==
  ASSUME NEW p \in Proc, NEW f, \A q \in Proc : q # p => call'[q].todo = call[q].todo
  PROVE  /\ p \in Closing(f) <=> Has(call[p].todo, f)
         /\ Has(call'[p].todo, f) => Closing(f)' = Closing(f) \cup {p}
         /\ ~Has(call'[p].todo, f) => Closing(f)' = Closing(f) \ {p}
BY DEF Closing, Has

\* A file is counted as before if nothing that is counted changes.
LEMMA CountKept ==
  ASSUME Counted, NEW f \in Slot, Descriptors(f)' = Descriptors(f), Making(f)' = Making(f),
         Closing(f)' = Closing(f), ftable'[f].ref = ftable[f].ref
  PROVE  ftable'[f].ref = Cardinality(Descriptors(f)') + Cardinality(Making(f)')
                          + Cardinality(Closing(f)')
BY DEF Counted

LEMMA SumOf ==
  ASSUME Counted, NEW f \in Slot
  PROVE  /\ Cardinality(Descriptors(f)) \in Nat /\ Cardinality(Making(f)) \in Nat
         /\ Cardinality(Closing(f)) \in Nat
         /\ ftable[f].ref = Cardinality(Descriptors(f)) + Cardinality(Making(f))
                            + Cardinality(Closing(f))
         /\ \A x : x \notin Descriptors(f) =>
               Cardinality(Descriptors(f) \cup {x}) = Cardinality(Descriptors(f)) + 1
         /\ \A x : x \in Descriptors(f) =>
               Cardinality(Descriptors(f) \ {x}) = Cardinality(Descriptors(f)) - 1
         /\ \A x : x \notin Making(f) =>
               Cardinality(Making(f) \cup {x}) = Cardinality(Making(f)) + 1
         /\ \A x : x \in Making(f) =>
               Cardinality(Making(f) \ {x}) = Cardinality(Making(f)) - 1
         /\ \A x : x \notin Closing(f) =>
               Cardinality(Closing(f) \cup {x}) = Cardinality(Closing(f)) + 1
         /\ \A x : x \in Closing(f) =>
               Cardinality(Closing(f) \ {x}) = Cardinality(Closing(f)) - 1
<1>1. IsFiniteSet(Descriptors(f)) /\ IsFiniteSet(Making(f)) /\ IsFiniteSet(Closing(f))
  BY Counts
<1>2. \A S : IsFiniteSet(S) =>
         /\ \A x : x \notin S => Cardinality(S \cup {x}) = Cardinality(S) + 1
         /\ \A x : x \in S => Cardinality(S \ {x}) = Cardinality(S) - 1
  BY CountPlus, CountMinus
<1>3. /\ \A x : x \notin Descriptors(f) =>
            Cardinality(Descriptors(f) \cup {x}) = Cardinality(Descriptors(f)) + 1
      /\ \A x : x \in Descriptors(f) =>
            Cardinality(Descriptors(f) \ {x}) = Cardinality(Descriptors(f)) - 1
  BY <1>1, <1>2
<1>4. /\ \A x : x \notin Making(f) =>
            Cardinality(Making(f) \cup {x}) = Cardinality(Making(f)) + 1
      /\ \A x : x \in Making(f) => Cardinality(Making(f) \ {x}) = Cardinality(Making(f)) - 1
  BY <1>1, <1>2
<1>5. /\ \A x : x \notin Closing(f) =>
            Cardinality(Closing(f) \cup {x}) = Cardinality(Closing(f)) + 1
      /\ \A x : x \in Closing(f) => Cardinality(Closing(f) \ {x}) = Cardinality(Closing(f)) - 1
  BY <1>1, <1>2
<1> QED
  BY <1>3, <1>4, <1>5, Counts DEF Counted

LEMMA NextCounted ==
  ASSUME IInv, [Next]_vars
  PROVE  Counted'
<1>1. /\ TypeOK /\ Counted /\ Calls
      /\ \A p \in Proc : NewFiles(p) /\ FilesToClose(p) /\ UnusedIsEmpty(p)
  BY DEF IInv, Calls
<1>2. /\ ftable \in [Slot -> FileRec] /\ ofile \in [Proc -> [Fd -> Slot \cup {None}]]
      /\ pc \in [Proc -> Labels] /\ call \in [Proc -> CallType]
      /\ \A p \in Proc : call[p].new \in Seq(Slot) /\ call[p].todo \in Seq(Slot)
      /\ None \notin Slot
  BY <1>1, Types, FileAssumption DEF CallType, FileRec, Slot
<1>3. \A p, q \in Proc : \A c : CallIs(p, c) =>
         call'[p] = c /\ (q # p => call'[q] = call[q])
  BY <1>1, CallAt
<1>4. \A f : Has(<<>>, f) = FALSE
  BY DEF Has
<1>5. \A f : call' = call => Making(f)' = Making(f) /\ Closing(f)' = Closing(f)
  BY DEF Making, Closing
<1>6. \A f : ofile' = ofile => Descriptors(f)' = Descriptors(f)
  BY DEF Descriptors
<1>7. \A f : (\A q \in Proc : call'[q].new = call[q].new) => Making(f)' = Making(f)
  BY DEF Making
<1>8. \A f : (\A q \in Proc : call'[q].todo = call[q].todo) => Closing(f)' = Closing(f)
  BY DEF Closing
<1>9. \A f \in Slot :
         /\ Descriptors(f)' = Descriptors(f) /\ Making(f)' = Making(f) /\ Closing(f)' = Closing(f)
         /\ ftable'[f].ref = ftable[f].ref
         => ftable'[f].ref = Cardinality(Descriptors(f)') + Cardinality(Making(f)')
                             + Cardinality(Closing(f)')
  BY <1>1, CountKept
<1>10. \A f \in Slot : ftable[f].ref \in Nat
  BY <1>2 DEF FileRec
<1>11. ASSUME NEW p \in Proc, PipeFile(p)
       PROVE  Counted'
  <2>1. PICK g \in Slot : /\ Filealloc(g) /\ ofile' = ofile
                          /\ call' = [call EXCEPT ![p].new = Append(@, g)]
    BY <1>11 DEF PipeFile
  <2>2. /\ call'[p].new = Append(call[p].new, g) /\ call'[p].todo = call[p].todo
        /\ \A q \in Proc : q # p => call'[q] = call[q]
    BY <1>2, <1>11, <2>1 DEF CallType
  <2>3. /\ ftable[g].ref = 0 /\ ftable'[g].ref = 1
        /\ \A f \in Slot : f # g => ftable'[f] = ftable[f]
    BY <1>2, <2>1 DEF Filealloc, Free, FileRec
  <2>4. \A f \in Slot : Has(Append(call[p].new, g), f) <=> Has(call[p].new, f) \/ f = g
    <3> TAKE f \in Slot
    <3> DEFINE s == call[p].new
    <3>1. s \in Seq(Slot) /\ g \in Slot
      BY <1>2, <1>11, <2>1
    <3> HIDE DEF s
    <3>2. /\ DOMAIN s = 1 .. Len(s) /\ DOMAIN Append(s, g) = 1 .. Len(s) + 1 /\ Len(s) \in Nat
          /\ Append(s, g)[Len(s) + 1] = g /\ \A i \in 1 .. Len(s) : Append(s, g)[i] = s[i]
      BY <3>1
    <3>3. \A i \in DOMAIN Append(s, g) : i \in DOMAIN s \/ i = Len(s) + 1
      BY <3>2
    <3>4. DOMAIN s \subseteq DOMAIN Append(s, g) /\ Len(s) + 1 \in DOMAIN Append(s, g)
      BY <3>2
    <3>5. Has(Append(s, g), f) <=> Has(s, f) \/ f = g
      BY <3>2, <3>3, <3>4 DEF Has
    <3> QED
      BY <3>5 DEF s
  <2>5. \A f \in Slot : /\ Descriptors(f)' = Descriptors(f) /\ Closing(f)' = Closing(f)
                        /\ f # g => Making(f)' = Making(f)
                        /\ f = g => Making(f)' = Making(f) \cup {p}
    <3> TAKE f \in Slot
    <3>1. Descriptors(f)' = Descriptors(f)
      BY <1>6, <2>1
    <3>2. Closing(f)' = Closing(f)
      BY <1>8, <2>2
    <3>3. /\ p \in Making(f) <=> Has(call[p].new, f)
          /\ Has(call'[p].new, f) => Making(f)' = Making(f) \cup {p}
          /\ ~Has(call'[p].new, f) => Making(f)' = Making(f) \ {p}
      BY <1>11, <2>2, MakingAt
    <3>4. Has(call'[p].new, f) <=> Has(call[p].new, f) \/ f = g
      BY <2>2, <2>4
    <3> QED
      BY <3>1, <3>2, <3>3, <3>4
  <2>6. Making(g) = {} /\ p \notin Making(g)
    <3>1. Making(g) # {} => ftable[g].ref >= 1
      BY <1>1, Referred
    <3> QED
      BY <2>3, <3>1
  <2>7. Cardinality(Making(g) \cup {p}) = Cardinality(Making(g)) + 1
    BY <1>1, <2>6, SumOf
  <2>8. ftable'[g].ref = Cardinality(Descriptors(g)') + Cardinality(Making(g)')
                         + Cardinality(Closing(g)')
    <3>1. /\ Descriptors(g)' = Descriptors(g) /\ Closing(g)' = Closing(g)
          /\ Cardinality(Making(g)') = Cardinality(Making(g)) + 1
      BY <2>5, <2>7
    <3>2. /\ Cardinality(Descriptors(g)) \in Nat /\ Cardinality(Making(g)) \in Nat
          /\ Cardinality(Closing(g)) \in Nat
          /\ 0 = Cardinality(Descriptors(g)) + Cardinality(Making(g)) + Cardinality(Closing(g))
      BY <1>1, <2>3, SumOf
    <3> QED
      BY <2>3, <3>1, <3>2
  <2> QED
    BY <1>9, <2>3, <2>5, <2>8 DEF Counted
<1>12. ASSUME NEW p \in Proc, PipeBad(p) \/ PipeNoFds(p)
       PROVE  Counted'
  <2>1. /\ CallIs(p, [call[p] EXCEPT !.todo = call[p].new, !.new = <<>>])
        /\ ofile' = ofile /\ ftable' = ftable /\ pc[p] \in {"filealloc", "kalloc", "fdalloc"}
    BY <1>1, <1>12, CallEffects DEF PipeBad, PipeNoFds, filevars
  <2>2. call'[p].new = <<>> /\ call'[p].todo = call[p].new /\ call[p].todo = <<>>
    <3>1. call'[p] = [call[p] EXCEPT !.todo = call[p].new, !.new = <<>>]
      BY <1>3, <1>12, <2>1
    <3>2. call[p].todo = <<>>
      BY <1>1, <1>12, <2>1 DEF FilesToClose
    <3> QED
      BY <1>2, <1>12, <3>1, <3>2 DEF CallType
  <2>3. \A q \in Proc : q # p => call'[q] = call[q]
    BY <1>3, <1>12, <2>1
  <2> SUFFICES ASSUME NEW f \in Slot
               PROVE  ftable'[f].ref = Cardinality(Descriptors(f)') + Cardinality(Making(f)')
                                       + Cardinality(Closing(f)')
    BY DEF Counted
  <2>4. Descriptors(f)' = Descriptors(f)
    BY <1>6, <2>1
  <2>5. /\ p \in Making(f) <=> Has(call[p].new, f)
        /\ Making(f)' = Making(f) \ {p}
    BY <1>4, <1>12, <2>2, <2>3, MakingAt
  <2>6. /\ p \notin Closing(f)
        /\ Has(call[p].new, f) => Closing(f)' = Closing(f) \cup {p}
        /\ ~Has(call[p].new, f) => Closing(f)' = Closing(f) \ {p}
    BY <1>4, <1>12, <2>2, <2>3, ClosingAt
  <2>7. CASE Has(call[p].new, f)
    <3>1. /\ Cardinality(Making(f)') = Cardinality(Making(f)) - 1
          /\ Cardinality(Closing(f)') = Cardinality(Closing(f)) + 1
      BY <1>1, <2>5, <2>6, <2>7, SumOf
    <3>2. /\ Cardinality(Descriptors(f)) \in Nat /\ Cardinality(Making(f)) \in Nat
          /\ Cardinality(Closing(f)) \in Nat
          /\ ftable'[f].ref = Cardinality(Descriptors(f)) + Cardinality(Making(f))
                              + Cardinality(Closing(f))
      BY <1>1, <2>1, SumOf
    <3> QED
      BY <2>4, <3>1, <3>2
  <2>8. CASE ~Has(call[p].new, f)
    <3>1. Making(f)' = Making(f) /\ Closing(f)' = Closing(f)
      BY <2>5, <2>6, <2>8
    <3> QED
      BY <1>9, <2>1, <2>4, <3>1
  <2> QED
    BY <2>7, <2>8
<1>13. ASSUME NEW p \in Proc, PipeMake(p)
       PROVE  Counted'
  <2>1. call' = call /\ ofile' = ofile
    BY <1>13 DEF PipeMake
  <2>2. \A f \in Slot : ftable'[f].ref = ftable[f].ref
    BY <1>2, <1>13 DEF PipeMake, FileRec
  <2> QED
    BY <1>5, <1>6, <1>9, <2>1, <2>2 DEF Counted
<1>14. ASSUME NEW p \in Proc, PipeFds(p)
       PROVE  Counted'
  <2>1. /\ CallIs(p, [call[p] EXCEPT !.new = <<>>]) /\ ftable' = ftable /\ pc[p] = "fdalloc"
        /\ ofile' = [ofile EXCEPT ![p] = WithFds(p, call[p].new)]
        /\ Cardinality(Unused(p)) >= 2
    BY <1>1, <1>14, CallEffects DEF PipeFds
  <2>2. /\ call'[p].new = <<>> /\ call'[p].todo = call[p].todo
        /\ \A q \in Proc : q # p => call'[q] = call[q]
    BY <1>2, <1>3, <1>14, <2>1 DEF CallType
  <2>3. PICK s \in Seq(Slot) : s = call[p].new
    BY <1>2, <1>14
  <2>4. Len(s) = 2 /\ NoRepeat(s) /\ DOMAIN s = {1, 2}
    <3>1. Len(s) = 2 /\ NoRepeat(s)
      BY <1>1, <1>14, <2>1, <2>3 DEF NewFiles
    <3>2. DOMAIN s = 1 .. 2
      BY <2>3, <3>1
    <3> QED
      BY <3>1, <3>2
  <2>5. /\ \A i \in DOMAIN s : FdFor(p, i) \in Unused(p)
        /\ \A i, j \in DOMAIN s : FdFor(p, i) = FdFor(p, j) => i = j
    BY <1>14, <2>1, <2>4, FirstFds
  <2> SUFFICES ASSUME NEW f \in Slot
               PROVE  ftable'[f].ref = Cardinality(Descriptors(f)') + Cardinality(Making(f)')
                                       + Cardinality(Closing(f)')
    BY DEF Counted
  <2>6. Closing(f)' = Closing(f)
    BY <1>8, <2>2
  <2>7. /\ p \in Making(f) <=> Has(s, f)
        /\ Making(f)' = Making(f) \ {p}
    BY <1>4, <1>14, <2>2, <2>3, MakingAt
  <2>8. /\ \A i \in DOMAIN s : s[i] = f =>
             /\ Descriptors(f)' = Descriptors(f) \cup {<<p, FdFor(p, i)>>}
             /\ <<p, FdFor(p, i)>> \notin Descriptors(f)
        /\ (\A i \in DOMAIN s : s[i] # f) => Descriptors(f)' = Descriptors(f)
    <3>1. TypeOK /\ ofile' = [ofile EXCEPT ![p] = WithFds(p, s)]
      BY <1>1, <2>1, <2>3
    <3>2. Fresh(p, s)
      BY <2>4, <2>5 DEF Fresh
    <3>3. OneMore(p, s, f)
      BY <1>14, <3>1, <3>2, Given
    <3> QED
      BY <3>3 DEF OneMore
  <2>9. CASE Has(s, f)
    <3>1. /\ Cardinality(Making(f)') = Cardinality(Making(f)) - 1
          /\ Cardinality(Descriptors(f)') = Cardinality(Descriptors(f)) + 1
      <4>1. PICK x : /\ Descriptors(f)' = Descriptors(f) \cup {x} /\ x \notin Descriptors(f)
        BY <2>8, <2>9 DEF Has
      <4> QED
        BY <1>1, <2>7, <2>9, <4>1, SumOf
    <3>2. /\ Cardinality(Descriptors(f)) \in Nat /\ Cardinality(Making(f)) \in Nat
          /\ Cardinality(Closing(f)) \in Nat
          /\ ftable'[f].ref = Cardinality(Descriptors(f)) + Cardinality(Making(f))
                              + Cardinality(Closing(f))
      BY <1>1, <2>1, SumOf
    <3> QED
      BY <2>6, <3>1, <3>2
  <2>10. CASE ~Has(s, f)
    <3>1. Making(f)' = Making(f) /\ Descriptors(f)' = Descriptors(f)
      BY <2>7, <2>8, <2>10 DEF Has
    <3> QED
      BY <1>9, <2>1, <2>6, <3>1
  <2> QED
    BY <2>9, <2>10
<1>15. ASSUME NEW p \in Proc, SysDup(p)
       PROVE  Counted'
  <2>1. PICK d \in Fd : ofile[p][d] # None /\ DupFile(p, ofile[p][d])
    BY <1>15 DEF SysDup
  <2>2. PICK g \in Slot : /\ ftable' = [ftable EXCEPT ![g].ref = @ + 1]
                          /\ ofile' = [ofile EXCEPT ![p] = WithFds(p, <<g>>)]
                          /\ Unused(p) # {}
    <3>1. ofile[p][d] \in Slot
      BY <1>2, <1>15, <2>1
    <3> QED
      BY <2>1, <3>1 DEF DupFile
  <2>3. call' = call
    BY <1>15 DEF SysDup
  <2>4. /\ ftable'[g].ref = ftable[g].ref + 1
        /\ \A f \in Slot : f # g => ftable'[f] = ftable[f]
    BY <1>2, <2>2 DEF FileRec
  <2>5. PICK s \in Seq(Slot) : s = <<g>>
    BY <2>2
  <2>6. DOMAIN s = {1} /\ s[1] = g
    BY <2>5
  <2>7. /\ \A i \in DOMAIN s : FdFor(p, i) \in Unused(p)
        /\ \A i, j \in DOMAIN s : FdFor(p, i) = FdFor(p, j) => i = j
        /\ NoRepeat(s)
    BY <1>15, <2>2, <2>6, FirstFds DEF NoRepeat
  <2>8. \A f \in Slot :
          /\ \A i \in DOMAIN s : s[i] = f =>
               /\ Descriptors(f)' = Descriptors(f) \cup {<<p, FdFor(p, i)>>}
               /\ <<p, FdFor(p, i)>> \notin Descriptors(f)
          /\ (\A i \in DOMAIN s : s[i] # f) => Descriptors(f)' = Descriptors(f)
    <3> TAKE f \in Slot
    <3>1. TypeOK /\ ofile' = [ofile EXCEPT ![p] = WithFds(p, s)]
      BY <1>1, <2>2, <2>5
    <3>2. Fresh(p, s)
      BY <2>7 DEF Fresh
    <3>3. OneMore(p, s, f)
      BY <1>15, <3>1, <3>2, Given
    <3> QED
      BY <3>3 DEF OneMore
  <2>9. \A f \in Slot : f # g => Descriptors(f)' = Descriptors(f)
    BY <2>6, <2>8
  <2>10. ftable'[g].ref = Cardinality(Descriptors(g)') + Cardinality(Making(g)')
                          + Cardinality(Closing(g)')
    <3>1. Cardinality(Descriptors(g)') = Cardinality(Descriptors(g)) + 1
      <4>1. PICK x : /\ Descriptors(g)' = Descriptors(g) \cup {x} /\ x \notin Descriptors(g)
        BY <2>2, <2>6, <2>8
      <4> QED
        BY <1>1, <2>2, <4>1, SumOf
    <3>2. /\ Cardinality(Descriptors(g)) \in Nat /\ Cardinality(Making(g)) \in Nat
          /\ Cardinality(Closing(g)) \in Nat
          /\ ftable[g].ref = Cardinality(Descriptors(g)) + Cardinality(Making(g))
                             + Cardinality(Closing(g))
      BY <1>1, <2>2, SumOf
    <3>3. Making(g)' = Making(g) /\ Closing(g)' = Closing(g)
      BY <1>5, <2>3
    <3> QED
      BY <2>4, <3>1, <3>2, <3>3
  <2> QED
    BY <1>5, <1>9, <2>3, <2>4, <2>9, <2>10 DEF Counted
<1>16. ASSUME NEW p \in Proc, Fork(p)
       PROVE  Counted'
  <2> DEFINE fds(f) == {d \in Fd : ofile[p][d] = f}
  <2>1. PICK c \in Proc : pc[c] = "unused" /\ call' = call /\ ForkFiles(p, c)
    BY <1>16 DEF Fork
  <2>2. /\ ofile' = [ofile EXCEPT ![c] = ofile[p]]
        /\ ftable' = [f \in Slot |-> [ftable[f] EXCEPT !.ref = @ + Cardinality(fds(f))]]
    BY <2>1 DEF ForkFiles
  <2>3. \A d \in Fd : ofile[c][d] = None
    BY <1>1, <2>1 DEF UnusedIsEmpty
  <2> SUFFICES ASSUME NEW f \in Slot
               PROVE  ftable'[f].ref = Cardinality(Descriptors(f)') + Cardinality(Making(f)')
                                       + Cardinality(Closing(f)')
    BY DEF Counted
  <2>4. \A q \in Proc : \A d \in Fd : <<q, d>> \in Descriptors(f)' <=>
           <<q, d>> \in Descriptors(f) \/ (q = c /\ d \in fds(f))
    <3> TAKE q \in Proc
    <3> TAKE d \in Fd
    <3>1. ofile'[q][d] = IF q = c THEN ofile[p][d] ELSE ofile[q][d]
      BY <1>2, <2>2
    <3>2. ofile[c][d] # f
      BY <1>2, <2>3
    <3> QED
      BY <3>1, <3>2 DEF Descriptors
  <2>5. Descriptors(f)' = Descriptors(f) \cup ({c} \X fds(f))
    <3>1. Descriptors(f) \subseteq Proc \X Fd /\ Descriptors(f)' \subseteq Proc \X Fd
          /\ {c} \X fds(f) \subseteq Proc \X Fd
      BY <2>1 DEF Descriptors
    <3>2. \A x \in Proc \X Fd : x \in Descriptors(f)' <=> x \in Descriptors(f) \cup ({c} \X fds(f))
      BY <2>4
    <3> QED
      BY <3>1, <3>2
  <2>6. Descriptors(f) \cap ({c} \X fds(f)) = {}
    <3>1. \A d \in Fd : <<c, d>> \notin Descriptors(f)
      BY <1>2, <2>3 DEF Descriptors
    <3> QED
      BY <3>1
  <2>7. IsFiniteSet(fds(f)) /\ Cardinality(fds(f)) \in Nat
    <3>1. IsFiniteSet(Fd)
      BY FS_Interval, FileAssumption DEF Fd
    <3>2. fds(f) \subseteq Fd
      OBVIOUS
    <3> QED
      BY <3>1, <3>2, FS_Subset, FS_CardinalityType
  <2> HIDE DEF fds
  <2>8. IsFiniteSet({c} \X fds(f)) /\ Cardinality({c} \X fds(f)) = Cardinality(fds(f))
    <3>1. IsFiniteSet({c}) /\ Cardinality({c}) = 1
      BY FS_Singleton
    <3>2. /\ IsFiniteSet({c} \X fds(f))
          /\ Cardinality({c} \X fds(f)) = Cardinality({c}) * Cardinality(fds(f))
      BY <2>7, <3>1, FS_Product
    <3> QED
      BY <2>7, <3>1, <3>2
  <2>9. Cardinality(Descriptors(f)') = Cardinality(Descriptors(f)) + Cardinality(fds(f))
    <3>1. IsFiniteSet(Descriptors(f)) /\ Cardinality(Descriptors(f)) \in Nat
      BY Counts
    <3>2. Cardinality(Descriptors(f) \cup ({c} \X fds(f))) =
            Cardinality(Descriptors(f)) + Cardinality({c} \X fds(f))
              - Cardinality(Descriptors(f) \cap ({c} \X fds(f)))
      BY <2>8, <3>1, FS_Union
    <3>3. Cardinality(Descriptors(f) \cap ({c} \X fds(f))) = 0
      BY <2>6, FS_EmptySet
    <3> QED
      BY <2>5, <2>7, <2>8, <3>1, <3>2, <3>3
  <2>10. ftable'[f].ref = ftable[f].ref + Cardinality(fds(f))
    BY <1>2, <2>2 DEF FileRec
  <2>11. Making(f)' = Making(f) /\ Closing(f)' = Closing(f)
    BY <1>5, <2>1
  <2>12. /\ Cardinality(Descriptors(f)) \in Nat /\ Cardinality(Making(f)) \in Nat
         /\ Cardinality(Closing(f)) \in Nat
         /\ ftable[f].ref = Cardinality(Descriptors(f)) + Cardinality(Making(f))
                            + Cardinality(Closing(f))
    BY <1>1, SumOf
  <2> QED
    BY <2>7, <2>9, <2>10, <2>11, <2>12
<1>17. ASSUME NEW p \in Proc, NEW d \in Fd, CloseFd(p, d), pc[p] = "user"
       PROVE  Counted'
  <2>1. /\ CallIs(p, [call[p] EXCEPT !.todo = <<ofile[p][d]>>]) /\ ftable' = ftable
        /\ ofile' = [ofile EXCEPT ![p][d] = None] /\ ofile[p][d] # None
    BY <1>1, <1>17, CallEffects DEF CloseFd
  <2>2. PICK g \in Slot : g = ofile[p][d]
    BY <1>2, <1>17, <2>1
  <2>3. /\ call'[p].new = call[p].new /\ call'[p].todo = <<g>> /\ call[p].todo = <<>>
        /\ \A q \in Proc : q # p => call'[q] = call[q]
    <3>1. call[p].todo = <<>>
      BY <1>1, <1>17 DEF FilesToClose
    <3> QED
      BY <1>2, <1>3, <1>17, <2>1, <2>2, <3>1 DEF CallType
  <2>4. \A f : Has(<<g>>, f) <=> f = g
    BY DEF Has
  <2>5. \A f \in Slot : /\ Making(f)' = Making(f)
                        /\ f # g => Closing(f)' = Closing(f)
                        /\ f = g => Closing(f)' = Closing(f) \cup {p} /\ p \notin Closing(f)
    <3> TAKE f \in Slot
    <3>1. Making(f)' = Making(f)
      BY <1>7, <2>3
    <3>2. /\ p \notin Closing(f)
          /\ Has(call'[p].todo, f) => Closing(f)' = Closing(f) \cup {p}
          /\ ~Has(call'[p].todo, f) => Closing(f)' = Closing(f) \ {p}
      BY <1>4, <1>17, <2>3, ClosingAt
    <3>3. Has(call'[p].todo, f) <=> f = g
      BY <2>3, <2>4
    <3> QED
      BY <3>1, <3>2, <3>3
  <2>6. \A f \in Slot : /\ f # g => Descriptors(f)' = Descriptors(f)
                        /\ f = g => Descriptors(f)' = Descriptors(f) \ {<<p, d>>}
    <3> TAKE f \in Slot
    <3>1. \A q \in Proc : \A e \in Fd :
             ofile'[q][e] = IF q = p /\ e = d THEN None ELSE ofile[q][e]
      BY <1>2, <2>1
    <3>2. \A x \in Proc \X Fd : /\ f # g => (x \in Descriptors(f)' <=> x \in Descriptors(f))
                                /\ f = g => (x \in Descriptors(f)' <=>
                                               x \in Descriptors(f) \ {<<p, d>>})
      BY <1>2, <2>2, <3>1 DEF Descriptors
    <3>3. Descriptors(f) \subseteq Proc \X Fd /\ Descriptors(f)' \subseteq Proc \X Fd
      BY DEF Descriptors
    <3> QED
      BY <3>2, <3>3
  <2>7. <<p, d>> \in Descriptors(g)
    BY <1>17, <2>2 DEF Descriptors
  <2>8. ftable'[g].ref = Cardinality(Descriptors(g)') + Cardinality(Making(g)')
                         + Cardinality(Closing(g)')
    <3>1. /\ Cardinality(Descriptors(g) \ {<<p, d>>}) = Cardinality(Descriptors(g)) - 1
          /\ p \notin Closing(g) => Cardinality(Closing(g) \cup {p}) = Cardinality(Closing(g)) + 1
      BY <1>1, <2>2, <2>7, SumOf
    <3>2. /\ Cardinality(Descriptors(g)') = Cardinality(Descriptors(g)) - 1
          /\ Cardinality(Closing(g)') = Cardinality(Closing(g)) + 1
          /\ Making(g)' = Making(g)
      BY <2>2, <2>5, <2>6, <3>1
    <3>3. /\ Cardinality(Descriptors(g)) \in Nat /\ Cardinality(Making(g)) \in Nat
          /\ Cardinality(Closing(g)) \in Nat
          /\ ftable'[g].ref = Cardinality(Descriptors(g)) + Cardinality(Making(g))
                              + Cardinality(Closing(g))
      BY <1>1, <2>1, <2>2, SumOf
    <3> QED
      BY <3>2, <3>3
  <2> QED
    BY <1>9, <2>1, <2>5, <2>6, <2>8 DEF Counted
<1>18. ASSUME NEW p \in Proc, Fileclose(p)
       PROVE  Counted'
  <2>1. PICK g \in Slot :
           /\ g = Head(call[p].todo) /\ p \in Closing(g)
           /\ call[p].todo \in Seq(Slot) /\ call[p].todo # <<>>
           /\ CallIs(p, [call[p] EXCEPT !.todo = Tail(@),
                            !.closing = IF ftable[g].ref = 1 /\ ftable[g].type = "PIPE"
                                        THEN EndOf(ftable[g].writable) ELSE @])
    BY <1>1, <1>18, CloseCall
  <2>2. DropFile(g) /\ ofile' = ofile
    BY <1>18, <2>1 DEF Fileclose
  <2>3. /\ call'[p].new = call[p].new /\ call'[p].todo = Tail(call[p].todo)
        /\ \A q \in Proc : q # p => call'[q] = call[q]
    <3>1. /\ call'[p] = [call[p] EXCEPT !.todo = Tail(@),
                             !.closing = IF ftable[g].ref = 1 /\ ftable[g].type = "PIPE"
                                         THEN EndOf(ftable[g].writable) ELSE @]
          /\ \A q \in Proc : q # p => call'[q] = call[q]
      BY <1>3, <1>18, <2>1
    <3> QED
      BY <1>2, <1>18, <3>1 DEF CallType
  <2>4. \A f \in Slot : /\ f # g => (Has(Tail(call[p].todo), f) <=> Has(call[p].todo, f))
                        /\ ~Has(Tail(call[p].todo), g)
    <3> DEFINE s == call[p].todo
    <3>1. s \in Seq(Slot) /\ s # <<>> /\ NoRepeat(s) /\ g = s[1]
      BY <1>1, <1>18, <2>1 DEF FilesToClose
    <3> HIDE DEF s
    <3>2. /\ \A i \in DOMAIN Tail(s) : i + 1 \in DOMAIN s /\ Tail(s)[i] = s[i + 1] /\ i + 1 # 1
          /\ \A i \in DOMAIN s : i # 1 => i - 1 \in DOMAIN Tail(s) /\ Tail(s)[i - 1] = s[i]
          /\ 1 \in DOMAIN s
      BY <3>1
    <3>3. ~Has(Tail(s), g)
      BY <3>1, <3>2 DEF Has, NoRepeat
    <3>4. ASSUME NEW f \in Slot, f # g
          PROVE  Has(Tail(s), f) <=> Has(s, f)
      <4>1. Has(Tail(s), f) => Has(s, f)
        BY <3>2 DEF Has
      <4>2. ASSUME NEW i \in DOMAIN s, s[i] = f
            PROVE  Has(Tail(s), f)
        <5>1. i # 1
          BY <3>1, <3>4, <4>2
        <5> QED
          BY <3>2, <4>2, <5>1 DEF Has
      <4> QED
        BY <4>1, <4>2 DEF Has
    <3> QED
      BY <3>3, <3>4 DEF s
  <2>5. \A f \in Slot : /\ Making(f)' = Making(f) /\ Descriptors(f)' = Descriptors(f)
                        /\ f # g => Closing(f)' = Closing(f)
                        /\ f = g => Closing(f)' = Closing(f) \ {p}
    <3> TAKE f \in Slot
    <3>1. Making(f)' = Making(f) /\ Descriptors(f)' = Descriptors(f)
      BY <1>6, <1>7, <2>2, <2>3
    <3>2. /\ p \in Closing(f) <=> Has(call[p].todo, f)
          /\ Has(call'[p].todo, f) => Closing(f)' = Closing(f) \cup {p}
          /\ ~Has(call'[p].todo, f) => Closing(f)' = Closing(f) \ {p}
      BY <1>18, <2>3, ClosingAt
    <3>3. /\ f # g => (Has(call'[p].todo, f) <=> p \in Closing(f))
          /\ ~Has(call'[p].todo, g)
      BY <2>3, <2>4, <3>2
    <3> QED
      BY <3>1, <3>2, <3>3
  <2>6. /\ \A f \in Slot : f # g => ftable'[f] = ftable[f]
        /\ ftable'[g].ref = ftable[g].ref - 1
    <3>1. ftable[g].ref = 1 => ftable' = [ftable EXCEPT ![g] = Closed]
      BY <2>2 DEF DropFile
    <3>2. ftable[g].ref # 1 => ftable' = [ftable EXCEPT ![g].ref = @ - 1]
      BY <2>2 DEF DropFile
    <3> QED
      BY <1>2, <3>1, <3>2 DEF Closed, FileRec
  <2>7. ftable'[g].ref = Cardinality(Descriptors(g)') + Cardinality(Making(g)')
                         + Cardinality(Closing(g)')
    <3>1. Cardinality(Closing(g)') = Cardinality(Closing(g)) - 1
      BY <1>1, <2>1, <2>5, SumOf
    <3>2. Making(g)' = Making(g) /\ Descriptors(g)' = Descriptors(g)
      BY <2>5
    <3>3. /\ Cardinality(Descriptors(g)) \in Nat /\ Cardinality(Making(g)) \in Nat
          /\ Cardinality(Closing(g)) \in Nat
          /\ ftable[g].ref = Cardinality(Descriptors(g)) + Cardinality(Making(g))
                             + Cardinality(Closing(g))
      BY <1>1, SumOf
    <3> QED
      BY <2>6, <3>1, <3>2, <3>3
  <2> QED
    BY <1>9, <2>5, <2>6, <2>7 DEF Counted
<1>19. ASSUME NEW p \in Proc, Pipeclose(p)
       PROVE  Counted'
  <2>1. CallIs(p, [call[p] EXCEPT !.closing = "none"]) /\ ofile' = ofile /\ ftable' = ftable
    BY <1>1, <1>19, CallEffects DEF Pipeclose, filevars
  <2>2. \A q \in Proc : call'[q].new = call[q].new /\ call'[q].todo = call[q].todo
    <3>1. /\ call'[p] = [call[p] EXCEPT !.closing = "none"]
          /\ \A q \in Proc : q # p => call'[q] = call[q]
      BY <1>3, <1>19, <2>1
    <3>2. call'[p].new = call[p].new /\ call'[p].todo = call[p].todo
      BY <1>2, <1>19, <3>1 DEF CallType
    <3> QED
      BY <3>1, <3>2
  <2> QED
    BY <1>6, <1>7, <1>8, <1>9, <2>1, <2>2 DEF Counted
<1>20. ASSUME NEW p \in Proc, RWStep(p)
       PROVE  Counted'
  <2>1. /\ ofile' = ofile /\ ftable' = ftable
        /\ \A q \in Proc : call'[q].new = call[q].new /\ call'[q].todo = call[q].todo
    BY <1>1, <1>20, RWSteps
  <2> QED
    BY <1>6, <1>7, <1>8, <1>9, <2>1 DEF Counted
<1>21. ASSUME NEW p \in Proc, SysPipe(p) \/ ExitDone(p)
       PROVE  Counted'
  <2>1. ofile' = ofile /\ ftable' = ftable /\ call' = call
    BY <1>21 DEF SysPipe, ExitDone, filevars
  <2> QED
    BY <1>5, <1>6, <1>9, <2>1 DEF Counted
<1>22. CASE UNCHANGED vars
  <2>1. ofile' = ofile /\ ftable' = ftable /\ call' = call
    BY <1>22 DEF vars, filevars
  <2> QED
    BY <1>5, <1>6, <1>9, <2>1 DEF Counted
<1> QED
  BY <1>11, <1>12, <1>13, <1>14, <1>15, <1>16, <1>17, <1>18, <1>19, <1>20, <1>21, <1>22, Steps

(***************************************************************************)
(* The ends of the pipe.                                                   *)
(***************************************************************************)
\* The ends that a process is closing.
Shutting(p, w) == call[p].closing = EndOf(w)

LEMMA EndsIs ==
  Ends <=> /\ \A w \in BOOLEAN :
                 /\ (IF w THEN writeopen ELSE readopen) <=>
                       (\E f \in Slot : IsEnd(f, w)) \/ (\E p \in Proc : Shutting(p, w))
                 /\ \A f, g \in Slot : IsEnd(f, w) /\ IsEnd(g, w) => f = g
                 /\ \A p, q \in Proc : Shutting(p, w) /\ Shutting(q, w) => p = q
                 /\ \A p \in Proc, f \in Slot : ~(Shutting(p, w) /\ IsEnd(f, w))
           /\ page <=> readopen \/ writeopen
BY DEF Ends, EndsOpen, PageKept, OneEnd, Shutting

LEMMA EndsIsNext ==
  Ends' <=> /\ \A w \in BOOLEAN :
                  /\ (IF w THEN writeopen' ELSE readopen') <=>
                        (\E f \in Slot : IsEnd(f, w)') \/ (\E p \in Proc : Shutting(p, w)')
                  /\ \A f, g \in Slot : IsEnd(f, w)' /\ IsEnd(g, w)' => f = g
                  /\ \A p, q \in Proc : Shutting(p, w)' /\ Shutting(q, w)' => p = q
                  /\ \A p \in Proc, f \in Slot : ~(Shutting(p, w)' /\ IsEnd(f, w)')
            /\ page' <=> readopen' \/ writeopen'
BY DEF Ends, EndsOpen, PageKept, OneEnd, Shutting

LEMMA EndsStay ==
  ASSUME Ends, UNCHANGED <<readopen, writeopen, page>>,
         \A f \in Slot : ftable'[f].type = ftable[f].type /\
           ftable'[f].writable = ftable[f].writable,
         \A q \in Proc : call'[q].closing = call[q].closing
  PROVE  Ends'
<1>1. \A f \in Slot : \A w : IsEnd(f, w)' <=> IsEnd(f, w)
  BY DEF IsEnd
<1>2. \A p \in Proc : \A w : Shutting(p, w)' <=> Shutting(p, w)
  BY DEF Shutting, EndOf
<1> QED
  BY <1>1, <1>2, EndsIs, EndsIsNext

LEMMA NextEnds ==
  ASSUME IInv, [Next]_vars
  PROVE  Ends'
<1>1. /\ TypeOK /\ Calls /\ Ends
      /\ \A p \in Proc : NewFiles(p) /\ FilesToClose(p)
  BY DEF IInv, Calls
<1>2. /\ ftable \in [Slot -> FileRec]
      /\ pc \in [Proc -> Labels] /\ call \in [Proc -> CallType]
      /\ \A p \in Proc : call[p].new \in Seq(Slot) /\ call[p].todo \in Seq(Slot)
      /\ readopen \in BOOLEAN /\ writeopen \in BOOLEAN /\ page \in BOOLEAN
  BY <1>1, Types DEF CallType, FileRec, TypeOK
<1>3. \A p, q \in Proc : \A c : CallIs(p, c) =>
         call'[p] = c /\ (q # p => call'[q] = call[q])
  BY <1>1, CallAt
<1>4. EndOf(TRUE) = "write" /\ EndOf(FALSE) = "read"
  BY DEF EndOf
<1>5. /\ UNCHANGED <<readopen, writeopen, page>>
      /\ \A f \in Slot : /\ ftable'[f].type = ftable[f].type
                         /\ ftable'[f].writable = ftable[f].writable
      /\ \A q \in Proc : call'[q].closing = call[q].closing
      => Ends'
  BY <1>1, EndsStay
<1>6. ASSUME NEW p \in Proc, PipeFile(p)
      PROVE  Ends'
  <2>1. PICK g \in Slot : /\ Filealloc(g) /\ call' = [call EXCEPT ![p].new = Append(@, g)]
                          /\ UNCHANGED <<readopen, writeopen, page>>
    BY <1>6 DEF PipeFile, pipe
  <2>2. \A q \in Proc : call'[q].closing = call[q].closing
    BY <1>2, <2>1 DEF CallType
  <2>3. \A f \in Slot : /\ ftable'[f].type = ftable[f].type
                        /\ ftable'[f].writable = ftable[f].writable
    BY <1>2, <2>1 DEF Filealloc, FileRec
  <2> QED
    BY <1>5, <2>1, <2>2, <2>3
<1>7. ASSUME NEW p \in Proc, PipeBad(p) \/ PipeNoFds(p)
      PROVE  Ends'
  <2>1. /\ CallIs(p, [call[p] EXCEPT !.todo = call[p].new, !.new = <<>>])
        /\ ftable' = ftable /\ UNCHANGED <<readopen, writeopen, page>>
    BY <1>1, <1>7, CallEffects DEF PipeBad, PipeNoFds, filevars, pipe
  <2>2. \A q \in Proc : call'[q].closing = call[q].closing
    BY <1>2, <1>7, <2>1 DEF CallType, CallIs
  <2> QED
    BY <1>5, <2>1, <2>2
<1>8. ASSUME NEW p \in Proc, PipeMake(p)
      PROVE  Ends'
  <2>1. /\ ~page /\ page' /\ readopen' /\ writeopen' /\ call' = call /\ pc[p] = "kalloc"
    BY <1>8 DEF PipeMake
  <2>2. call[p].new \in Seq(Slot) /\ Len(call[p].new) = 2 /\ NoRepeat(call[p].new)
    BY <1>1, <1>2, <1>8, <2>1 DEF NewFiles
  <2>3. PICK g \in Slot, h \in Slot : g = call[p].new[1] /\ h = call[p].new[2] /\ g # h
    <3>1. 1 \in DOMAIN call[p].new /\ 2 \in DOMAIN call[p].new
      BY <2>2
    <3> QED
      BY <2>2, <3>1 DEF NoRepeat
  <2>4. ftable' = [ftable EXCEPT ![g] = [@ EXCEPT !.type = "PIPE", !.writable = FALSE],
                                 ![h] = [@ EXCEPT !.type = "PIPE", !.writable = TRUE]]
    BY <1>8, <2>3 DEF PipeMake
  <2>5. /\ ftable'[g].type = "PIPE" /\ ftable'[g].writable = FALSE
        /\ ftable'[h].type = "PIPE" /\ ftable'[h].writable = TRUE
        /\ \A f \in Slot : f # g /\ f # h => ftable'[f] = ftable[f]
    <3>1. /\ ftable'[g] = [ftable[g] EXCEPT !.type = "PIPE", !.writable = FALSE]
          /\ ftable'[h] = [ftable[h] EXCEPT !.type = "PIPE", !.writable = TRUE]
          /\ \A f \in Slot : f # g /\ f # h => ftable'[f] = ftable[f]
      BY <1>2, <2>3, <2>4
    <3>2. ftable[g] \in FileRec /\ ftable[h] \in FileRec
      BY <1>2
    <3> QED
      BY <3>1, <3>2 DEF FileRec
  <2>6. ~readopen /\ ~writeopen
    BY <1>1, <2>1, EndsIs
  <2>7. \A w \in BOOLEAN : (\A f \in Slot : ~IsEnd(f, w)) /\ (\A q \in Proc : ~Shutting(q, w))
    BY <1>1, <2>6, EndsIs
  <2>8. \A f \in Slot : \A w \in BOOLEAN : IsEnd(f, w)' <=> f = IF w THEN h ELSE g
    BY <2>3, <2>5, <2>7 DEF IsEnd
  <2>9. \A q \in Proc : \A w \in BOOLEAN : ~Shutting(q, w)'
    BY <2>1, <2>7 DEF Shutting, EndOf
  <2> QED
    BY <2>1, <2>3, <2>8, <2>9, EndsIsNext
<1>9. ASSUME NEW p \in Proc, PipeFds(p)
      PROVE  Ends'
  <2>1. /\ CallIs(p, [call[p] EXCEPT !.new = <<>>])
        /\ ftable' = ftable /\ UNCHANGED <<readopen, writeopen, page>>
    BY <1>1, <1>9, CallEffects DEF PipeFds, filevars, pipe
  <2>2. \A q \in Proc : call'[q].closing = call[q].closing
    BY <1>2, <1>9, <2>1 DEF CallType, CallIs
  <2> QED
    BY <1>5, <2>1, <2>2
<1>10. ASSUME NEW p \in Proc, SysDup(p) \/ Fork(p)
       PROVE  Ends'
  <2>1. call' = call /\ UNCHANGED <<readopen, writeopen, page>>
    BY <1>10 DEF SysDup, Fork, pipe
  <2>2. \A f \in Slot : /\ ftable'[f].type = ftable[f].type
                        /\ ftable'[f].writable = ftable[f].writable
    <3>1. CASE SysDup(p)
      BY <1>2, <3>1 DEF SysDup, DupFile, FileRec
    <3>2. CASE Fork(p)
      BY <1>2, <3>2 DEF Fork, ForkFiles, FileRec
    <3> QED
      BY <1>10, <3>1, <3>2
  <2> QED
    BY <1>5, <2>1, <2>2
<1>11. ASSUME NEW p \in Proc, NEW d \in Fd, CloseFd(p, d)
       PROVE  Ends'
  <2>1. /\ CallIs(p, [call[p] EXCEPT !.todo = <<ofile[p][d]>>])
        /\ ftable' = ftable /\ UNCHANGED <<readopen, writeopen, page>>
    BY <1>1, <1>11, CallEffects DEF CloseFd, filevars, pipe
  <2>2. \A q \in Proc : call'[q].closing = call[q].closing
    BY <1>2, <1>11, <2>1 DEF CallType, CallIs
  <2> QED
    BY <1>5, <2>1, <2>2
<1>12. ASSUME NEW p \in Proc, Fileclose(p)
       PROVE  Ends'
  <2>1. PICK g \in Slot :
           /\ g = Head(call[p].todo)
           /\ CallIs(p, [call[p] EXCEPT !.todo = Tail(@),
                            !.closing = IF ftable[g].ref = 1 /\ ftable[g].type = "PIPE"
                                        THEN EndOf(ftable[g].writable) ELSE @])
    BY <1>1, <1>12, CloseCall
  <2>2. DropFile(g) /\ UNCHANGED <<readopen, writeopen, page>> /\ pc[p] = "close"
    BY <1>12, <2>1 DEF Fileclose, pipe
  <2>3. call[p].closing = "none"
    BY <1>1, <1>12, <2>2 DEF FilesToClose
  <2>4. /\ call'[p].closing = IF ftable[g].ref = 1 /\ ftable[g].type = "PIPE"
                              THEN EndOf(ftable[g].writable) ELSE call[p].closing
        /\ \A q \in Proc : q # p => call'[q] = call[q]
    <3>1. /\ call'[p] = [call[p] EXCEPT !.todo = Tail(@),
                             !.closing = IF ftable[g].ref = 1 /\ ftable[g].type = "PIPE"
                                         THEN EndOf(ftable[g].writable) ELSE @]
          /\ \A q \in Proc : q # p => call'[q] = call[q]
      BY <1>3, <1>12, <2>1
    <3> QED
      BY <1>2, <1>12, <3>1 DEF CallType
  <2>5. \A f \in Slot : f # g => ftable'[f] = ftable[f]
    BY <1>2, <2>2 DEF DropFile
  <2>6. CASE ~(ftable[g].ref = 1 /\ ftable[g].type = "PIPE")
    <3>1. \A q \in Proc : call'[q].closing = call[q].closing
      BY <2>4, <2>6
    <3>2. CASE ftable[g].ref # 1
      <4>1. ftable' = [ftable EXCEPT ![g].ref = @ - 1]
        BY <2>2, <3>2 DEF DropFile
      <4>2. \A f \in Slot : /\ ftable'[f].type = ftable[f].type
                            /\ ftable'[f].writable = ftable[f].writable
        BY <1>2, <4>1 DEF FileRec
      <4> QED
        BY <1>5, <2>2, <3>1, <4>2
    <3>3. CASE ftable[g].ref = 1
      <4>1. ftable[g].type # "PIPE" /\ ftable'[g].type # "PIPE"
        BY <1>2, <2>2, <2>6, <3>3 DEF DropFile, Closed
      <4>2. \A f \in Slot : \A w \in BOOLEAN : IsEnd(f, w)' <=> IsEnd(f, w)
        BY <2>5, <4>1 DEF IsEnd
      <4>3. \A q \in Proc : \A w \in BOOLEAN : Shutting(q, w)' <=> Shutting(q, w)
        BY <3>1 DEF Shutting, EndOf
      <4> QED
        BY <1>1, <2>2, <4>2, <4>3, EndsIs, EndsIsNext
    <3> QED
      BY <3>2, <3>3
  <2>7. CASE ftable[g].ref = 1 /\ ftable[g].type = "PIPE"
    <3>1. PICK v \in BOOLEAN : v = ftable[g].writable
      BY <1>2 DEF FileRec
    <3>2. IsEnd(g, v) /\ \A w \in BOOLEAN : IsEnd(g, w) => w = v
      BY <2>7, <3>1 DEF IsEnd
    <3>3. ftable'[g].type # "PIPE"
      BY <1>2, <2>2, <2>7 DEF DropFile, Closed
    <3>4. \A f \in Slot : \A w \in BOOLEAN : IsEnd(f, w)' <=> IsEnd(f, w) /\ f # g
      BY <2>5, <3>3 DEF IsEnd
    <3>5. \A w \in BOOLEAN : ~Shutting(p, w) /\ (Shutting(p, w)' <=> w = v)
      BY <1>4, <2>3, <2>4, <2>7, <3>1 DEF Shutting
    <3>6. \A q \in Proc : \A w \in BOOLEAN : q # p => (Shutting(q, w)' <=> Shutting(q, w))
      BY <2>4 DEF Shutting, EndOf
    <3>7. /\ \A w \in BOOLEAN :
                (\E f \in Slot : IsEnd(f, w)) \/ (\E q \in Proc : Shutting(q, w)) <=>
                (\E f \in Slot : IsEnd(f, w)') \/ (\E q \in Proc : Shutting(q, w)')
          /\ \A w \in BOOLEAN : \A f, h \in Slot : IsEnd(f, w)' /\ IsEnd(h, w)' => f = h
          /\ \A w \in BOOLEAN : \A q, r \in Proc : Shutting(q, w)' /\ Shutting(r, w)' => q = r
          /\ \A w \in BOOLEAN : \A q \in Proc, f \in Slot : ~(Shutting(q, w)' /\ IsEnd(f, w)')
      <4> SUFFICES ASSUME NEW w \in BOOLEAN
                   PROVE  /\ (\E f \in Slot : IsEnd(f, w)) \/ (\E q \in Proc : Shutting(q, w)) <=>
                             (\E f \in Slot : IsEnd(f, w)') \/ (\E q \in Proc : Shutting(q, w)')
                          /\ \A f, h \in Slot : IsEnd(f, w)' /\ IsEnd(h, w)' => f = h
                          /\ \A q, r \in Proc : Shutting(q, w)' /\ Shutting(r, w)' => q = r
                          /\ \A q \in Proc, f \in Slot : ~(Shutting(q, w)' /\ IsEnd(f, w)')
        OBVIOUS
      <4>1. /\ \A f, h \in Slot : IsEnd(f, w) /\ IsEnd(h, w) => f = h
            /\ \A q, r \in Proc : Shutting(q, w) /\ Shutting(r, w) => q = r
            /\ \A q \in Proc, f \in Slot : ~(Shutting(q, w) /\ IsEnd(f, w))
        BY <1>1, EndsIs
      <4>2. CASE w = v
        <5>1. \A q \in Proc : ~Shutting(q, w)
          BY <3>2, <4>1, <4>2
        <5>2. \A f \in Slot : ~IsEnd(f, w)'
          BY <3>2, <3>4, <4>1, <4>2
        <5>3. \A q \in Proc : Shutting(q, w)' <=> q = p
          BY <3>5, <3>6, <4>2, <5>1
        <5> QED
          BY <1>12, <3>2, <4>2, <5>2, <5>3
      <4>3. CASE w # v
        <5>1. \A f \in Slot : IsEnd(f, w)' <=> IsEnd(f, w)
          BY <3>2, <3>4, <4>3
        <5>2. \A q \in Proc : Shutting(q, w)' <=> Shutting(q, w)
          BY <3>5, <3>6, <4>3
        <5> QED
          BY <4>1, <5>1, <5>2
      <4> QED
        BY <4>2, <4>3
    <3> QED
      BY <1>1, <2>2, <3>7, EndsIs, EndsIsNext
  <2> QED
    BY <2>6, <2>7
<1>13. ASSUME NEW p \in Proc, Pipeclose(p)
       PROVE  Ends'
  <2>1. /\ CallIs(p, [call[p] EXCEPT !.closing = "none"]) /\ ftable' = ftable
        /\ pc[p] = "pipeclose"
    BY <1>1, <1>13, CallEffects DEF Pipeclose, filevars
  <2>2. PICK v \in BOOLEAN : v <=> call[p].closing = "write"
    OBVIOUS
  <2>3. Shutting(p, v) /\ \A w \in BOOLEAN : Shutting(p, w) => w = v
    <3>1. call[p].closing \in {"read", "write"}
      BY <1>1, <1>2, <1>13, <2>1 DEF FilesToClose, CallType
    <3> QED
      BY <1>4, <2>2, <3>1 DEF Shutting
  <2>4. /\ writeopen' <=> writeopen /\ ~v
        /\ readopen' <=> readopen /\ v
        /\ page' <=> readopen' \/ writeopen'
    BY <1>13, <2>2 DEF Pipeclose
  <2>5. call'[p].closing = "none" /\ \A q \in Proc : q # p => call'[q] = call[q]
    <3>1. /\ call'[p] = [call[p] EXCEPT !.closing = "none"]
          /\ \A q \in Proc : q # p => call'[q] = call[q]
      BY <1>3, <1>13, <2>1
    <3> QED
      BY <1>2, <1>13, <3>1 DEF CallType
  <2>6. \A w \in BOOLEAN : ~Shutting(p, w)'
    BY <2>5 DEF Shutting, EndOf
  <2>7. \A q \in Proc : \A w \in BOOLEAN : q # p => (Shutting(q, w)' <=> Shutting(q, w))
    BY <2>5 DEF Shutting, EndOf
  <2>8. \A f \in Slot : \A w \in BOOLEAN : IsEnd(f, w)' <=> IsEnd(f, w)
    BY <2>1 DEF IsEnd
  <2>9. ASSUME NEW w \in BOOLEAN
        PROVE  /\ (IF w THEN writeopen' ELSE readopen') <=>
                     (\E f \in Slot : IsEnd(f, w)') \/ (\E q \in Proc : Shutting(q, w)')
               /\ \A f, g \in Slot : IsEnd(f, w)' /\ IsEnd(g, w)' => f = g
               /\ \A r, q \in Proc : Shutting(r, w)' /\ Shutting(q, w)' => r = q
               /\ \A r \in Proc, f \in Slot : ~(Shutting(r, w)' /\ IsEnd(f, w)')
    <3>1. /\ (IF w THEN writeopen ELSE readopen) <=>
                (\E f \in Slot : IsEnd(f, w)) \/ (\E q \in Proc : Shutting(q, w))
          /\ \A f, g \in Slot : IsEnd(f, w) /\ IsEnd(g, w) => f = g
          /\ \A r, q \in Proc : Shutting(r, w) /\ Shutting(q, w) => r = q
          /\ \A r \in Proc, f \in Slot : ~(Shutting(r, w) /\ IsEnd(f, w))
      BY <1>1, EndsIs
    <3>2. CASE w = v
      <4>1. \A q \in Proc : ~Shutting(q, w)'
        BY <1>13, <2>3, <2>6, <2>7, <3>1, <3>2
      <4>2. \A f \in Slot : ~IsEnd(f, w)'
        BY <1>13, <2>3, <2>8, <3>1, <3>2
      <4>3. ~(IF w THEN writeopen' ELSE readopen')
        BY <2>4, <3>2
      <4> QED
        BY <4>1, <4>2, <4>3
    <3>3. CASE w # v
      <4>1. \A q \in Proc : Shutting(q, w)' <=> Shutting(q, w)
        BY <2>3, <2>6, <2>7, <3>3
      <4>2. (IF w THEN writeopen' ELSE readopen') <=> (IF w THEN writeopen ELSE readopen)
        BY <2>4, <3>3
      <4> QED
        BY <2>8, <3>1, <4>1, <4>2
    <3> QED
      BY <3>2, <3>3
  <2> QED
    BY <2>4, <2>9, EndsIsNext
<1>14. ASSUME NEW p \in Proc, RWStep(p)
       PROVE  Ends'
  BY <1>1, <1>5, <1>14, RWSteps
<1>15. ASSUME NEW p \in Proc, SysPipe(p) \/ ExitDone(p)
       PROVE  Ends'
  BY <1>5, <1>15 DEF SysPipe, ExitDone, filevars, pipe
<1>16. CASE UNCHANGED vars
  BY <1>5, <1>16 DEF vars, filevars, pipe
<1> QED
  BY <1>6, <1>7, <1>8, <1>9, <1>10, <1>11, <1>12, <1>13, <1>14, <1>15, <1>16, Steps

(***************************************************************************)
(* The lock of the pipe.                                                   *)
(***************************************************************************)
\* The processes that are about to go to sleep, with the lock held.
AtSleep(p) == pc[p] \in {"readsleep", "writesleep"}

\* Most steps leave the lock alone, and no process at or away from sleep.
LEMMA LockStays ==
  ASSUME TypeOK, LockHeld, NEW p \in Proc, ~AtSleep(p), plock' = plock,
         NEW l, l \notin {"readsleep", "writesleep"},
         \/ Goto(p, l)
         \/ pc' = Waking(p, l, "readasleep", "read")
         \/ pc' = Waking(p, l, "writeasleep", "write")
  PROVE  LockHeld'
<1>1. pc' = [pc EXCEPT ![p] = l] \/ pc' = Waking(p, l, "readasleep", "read")
      \/ pc' = Waking(p, l, "writeasleep", "write")
  BY DEF Goto
<1>2. \A q \in Proc : AtSleep(q)' <=> AtSleep(q)
  BY <1>1, Types DEF AtSleep, Waking
<1> QED
  BY <1>2 DEF LockHeld, AtSleep

LEMMA NextLock ==
  ASSUME IInv, [Next]_vars
  PROVE  LockHeld'
<1>1. TypeOK /\ LockHeld /\ pc \in [Proc -> Labels] /\ None \notin Proc
  BY Types, PipeAssumption DEF IInv
<1>2. ASSUME NEW p \in Proc, PipeFile(p) \/ PipeBad(p) \/ PipeNoFds(p) \/ PipeMake(p) \/ PipeFds(p)
                             \/ Fileclose(p) \/ SysPipe(p) \/ ExitDone(p)
      PROVE  LockHeld'
  <2>1. plock' = plock /\ ~AtSleep(p)
    BY <1>2
       DEF PipeFile, PipeBad, PipeNoFds, PipeMake, PipeFds, Fileclose, SysPipe,
           ExitDone,
                InUser, AtSleep
  <2>2. \/ Goto(p, "filealloc") \/ Goto(p, "kalloc") \/ Goto(p, "fdalloc") \/ Goto(p, "user")
        \/ Goto(p, "close") \/ Goto(p, "pipeclose") \/ Goto(p, "unused")
    <3>1. PipeFile(p) \/ PipeNoFds(p) \/ PipeMake(p) \/ PipeFds(p) \/ SysPipe(p) \/ ExitDone(p) => 
             Goto(p, "filealloc") \/ Goto(p, "kalloc") \/ Goto(p, "fdalloc") \/ Goto(p, "user")
             \/ Goto(p, "close") \/ Goto(p, "unused")
      BY DEF PipeFile, PipeNoFds, PipeMake, PipeFds, SysPipe, ExitDone
    <3>2. PipeBad(p) \/ Fileclose(p) =>
             Goto(p, "user") \/ Goto(p, "close") \/ Goto(p, "pipeclose")
      BY DEF PipeBad, Fileclose, CloseOr
    <3> QED
      BY <1>2, <3>1, <3>2
  <2> QED
    BY <1>1, <1>2, <2>1, <2>2, LockStays
<1>3. ASSUME NEW p \in Proc, SysDup(p)
      PROVE  LockHeld'
  BY <1>1, <1>3 DEF SysDup, LockHeld
<1>4. ASSUME NEW p \in Proc, Fork(p)
      PROVE  LockHeld'
  <2>1. PICK c \in Proc : pc[c] = "unused" /\ Goto(c, "user") /\ plock' = plock
    BY <1>4 DEF Fork
  <2> QED
    BY <1>1, <2>1, LockStays DEF AtSleep
<1>5. ASSUME NEW p \in Proc, NEW d \in Fd, CloseFd(p, d), pc[p] = "user"
      PROVE  LockHeld'
  BY <1>1, <1>5, LockStays DEF AtSleep, CloseFd
<1>6. ASSUME NEW p \in Proc, Pipeclose(p)
      PROVE  LockHeld'
  <2>1. /\ pc[p] = "pipeclose" /\ plock' = plock
        /\ \/ pc' = Waking(p, "user", "readasleep", "read")
           \/ pc' = Waking(p, "close", "readasleep", "read")
           \/ pc' = Waking(p, "user", "writeasleep", "write")
           \/ pc' = Waking(p, "close", "writeasleep", "write")
    BY <1>6 DEF Pipeclose, GotoWaking, CloseOr
  <2> QED
    BY <1>1, <1>6, <2>1, LockStays DEF AtSleep
<1>7. ASSUME NEW p \in Proc, SysRead(p) \/ SysWrite(p) \/ PipereadKilled(p) \/ PipewriteError(p)
      PROVE  LockHeld'
  <2>1. plock' = plock /\ ~AtSleep(p) /\ (Goto(p, "read") \/ Goto(p, "write") \/ Goto(p, "user"))
    BY <1>7
       DEF SysRead, SysWrite, PipereadKilled, PipewriteError, CallWith, AtSleep,
           InUser
  <2> QED
    BY <1>1, <1>7, <2>1, LockStays
<1>8. ASSUME NEW p \in Proc, PipereadCopy(p) \/ PipewriteDone(p)
      PROVE  LockHeld'
  <2>1. /\ plock' = plock /\ ~AtSleep(p)
        /\ \/ pc' = Waking(p, "user", "writeasleep", "write")
           \/ pc' = Waking(p, "user", "readasleep", "read")
    BY <1>8 DEF PipereadCopy, PipewriteDone, GotoWaking, AtSleep
  <2> QED
    BY <1>1, <1>8, <2>1, LockStays
<1>9. ASSUME NEW p \in Proc, Kill(p)
      PROVE  LockHeld'
  <2>1. \A q \in Proc : AtSleep(q)' <=> AtSleep(q)
    BY <1>1, <1>9 DEF Kill, AtSleep
  <2>2. plock' = plock
    BY <1>9 DEF Kill
  <2> QED
    BY <1>1, <2>1, <2>2 DEF LockHeld, AtSleep
<1>10. ASSUME NEW p \in Proc, PipereadWait(p) \/ PipewriteWait(p)
       PROVE  LockHeld'
  <2>1. /\ plock = None /\ plock' = p
        /\ \/ pc' = [pc EXCEPT ![p] = "readsleep"]
           \/ pc' = Waking(p, "writesleep", "readasleep", "read")
    BY <1>10 DEF PipereadWait, PipewriteWait, Goto, GotoWaking
  <2>2. \A q \in Proc : ~AtSleep(q)
    BY <1>1, <2>1 DEF LockHeld, AtSleep
  <2>3. AtSleep(p)' /\ \A q \in Proc : q # p => ~AtSleep(q)'
    BY <1>1, <1>10, <2>1, <2>2 DEF AtSleep, Waking
  <2> QED
    BY <2>1, <2>3 DEF LockHeld, AtSleep
<1>11. ASSUME NEW p \in Proc, PipereadSleep(p) \/ PipewriteSleep(p)
       PROVE  LockHeld'
  <2>1. /\ AtSleep(p) /\ plock' = None
        /\ pc' = [pc EXCEPT ![p] = "readasleep"] \/ pc' = [pc EXCEPT ![p] = "writeasleep"]
    BY <1>11 DEF PipereadSleep, PipewriteSleep, Goto, AtSleep
  <2>2. plock = p /\ \A q \in Proc : q # p => ~AtSleep(q)
    BY <1>1, <1>11, <2>1 DEF LockHeld, AtSleep
  <2>3. \A q \in Proc : ~AtSleep(q)'
    BY <1>1, <1>11, <2>1, <2>2 DEF AtSleep
  <2> QED
    BY <1>1, <2>1, <2>3 DEF LockHeld, AtSleep
<1>12. CASE UNCHANGED vars
  BY <1>1, <1>12 DEF vars, LockHeld
<1> QED
  BY <1>2, <1>3, <1>4, <1>5, <1>6, <1>7, <1>8, <1>9, <1>10, <1>11, <1>12, Steps
     DEF RWStep

(***************************************************************************)
(* Who is in read or write has a descriptor for it.                        *)
(***************************************************************************)
LEMMA HolderStays ==
  ASSUME IInv, [Next]_vars, NEW q \in Proc, ofile'[q] = ofile[q], NEW w \in BOOLEAN,
         q \in Holders(w)
  PROVE  q \in Holders(w)'
<1>1. PICK d \in Fd : /\ ofile[q][d] # None /\ ftable[ofile[q][d]].type = "PIPE"
                      /\ ftable[ofile[q][d]].writable = w
  BY DEF Holders
<1>2. PICK f \in Slot : f = ofile[q][d]
  BY <1>1, Types DEF IInv
<1>3. <<q, d>> \in Descriptors(f)
  BY <1>1, <1>2 DEF Descriptors
<1>4. ftable'[f].type = ftable[f].type /\ ftable'[f].writable = ftable[f].writable
  BY <1>3, FilesKept
<1> QED
  BY <1>1, <1>2, <1>4 DEF Holders

LEMMA InPipeStays ==
  ASSUME IInv, [Next]_vars,
         \A q \in Proc :
            \/ pc'[q] \notin ReadLabels \cup WriteLabels
            \/ /\ ofile'[q] = ofile[q]
               /\ pc'[q] \in ReadLabels => q \in Holders(FALSE)
               /\ pc'[q] \in WriteLabels => q \in Holders(TRUE)
  PROVE  InPipe'
<1>1. \A q \in Proc : \A w \in BOOLEAN :
         ofile'[q] = ofile[q] /\ q \in Holders(w) => q \in Holders(w)'
  BY HolderStays
<1> QED
  BY <1>1 DEF InPipe

LEMMA NextInPipe ==
  ASSUME IInv, [Next]_vars
  PROVE  InPipe'
<1>1. /\ TypeOK /\ pc \in [Proc -> Labels] /\ ofile \in [Proc -> [Fd -> Slot \cup {None}]]
      /\ \A q \in Proc : /\ pc[q] \in ReadLabels => q \in Holders(FALSE)
                         /\ pc[q] \in WriteLabels => q \in Holders(TRUE)
  BY Types DEF IInv, InPipe
\* A step of p that leaves the others alone or wakes them.
<1>2. ASSUME NEW p \in Proc, pc'[p] \notin ReadLabels \cup WriteLabels,
             \A q \in Proc : q # p =>
                /\ ofile'[q] = ofile[q]
                /\ \/ pc'[q] = pc[q]
                   \/ pc[q] = "readasleep" /\ pc'[q] = "read"
                   \/ pc[q] = "writeasleep" /\ pc'[q] = "write"
      PROVE  InPipe'
  <2>1. \A q \in Proc : q # p => /\ pc'[q] \in ReadLabels => pc[q] \in ReadLabels
                                 /\ pc'[q] \in WriteLabels => pc[q] \in WriteLabels
    BY <1>2 DEF ReadLabels, WriteLabels
  <2> QED
    BY <1>1, <1>2, <2>1, InPipeStays
<1>3. ASSUME NEW p \in Proc, PipeFile(p) \/ PipeBad(p) \/ PipeNoFds(p) \/ PipeMake(p) \/ PipeFds(p)
                             \/ Fileclose(p) \/ SysPipe(p) \/ ExitDone(p)
      PROVE  InPipe'
  <2>1. \/ Goto(p, "filealloc") \/ Goto(p, "kalloc") \/ Goto(p, "fdalloc") \/ Goto(p, "user")
        \/ Goto(p, "close") \/ Goto(p, "pipeclose") \/ Goto(p, "unused")
    <3>1. PipeFile(p) \/ PipeNoFds(p) \/ PipeMake(p) \/ PipeFds(p) \/ SysPipe(p) \/ ExitDone(p) => 
             Goto(p, "filealloc") \/ Goto(p, "kalloc") \/ Goto(p, "fdalloc") \/ Goto(p, "user")
             \/ Goto(p, "close") \/ Goto(p, "unused")
      BY DEF PipeFile, PipeNoFds, PipeMake, PipeFds, SysPipe, ExitDone
    <3>2. PipeBad(p) \/ Fileclose(p) =>
             Goto(p, "user") \/ Goto(p, "close") \/ Goto(p, "pipeclose")
      BY DEF PipeBad, Fileclose, CloseOr
    <3> QED
      BY <1>3, <3>1, <3>2
  <2>2. /\ pc'[p] \notin ReadLabels \cup WriteLabels
        /\ \A q \in Proc : q # p => pc'[q] = pc[q]
    BY <1>1, <1>3, <2>1 DEF Goto, ReadLabels, WriteLabels
  <2>3. \A q \in Proc : q # p => ofile'[q] = ofile[q]
    BY <1>1, <1>3
       DEF PipeFile, PipeBad, PipeNoFds, PipeMake, PipeFds, Fileclose, SysPipe,
           ExitDone,
                      filevars
  <2> QED
    BY <1>2, <1>3, <2>2, <2>3
<1>4. ASSUME NEW p \in Proc, SysDup(p)
      PROVE  InPipe'
  <2>1. /\ pc' = pc /\ pc[p] = "user"
        /\ \A q \in Proc : q # p => ofile'[q] = ofile[q]
    BY <1>1, <1>4 DEF SysDup, DupFile, InUser
  <2> QED
    BY <1>2, <1>4, <2>1 DEF ReadLabels, WriteLabels
<1>5. ASSUME NEW p \in Proc, Fork(p)
      PROVE  InPipe'
  <2>1. PICK c \in Proc : Goto(c, "user") /\ ForkFiles(p, c)
    BY <1>5 DEF Fork
  <2>2. /\ pc'[c] = "user" /\ \A q \in Proc : q # c => pc'[q] = pc[q] /\ ofile'[q] = ofile[q]
    BY <1>1, <1>5, <2>1 DEF Goto, ForkFiles
  <2> QED
    BY <1>2, <2>2 DEF ReadLabels, WriteLabels
<1>6. ASSUME NEW p \in Proc, NEW d \in Fd, CloseFd(p, d)
      PROVE  InPipe'
  <2>1. /\ pc'[p] = "close" /\ \A q \in Proc : q # p => pc'[q] = pc[q] /\ ofile'[q] = ofile[q]
    BY <1>1, <1>6 DEF Goto, CloseFd
  <2> QED
    BY <1>2, <1>6, <2>1 DEF ReadLabels, WriteLabels
<1>7. ASSUME NEW p \in Proc, Pipeclose(p)
      PROVE  InPipe'
  <2>1. /\ ofile' = ofile
        /\ \/ pc' = Waking(p, "user", "readasleep", "read")
           \/ pc' = Waking(p, "close", "readasleep", "read")
           \/ pc' = Waking(p, "user", "writeasleep", "write")
           \/ pc' = Waking(p, "close", "writeasleep", "write")
    BY <1>7 DEF Pipeclose, GotoWaking, CloseOr, filevars
  <2> QED
    BY <1>1, <1>2, <1>7, <2>1 DEF Waking, ReadLabels, WriteLabels
<1>8. ASSUME NEW p \in Proc, RWStep(p)
      PROVE  InPipe'
  <2>1. ofile' = ofile
    BY <1>1, <1>8, RWSteps
  <2>2. \A q \in Proc : \/ pc'[q] \notin ReadLabels \cup WriteLabels
                        \/ /\ pc'[q] \in ReadLabels => q \in Holders(FALSE)
                           /\ pc'[q] \in WriteLabels => q \in Holders(TRUE)
    <3>1. CASE SysRead(p) \/ SysWrite(p)
      <4>1. \/ Goto(p, "read") /\ p \in Holders(FALSE)
            \/ Goto(p, "write") /\ p \in Holders(TRUE)
        BY <3>1 DEF SysRead, SysWrite, CallWith
      <4> QED
        BY <1>1, <1>8, <4>1 DEF Goto, ReadLabels, WriteLabels
    <3>2. CASE Kill(p)
      BY <1>1, <1>8, <3>2 DEF Kill, ReadLabels, WriteLabels
    <3>3. CASE PipereadKilled(p) \/ PipewriteError(p)
      BY <1>1, <1>8, <3>3
         DEF PipereadKilled, PipewriteError, CallWith, Goto, ReadLabels, WriteLabels
    <3>4. CASE PipereadWait(p) \/ PipereadSleep(p)
      BY <1>1, <1>8, <3>4 DEF PipereadWait, PipereadSleep, Goto, ReadLabels, WriteLabels
    <3>5. CASE PipewriteSleep(p)
      BY <1>1, <1>8, <3>5 DEF PipewriteSleep, Goto, ReadLabels, WriteLabels
    <3>6. CASE PipereadCopy(p) \/ PipewriteDone(p)
      BY <1>1, <1>8, <3>6
         DEF PipereadCopy, PipewriteDone, GotoWaking, Waking, ReadLabels, WriteLabels
    <3>7. CASE PipewriteWait(p)
      BY <1>1, <1>8, <3>7 DEF PipewriteWait, GotoWaking, Waking, ReadLabels, WriteLabels
    <3> QED
      BY <1>8, <3>1, <3>2, <3>3, <3>4, <3>5, <3>6, <3>7 DEF RWStep
  <2> QED
    BY <2>1, <2>2, InPipeStays
<1>9. CASE UNCHANGED vars
  BY <1>1, <1>9, InPipeStays DEF vars, filevars
<1> QED
  BY <1>3, <1>4, <1>5, <1>6, <1>7, <1>8, <1>9, Steps

(***************************************************************************)
(* What is in the pipe.                                                    *)
(***************************************************************************)
\* The steps that leave the buffer and its counters alone.
LEMMA BufferSteps ==
  ASSUME [Next]_vars
  PROVE  \/ UNCHANGED <<data, nread, nwrite>>
         \/ \E p \in Proc : \/ PipeMake(p) \/ Pipeclose(p) \/ PipereadCopy(p)
                            \/ PipewriteDone(p) \/ PipewriteError(p) \/ PipewriteWait(p)
<1>1. ASSUME NEW p \in Proc, RWStep(p)
      PROVE  \/ UNCHANGED <<data, nread, nwrite>>
             \/ PipereadCopy(p) \/ PipewriteDone(p) \/ PipewriteError(p) \/ PipewriteWait(p)
  BY <1>1
     DEF RWStep, SysRead, SysWrite, Kill, PipereadWait, PipereadKilled, PipereadSleep,
              PipewriteSleep, CallWith, pipe
<1>2. ASSUME NEW p \in Proc, PipeFile(p) \/ PipeBad(p) \/ PipeNoFds(p) \/ PipeFds(p) \/ SysDup(p)
                             \/ Fork(p) \/ Fileclose(p) \/ SysPipe(p) \/ ExitDone(p)
      PROVE  UNCHANGED <<data, nread, nwrite>>
  BY <1>2
     DEF PipeFile, PipeBad, PipeNoFds, PipeFds, SysDup, Fork, Fileclose, SysPipe,
         ExitDone, pipe
<1>3. ASSUME NEW p \in Proc, NEW d \in Fd, CloseFd(p, d)
      PROVE  UNCHANGED <<data, nread, nwrite>>
  BY <1>3 DEF CloseFd, pipe
<1>4. UNCHANGED vars => UNCHANGED <<data, nread, nwrite>>
  BY DEF vars, pipe
<1> QED
  BY <1>1, <1>2, <1>3, <1>4, Steps

LEMMA NextBytes ==
  ASSUME IInv, [Next]_vars
  PROVE  BytesKept'
<1>1. /\ TypeOK /\ BytesKept /\ PIPESIZE \in Nat \ {0} /\ Width \in Nat \ {0}
      /\ 0 \in 0 .. Width - 1
  BY PipeAssumption DEF IInv
<1>2. Used \in Nat /\ Room \in Nat /\ Room <= PIPESIZE /\ Used + Room = PIPESIZE
  BY <1>1, RoomIs
<1>3. nread \in 0 .. Width - 1 /\ nwrite \in 0 .. Width - 1 /\ nread \in Int
  BY <1>1 DEF TypeOK
<1>4. UNCHANGED <<data, nread, nwrite>> => BytesKept'
  BY <1>1 DEF BytesKept, Used
\* An empty pipe.
<1>5. nread' = 0 /\ nwrite' = 0 => BytesKept'
  <2> SUFFICES ASSUME nread' = 0, nwrite' = 0
               PROVE  BytesKept'
    OBVIOUS
  <2>1. Used' = 0
    BY <1>1, ModSmall DEF Used
  <2> QED
    BY <1>1, <2>1 DEF BytesKept
<1>6. ASSUME NEW p \in Proc, PipeMake(p) \/ Pipeclose(p)
      PROVE  BytesKept'
  <2>1. UNCHANGED <<data, nread, nwrite>> \/ (nread' = 0 /\ nwrite' = 0)
    <3>1. PipeMake(p) => nread' = 0 /\ nwrite' = 0
      BY DEF PipeMake
    <3>2. Pipeclose(p) => UNCHANGED <<data, nread, nwrite>> \/ (nread' = 0 /\ nwrite' = 0)
      BY DEF Pipeclose
    <3> QED
      BY <1>6, <3>1, <3>2
  <2> QED
    BY <1>4, <1>5, <2>1
<1>7. ASSUME NEW p \in Proc, PipereadCopy(p)
      PROVE  BytesKept'
  <2>1. PICK k \in Nat : /\ k <= Used /\ data' = Emptied(k)
                         /\ nread' = (nread + k) % Width /\ nwrite' = nwrite
    BY <1>1, <1>7, ReadTypes
  <2>2. /\ Used' = Used - k
        /\ \A m \in Nat : k + m < Used =>
              data'[(nread' + m) % PIPESIZE] = data[(nread + k + m) % PIPESIZE]
    BY <1>1, <2>1, ReadIs DEF BytesKept
  <2>3. ASSUME NEW m \in Nat, m < Used'
        PROVE  data'[(nread' + m) % PIPESIZE] \in Data
    <3>1. k + m \in Nat /\ k + m < Used /\ nread + (k + m) = nread + k + m
      BY <1>2, <1>3, <2>2, <2>3
    <3>2. data[(nread + (k + m)) % PIPESIZE] \in Data
      BY <1>1, <3>1 DEF BytesKept
    <3> QED
      BY <2>2, <3>1, <3>2
  <2>4. Used' <= PIPESIZE
    BY <1>1, <1>2, <2>2
  <2> QED
    BY <2>3, <2>4 DEF BytesKept
<1>8. ASSUME NEW p \in Proc, PipewriteDone(p) \/ PipewriteError(p) \/ PipewriteWait(p)
      PROVE  BytesKept'
  <2>1. PICK k \in 0 .. Room : Fill(p, k) /\ nread' = nread
    BY <1>1, <1>8, FillTypes
  <2>2. k \in Nat /\ Used + k <= PIPESIZE
    BY <1>2
  <2>3. PICK s \in [1 .. k -> Data] :
           /\ Used' = Used + k
           /\ \A m \in Nat : m < Used =>
                 data'[(nread + m) % PIPESIZE] = data[(nread + m) % PIPESIZE]
           /\ \A j \in 1 .. k : data'[(nread + Used + j - 1) % PIPESIZE] = s[j]
    BY <1>1, <1>8, <2>1, <2>2, FillIs
  <2>4. ASSUME NEW m \in Nat, m < Used'
        PROVE  data'[(nread + m) % PIPESIZE] \in Data
    <3>1. CASE m < Used
      BY <1>1, <2>3, <3>1 DEF BytesKept
    <3>2. CASE ~(m < Used)
      <4>1. PICK j \in 1 .. k : j = m - Used + 1
        BY <1>2, <2>2, <2>3, <2>4, <3>2
      <4>2. nread + Used + j - 1 = nread + m
        BY <1>2, <1>3, <4>1
      <4>3. data'[(nread + Used + j - 1) % PIPESIZE] = s[j] /\ s[j] \in Data
        BY <2>3
      <4> QED
        BY <4>2, <4>3
    <3> QED
      BY <3>1, <3>2
  <2>5. Used' <= PIPESIZE
    BY <2>2, <2>3
  <2> QED
    BY <2>1, <2>4, <2>5 DEF BytesKept
<1> QED
  BY <1>4, <1>6, <1>7, <1>8, BufferSteps

(***************************************************************************)
(* Who sleeps has a reason to.                                             *)
(***************************************************************************)
Reads(p) == pc[p] \in {"readsleep", "readasleep"}
Writes(p) == pc[p] \in {"writesleep", "writeasleep"}

LEMMA ReasonStays ==
  ASSUME SleeperHasReason, UNCHANGED <<nread, nwrite, readopen, writeopen, unsaid>>,
         \A q \in Proc : (Reads(q)' => Reads(q)) /\ (Writes(q)' => Writes(q))
  PROVE  SleeperHasReason'
BY DEF SleeperHasReason, Reads, Writes, Used

\* When the lock is free, who waits is asleep, and one wakeup reaches them all.
LEMMA AllWoken ==
  ASSUME IInv, NEW p \in Proc, plock = None, NEW l,
         l \notin {"readsleep", "readasleep", "writesleep", "writeasleep"}
  PROVE  /\ pc' = Waking(p, l, "readasleep", "read") =>
               \A q \in Proc : ~Reads(q)' /\ (Writes(q)' => Writes(q))
         /\ pc' = Waking(p, l, "writeasleep", "write") =>
               \A q \in Proc : ~Writes(q)' /\ (Reads(q)' => Reads(q))
<1>1. \A q \in Proc : pc[q] \notin {"readsleep", "writesleep"}
  BY PipeAssumption DEF IInv, LockHeld
<1> QED
  BY <1>1 DEF Waking, Reads, Writes

LEMMA NextReason ==
  ASSUME IInv, [Next]_vars
  PROVE  SleeperHasReason'
<1>1. /\ TypeOK /\ pc \in [Proc -> Labels] /\ SleeperHasReason /\ Ends /\ BytesKept
      /\ \A q \in Proc : /\ Reads(q) => writeopen /\ (nread = nwrite \/ unsaid)
                         /\ Writes(q) => readopen /\ Used = PIPESIZE
  BY Types DEF IInv, SleeperHasReason, Reads, Writes
<1>2. Used \in Nat /\ Room \in Nat /\ Room <= PIPESIZE /\ Used + Room = PIPESIZE /\ PIPESIZE \in Nat
  BY <1>1, RoomIs, PipeAssumption
<1>3. \/ \A q \in Proc : /\ Reads(q)' => writeopen' /\ (nread' = nwrite' \/ unsaid')
                         /\ Writes(q)' => readopen' /\ Used' = PIPESIZE
      => SleeperHasReason'
  BY DEF SleeperHasReason, Reads, Writes
<1>4. ASSUME NEW p \in Proc, NEW l,
             l \notin {"readsleep", "readasleep", "writesleep", "writeasleep"}, Goto(p, l)
      PROVE  \A q \in Proc : (Reads(q)' => Reads(q)) /\ (Writes(q)' => Writes(q))
  BY <1>1, <1>4 DEF Goto, Reads, Writes
<1>5. ASSUME NEW p \in Proc, PipeFile(p) \/ PipeBad(p) \/ PipeNoFds(p) \/ PipeFds(p)
                             \/ Fileclose(p) \/ SysPipe(p) \/ ExitDone(p)
      PROVE  SleeperHasReason'
  <2>1. \/ Goto(p, "filealloc") \/ Goto(p, "kalloc") \/ Goto(p, "user")
        \/ Goto(p, "close") \/ Goto(p, "pipeclose") \/ Goto(p, "unused")
    <3>1. PipeFile(p) \/ PipeNoFds(p) \/ PipeFds(p) \/ SysPipe(p) \/ ExitDone(p) => 
             Goto(p, "filealloc") \/ Goto(p, "kalloc") \/ Goto(p, "user")
             \/ Goto(p, "close") \/ Goto(p, "unused")
      BY DEF PipeFile, PipeNoFds, PipeFds, SysPipe, ExitDone
    <3>2. PipeBad(p) \/ Fileclose(p) =>
             Goto(p, "user") \/ Goto(p, "close") \/ Goto(p, "pipeclose")
      BY DEF PipeBad, Fileclose, CloseOr
    <3> QED
      BY <1>5, <3>1, <3>2
  <2>2. \A q \in Proc : (Reads(q)' => Reads(q)) /\ (Writes(q)' => Writes(q))
    BY <1>4, <1>5, <2>1
  <2>3. UNCHANGED <<nread, nwrite, readopen, writeopen, unsaid>>
    BY <1>5
       DEF PipeFile, PipeBad, PipeNoFds, PipeFds, Fileclose, SysPipe, ExitDone, pipe,
           flags
  <2> QED
    BY <1>1, <2>2, <2>3, ReasonStays
<1>6. ASSUME NEW p \in Proc, PipeMake(p)
      PROVE  SleeperHasReason'
  <2>1. ~page /\ Goto(p, "fdalloc")
    BY <1>6 DEF PipeMake
  <2>2. \A q \in Proc : ~Reads(q) /\ ~Writes(q)
    BY <1>1, <2>1 DEF Ends, PageKept
  <2>3. \A q \in Proc : ~Reads(q)' /\ ~Writes(q)'
    BY <1>4, <1>6, <2>1, <2>2
  <2> QED
    BY <1>3, <2>3
<1>7. ASSUME NEW p \in Proc, SysDup(p)
      PROVE  SleeperHasReason'
  BY <1>1, <1>7, ReasonStays DEF SysDup, pipe, flags, Reads, Writes
<1>8. ASSUME NEW p \in Proc, Fork(p)
      PROVE  SleeperHasReason'
  <2>1. PICK c \in Proc : Goto(c, "user")
    BY <1>8 DEF Fork
  <2>2. UNCHANGED <<nread, nwrite, readopen, writeopen, unsaid>>
    BY <1>8 DEF Fork, pipe, flags
  <2> QED
    BY <1>1, <1>4, <2>1, <2>2, ReasonStays
<1>9. ASSUME NEW p \in Proc, NEW d \in Fd, CloseFd(p, d), unsaid' = unsaid
      PROVE  SleeperHasReason'
  <2>1. Goto(p, "close") /\ UNCHANGED <<nread, nwrite, readopen, writeopen>>
    BY <1>9 DEF CloseFd, pipe
  <2> QED
    BY <1>1, <1>4, <1>9, <2>1, ReasonStays
<1>10. ASSUME NEW p \in Proc, Pipeclose(p)
       PROVE  SleeperHasReason'
  <2>1. PICK w \in BOOLEAN : w <=> call[p].closing = "write"
    OBVIOUS
  <2>2. PICK l \in {"user", "close"} : l = CloseOr(call[p].todo)
    BY DEF CloseOr
  <2>3. /\ plock = None /\ (writeopen' <=> writeopen /\ ~w) /\ (readopen' <=> readopen /\ w)
        /\ page' <=> writeopen' \/ readopen'
        /\ page' => UNCHANGED <<nread, nwrite>>
        /\ w => pc' = Waking(p, l, "readasleep", "read")
        /\ ~w => pc' = Waking(p, l, "writeasleep", "write")
        /\ unsaid' = unsaid
    BY <1>10, <2>1, <2>2 DEF Pipeclose, GotoWaking, flags
  <2>4. CASE w
    <3>1. \A q \in Proc : ~Reads(q)' /\ (Writes(q)' => Writes(q))
      BY <1>10, <2>3, <2>4, AllWoken
    <3>2. \A q \in Proc : Writes(q) => readopen' /\ Used' = PIPESIZE
      BY <1>1, <2>3, <2>4 DEF Used
    <3> QED
      BY <1>3, <3>1, <3>2
  <2>5. CASE ~w
    <3>1. \A q \in Proc : ~Writes(q)' /\ (Reads(q)' => Reads(q))
      BY <1>10, <2>3, <2>5, AllWoken
    <3>2. \A q \in Proc : Reads(q) => writeopen' /\ (nread' = nwrite' \/ unsaid')
      BY <1>1, <2>3, <2>5
    <3> QED
      BY <1>3, <3>1, <3>2
  <2> QED
    BY <2>4, <2>5
<1>11. ASSUME NEW p \in Proc, SysRead(p) \/ SysWrite(p) \/ PipereadKilled(p)
       PROVE  SleeperHasReason'
  <2>1. /\ Goto(p, "read") \/ Goto(p, "write") \/ Goto(p, "user")
        /\ UNCHANGED <<nread, nwrite, readopen, writeopen, unsaid>>
    BY <1>11 DEF SysRead, SysWrite, PipereadKilled, CallWith, pipe, flags
  <2>2. \A q \in Proc : (Reads(q)' => Reads(q)) /\ (Writes(q)' => Writes(q))
    BY <1>4, <1>11, <2>1
  <2> QED
    BY <1>1, <2>1, <2>2, ReasonStays
<1>12. ASSUME NEW p \in Proc, Kill(p)
       PROVE  SleeperHasReason'
  <2>1. UNCHANGED <<nread, nwrite, readopen, writeopen, unsaid>>
    BY <1>12 DEF Kill, pipe
  <2>2. \A q \in Proc : (Reads(q)' => Reads(q)) /\ (Writes(q)' => Writes(q))
    BY <1>1, <1>12 DEF Kill, Reads, Writes
  <2> QED
    BY <1>1, <2>1, <2>2, ReasonStays
<1>13. ASSUME NEW p \in Proc, PipereadSleep(p) \/ PipewriteSleep(p)
       PROVE  SleeperHasReason'
  <2>1. UNCHANGED <<nread, nwrite, readopen, writeopen, unsaid>>
    BY <1>13 DEF PipereadSleep, PipewriteSleep, pipe, flags
  <2>2. \A q \in Proc : (Reads(q)' => Reads(q)) /\ (Writes(q)' => Writes(q))
    BY <1>1, <1>13 DEF PipereadSleep, PipewriteSleep, Goto, Reads, Writes
  <2> QED
    BY <1>1, <2>1, <2>2, ReasonStays
<1>14. ASSUME NEW p \in Proc, PipereadWait(p)
       PROVE  SleeperHasReason'
  <2>1. /\ nread = nwrite /\ writeopen /\ pc' = [pc EXCEPT ![p] = "readsleep"]
        /\ UNCHANGED <<nread, nwrite, readopen, writeopen, unsaid>>
    BY <1>14 DEF PipereadWait, Goto, pipe, flags
  <2>2. \A q \in Proc : Reads(q)' => (writeopen /\ nread = nwrite) \/ Reads(q)
    BY <2>1
  <2>3. \A q \in Proc : Writes(q)' => Writes(q)
    BY <1>1, <1>14, <2>1 DEF Writes
  <2>4. Used' = Used
    BY <2>1 DEF Used
  <2> QED
    BY <1>1, <1>3, <2>1, <2>2, <2>3, <2>4
<1>15. ASSUME NEW p \in Proc, PipereadCopy(p)
       PROVE  SleeperHasReason'
  <2>1. /\ plock = None
        /\ nread # nwrite \/ ~writeopen
        /\ pc' = Waking(p, "user", "writeasleep", "write")
        /\ UNCHANGED <<writeopen, unsaid>>
    BY <1>15 DEF PipereadCopy, flags
  <2>2. \A q \in Proc : ~Writes(q)' /\ (Reads(q)' => Reads(q))
    BY <1>15, <2>1, AllWoken DEF PipereadCopy
  <2> QED
    BY <1>1, <1>3, <2>1, <2>2
<1>16. ASSUME NEW p \in Proc, PipewriteDone(p) \/ PipewriteError(p) \/ PipewriteWait(p)
       PROVE  /\ plock = None
              /\ UNCHANGED <<readopen, writeopen, nread>>
              /\ Used = PIPESIZE => Used' = PIPESIZE
              /\ ~PipewriteDone(p) => Used' = PIPESIZE
  <2>1. call[p].count \in Nat
    BY <1>1, Types, PipeAssumption
  <2>2. \E k \in 0 .. Room : /\ Fill(p, k)
                             /\ nread' = nread
                             /\ k = Room \/ PipewriteDone(p)
    BY <1>2, <1>16, <2>1 DEF PipewriteDone, PipewriteError, PipewriteWait
  <2>3. PICK k \in 0 .. Room : Fill(p, k) /\ nread' = nread /\ (k = Room \/ PipewriteDone(p))
    BY <2>2
  <2>4. k \in Nat /\ Used + k <= PIPESIZE
    BY <1>2
  <2>5. Used' = Used + k
    BY <1>1, <1>16, <2>3, <2>4, FillIs
  <2>6. plock = None /\ UNCHANGED <<readopen, writeopen, nread>>
    BY <1>16 DEF PipewriteDone, PipewriteError, PipewriteWait
  <2> QED
    BY <1>2, <2>3, <2>5, <2>6
<1>17. ASSUME NEW p \in Proc, PipewriteDone(p)
       PROVE  SleeperHasReason'
  <2>1. \A q \in Proc : ~Reads(q)' /\ (Writes(q)' => Writes(q))
    BY <1>16, <1>17, AllWoken DEF PipewriteDone, GotoWaking
  <2> QED
    BY <1>1, <1>3, <1>16, <1>17, <2>1
<1>18. ASSUME NEW p \in Proc, PipewriteError(p)
       PROVE  SleeperHasReason'
  <2>1. unsaid' /\ Goto(p, "user")
    BY <1>18 DEF PipewriteError
  <2>2. \A q \in Proc : (Reads(q)' => Reads(q)) /\ (Writes(q)' => Writes(q))
    BY <1>4, <1>18, <2>1
  <2> QED
    BY <1>1, <1>3, <1>16, <1>18, <2>1, <2>2
<1>19. ASSUME NEW p \in Proc, PipewriteWait(p)
       PROVE  SleeperHasReason'
  <2>1. readopen /\ pc' = Waking(p, "writesleep", "readasleep", "read")
    BY <1>19 DEF PipewriteWait, GotoWaking
  <2>2. Used' = PIPESIZE /\ UNCHANGED <<readopen, writeopen>> /\ plock = None
    <3>1. ~PipewriteDone(p)
      BY <1>2, <1>19, Types, <1>1, PipeAssumption DEF PipewriteWait, PipewriteDone
    <3> QED
      BY <1>16, <1>19, <3>1
  <2>3. \A q \in Proc : pc[q] \notin {"readsleep", "writesleep"}
    BY <2>2, PipeAssumption DEF IInv, LockHeld
  <2>4. \A q \in Proc : ~Reads(q)'
    BY <1>19, <2>1, <2>3 DEF Waking, Reads
  <2> QED
    BY <1>3, <2>1, <2>2, <2>4
<1>20. CASE UNCHANGED vars
  BY <1>1, <1>20, ReasonStays DEF vars, pipe, flags, Reads, Writes
<1> QED
  BY <1>5, <1>6, <1>7, <1>8, <1>9, <1>10, <1>11, <1>12, <1>13, <1>14, <1>15, <1>17, <1>18,
       <1>19, <1>20, Steps
     DEF RWStep

(***************************************************************************)
(* The theorems.                                                           *)
(***************************************************************************)
LEMMA InitIInv ==
  ASSUME Init
  PROVE  IInv
<1>1. PICK p \in Proc : FileInit(p) /\ pc = [q \in Proc |-> IF q = p THEN "user" ELSE "unused"]
  BY DEF Init
<1>2. /\ PIPESIZE \in Nat \ {0} /\ Width \in Nat \ {0} /\ MaxCount \in Nat /\ None \notin Proc
      /\ NFILE \in Nat \ {0} /\ NOFILE \in Nat \ {0} /\ None \notin Nat
  BY PipeAssumption, FileAssumption
<1>3. 1 \in Slot /\ 0 \in Fd
  BY <1>2 DEF Slot, Fd
<1>4. /\ ftable = [f \in Slot |-> IF f = 1 THEN Console ELSE Closed]
      /\ ofile = [q \in Proc |-> IF q = p THEN [NoFiles EXCEPT ![0] = 1] ELSE NoFiles]
  BY <1>1 DEF FileInit
<1>5. /\ call = [q \in Proc |-> [count |-> 0, new |-> <<>>, todo |-> <<>>, closing |-> "none"]]
      /\ nread = 0 /\ nwrite = 0 /\ ~readopen /\ ~writeopen /\ ~page /\ plock = None /\ data = Junk
      /\ out = <<>> /\ exiting = {} /\ killed = {} /\ unsaid = FALSE
      /\ readopen = FALSE /\ writeopen = FALSE /\ page = FALSE
  BY DEF Init
<1>6. FileTypeOK
  <2>1. Console \in FileRec /\ Closed \in FileRec
    BY DEF Console, Closed, FileRec
  <2>2. ftable \in [Slot -> FileRec]
    BY <1>4, <2>1
  <2>3. NoFiles \in [Fd -> Slot \cup {None}] /\
          [NoFiles EXCEPT ![0] = 1] \in [Fd -> Slot \cup {None}]
    BY <1>3 DEF NoFiles
  <2>4. ofile \in [Proc -> [Fd -> Slot \cup {None}]]
    BY <1>4, <2>3
  <2> QED
    BY <2>2, <2>4 DEF FileTypeOK, FileRec
<1>7. TypeOK
  <2>1. call \in [Proc -> [count : 0 .. MaxCount, new : Seq(Slot), todo : Seq(Slot),
                           closing : {"none", "read", "write"}]]
    BY <1>2, <1>5
  <2>2. pc \in [Proc -> Labels]
    BY <1>1 DEF Labels
  <2>3. data \in [0 .. PIPESIZE - 1 -> Data \cup {None}] /\ out \in Seq(Data)
    BY <1>5 DEF Junk
  <2>4. nread \in 0 .. Width - 1 /\ nwrite \in 0 .. Width - 1
    BY <1>2, <1>5
  <2>5. {readopen, writeopen, page, unsaid} \subseteq BOOLEAN
    BY <1>5
  <2> QED
    BY <1>5, <1>6, <2>1, <2>2, <2>3, <2>4, <2>5 DEF TypeOK
<1>8. Counted
  <2> SUFFICES ASSUME NEW f \in Slot
               PROVE  ftable[f].ref = Cardinality(Descriptors(f)) + Cardinality(Making(f))
                                      + Cardinality(Closing(f))
    BY DEF Counted
  <2>1. Making(f) = {} /\ Closing(f) = {}
    BY <1>5 DEF Making, Closing
  <2>2. Descriptors(f) = IF f = 1 THEN {<<p, 0>>} ELSE {}
    <3>1. \A q \in Proc, d \in Fd : ofile[q][d] = IF q = p /\ d = 0 THEN 1 ELSE None
      BY <1>3, <1>4 DEF NoFiles
    <3>2. f # None /\ 1 # None
      BY <1>2 DEF Slot
    <3>3. \A x \in Proc \X Fd : x \in Descriptors(f) <=> f = 1 /\ x = <<p, 0>>
      BY <3>1, <3>2 DEF Descriptors
    <3>4. Descriptors(f) \subseteq Proc \X Fd /\ <<p, 0>> \in Proc \X Fd
      BY <1>3 DEF Descriptors
    <3> QED
      BY <3>3, <3>4
  <2>3. Cardinality({}) = 0 /\ Cardinality({<<p, 0>>}) = 1
    BY FS_EmptySet, FS_Singleton
  <2>4. ftable[f].ref = IF f = 1 THEN 1 ELSE 0
    BY <1>4 DEF Console, Closed
  <2> QED
    BY <2>1, <2>2, <2>3, <2>4
<1>9. Calls
  <2>1. \A q \in Proc : call[q].new = <<>> /\ call[q].todo = <<>> /\ call[q].closing = "none"
    BY <1>5
  <2>2. \A q \in Proc : pc[q] \in {"user", "unused"} /\ (pc[q] = "unused" => q # p)
    BY <1>1
  <2>3. \A q \in Proc : UnusedIsEmpty(q)
    BY <1>4, <2>2 DEF UnusedIsEmpty, NoFiles
  <2>4. \A q \in Proc : NewFiles(q) /\ FilesToClose(q)
    BY <2>1, <2>2 DEF NewFiles, FilesToClose, NoRepeat
  <2> QED
    BY <2>3, <2>4 DEF Calls
<1>10. Ends
  <2>1. \A f \in Slot : \A w : ~IsEnd(f, w)
    BY <1>4 DEF IsEnd, Console, Closed
  <2>2. \A q \in Proc : \A w : ~Shutting(q, w)
    BY <1>5 DEF Shutting, EndOf
  <2> QED
    BY <1>5, <2>1, <2>2, EndsIs
<1>11. \A q \in Proc : pc[q] \in {"user", "unused"}
  BY <1>1
<1>12. LockHeld /\ InPipe /\ SleeperHasReason
  BY <1>2, <1>5, <1>11 DEF LockHeld, InPipe, SleeperHasReason, ReadLabels, WriteLabels
<1>13. BytesKept
  <2>1. Used = 0
    BY <1>2, <1>5, ModSmall DEF Used
  <2> QED
    BY <1>2, <2>1 DEF BytesKept
<1> QED
  BY <1>7, <1>8, <1>9, <1>10, <1>12, <1>13 DEF IInv

LEMMA NextIInv ==
  ASSUME IInv, [Next]_vars
  PROVE  IInv'
BY NextType, NextCounted, NextCalls, NextEnds, NextLock, NextInPipe, NextBytes,
   NextReason
   DEF IInv

\* The inductive invariant: the references and the ends of the pipe are counted
\* through pipe, dup, fork, close and exit, the lock is held by who is about to
\* sleep, and nobody reads or writes a pipe that is gone (pipe.c, file.c:25-83).
THEOREM PipeInvariant == Spec => []IInv
<1>1. Init => IInv
  BY InitIInv
<1>2. IInv /\ [Next]_vars => IInv'
  BY NextIInv
<1> QED
  BY <1>1, <1>2, PTL DEF Spec

\* TypeOK for every number of processes, files and bytes: nread and nwrite wrap
\* around and the buffer never holds anything but bytes and junk (pipe.c:13-21).
THEOREM PipeType == Spec => []TypeOK
<1>1. IInv => TypeOK
  BY DEF IInv
<1> QED
  BY <1>1, PipeInvariant, PTL

\* The references of every file are counted, and an end of the pipe is open as
\* long as a file for it is (file.c:59-77, pipe.c:59-75).
THEOREM PipeEndsCounted == Spec => []EndsCounted
<1>1. IInv => EndsCounted
  BY EndsCountedIs DEF IInv
<1> QED
  BY <1>1, PipeInvariant, PTL

\* No wakeup is lost: a process that sleeps in the pipe has a reason to
\* (pipe.c:85-95, 106-118).
THEOREM PipeSleeperHasReason == Spec => []SleeperHasReason
<1>1. IInv => SleeperHasReason
  BY DEF IInv
<1> QED
  BY <1>1, PipeInvariant, PTL

(***************************************************************************)
(* The pipe is a bounded queue.                                            *)
(***************************************************************************)
LEMMA BytesIs ==
  ASSUME TypeOK, BytesKept
  PROVE  /\ Bytes \in Seq(Data) /\ Len(Bytes) = Used /\ Used \in Nat
         /\ Bytes = [i \in 1 .. Used |-> data[(nread + i - 1) % PIPESIZE]]
<1>1. Used \in Nat
  BY RoomIs
<1>2. \A i \in 1 .. Used : data[(nread + i - 1) % PIPESIZE] \in Data
  <2> TAKE i \in 1 .. Used
  <2>1. i - 1 \in Nat /\ i - 1 < Used
    BY <1>1
  <2>2. nread + (i - 1) = nread + i - 1
    BY PipeAssumption DEF TypeOK
  <2>3. data[(nread + (i - 1)) % PIPESIZE] \in Data
    BY <2>1 DEF BytesKept
  <2> QED
    BY <2>2, <2>3
<1> QED
  BY <1>1, <1>2 DEF Bytes

LEMMA FillAppends ==
  ASSUME TypeOK, BytesKept, NEW p \in Proc, NEW k \in 0 .. Room, Fill(p, k), nread' = nread
  PROVE  \E s \in [1 .. k -> Data] : Bytes' = Bytes \o s
<1>1. Used \in Nat /\ Room \in Nat /\ Used + Room = PIPESIZE /\ nread \in Int
  BY RoomIs, PipeAssumption DEF TypeOK
<1>2. k \in Nat /\ Used + k <= PIPESIZE
  BY <1>1
<1>3. PICK s \in [1 .. k -> Data] :
         /\ Used' = Used + k
         /\ \A m \in Nat : m < Used =>
               data'[(nread + m) % PIPESIZE] = data[(nread + m) % PIPESIZE]
         /\ \A j \in 1 .. k : data'[(nread + Used + j - 1) % PIPESIZE] = s[j]
  BY <1>2, FillIs
<1>4. /\ Bytes \in Seq(Data) /\ Len(Bytes) = Used
      /\ Bytes = [i \in 1 .. Used |-> data[(nread + i - 1) % PIPESIZE]]
  BY BytesIs
<1>5. Bytes' = [i \in 1 .. Used + k |-> data'[(nread + i - 1) % PIPESIZE]]
  BY <1>3 DEF Bytes
<1>6. s \in Seq(Data) /\ Len(s) = k
  BY <1>2
<1>7. Bytes \o s = [i \in 1 .. Used + k |-> IF i <= Used THEN Bytes[i] ELSE s[i - Used]]
  <2> DEFINE b == Bytes
  <2>1. b \in Seq(Data) /\ s \in Seq(Data) /\ Len(b) = Used /\ Len(s) = k
    BY <1>4, <1>6
  <2> HIDE DEF b
  <2>2. b \o s \in Seq(Data) /\ Len(b \o s) = Used + k
    BY <2>1
  <2>3. b \o s = [i \in 1 .. Used + k |-> (b \o s)[i]]
    <3>1. \A t \in Seq(Data) : t = [i \in 1 .. Len(t) |-> t[i]]
      OBVIOUS
    <3> QED
      BY <2>2, <3>1
  <2>4. \A i \in 1 .. Used + k : (b \o s)[i] = IF i <= Used THEN b[i] ELSE s[i - Used]
    BY <1>1, <1>2, <2>1
  <2>5. b \o s = [i \in 1 .. Used + k |-> IF i <= Used THEN b[i] ELSE s[i - Used]]
    BY <2>3, <2>4
  <2> QED
    BY <2>5 DEF b
<1>8. ASSUME NEW i \in 1 .. Used + k
      PROVE  data'[(nread + i - 1) % PIPESIZE] = IF i <= Used THEN Bytes[i] ELSE s[i - Used]
  <2>1. CASE i <= Used
    <3>1. i - 1 \in Nat /\ i - 1 < Used /\ i \in 1 .. Used /\ nread + (i - 1) = nread + i - 1
      BY <1>1, <2>1
    <3>2. data'[(nread + (i - 1)) % PIPESIZE] = data[(nread + (i - 1)) % PIPESIZE]
      BY <1>3, <3>1
    <3> QED
      BY <1>4, <2>1, <3>1, <3>2
  <2>2. CASE ~(i <= Used)
    <3>1. PICK j \in 1 .. k : j = i - Used
      BY <1>1, <1>2, <2>2
    <3>2. nread + Used + j - 1 = nread + i - 1
      BY <1>1, <3>1
    <3> QED
      BY <1>3, <2>2, <3>1, <3>2
  <2> QED
    BY <2>1, <2>2
<1> QED
  BY <1>5, <1>7, <1>8

LEMMA ReadTakes ==
  ASSUME TypeOK, BytesKept, NEW p \in Proc, PipereadCopy(p)
  PROVE  \E k \in 0 .. Len(Bytes) : /\ out' = SubSeq(Bytes, 1, k)
                                    /\ Bytes' = SubSeq(Bytes, k + 1, Len(Bytes))
<1>1. Used \in Nat /\ nread \in Int
  BY RoomIs, PipeAssumption DEF TypeOK
<1>2. PICK k \in Nat : /\ k <= Used /\ data' = Emptied(k)
                       /\ nread' = (nread + k) % Width /\ nwrite' = nwrite
                       /\ out' = [i \in 1 .. k |-> data[(nread + i - 1) % PIPESIZE]]
  BY ReadTypes
<1>3. /\ Used' = Used - k
      /\ \A m \in Nat : k + m < Used =>
            data'[(nread' + m) % PIPESIZE] = data[(nread + k + m) % PIPESIZE]
      /\ nread' \in 0 .. Width - 1
  BY <1>2, ReadIs DEF BytesKept
<1>4. /\ Bytes \in Seq(Data) /\ Len(Bytes) = Used
      /\ Bytes = [i \in 1 .. Used |-> data[(nread + i - 1) % PIPESIZE]]
  BY BytesIs
<1>5. out' = SubSeq(Bytes, 1, k)
  <2>1. SubSeq(Bytes, 1, k) = [i \in 1 .. k |-> Bytes[i]]
    BY <1>1, <1>2, <1>4
  <2>2. \A i \in 1 .. k : i \in 1 .. Used
    BY <1>1, <1>2
  <2> QED
    BY <1>2, <1>4, <2>1, <2>2
<1>6. Bytes' = [i \in 1 .. Used - k |-> data'[(nread' + i - 1) % PIPESIZE]]
  BY <1>3 DEF Bytes
<1>7. SubSeq(Bytes, k + 1, Used) = [i \in 1 .. Used - k |-> Bytes[k + i]]
  BY <1>1, <1>2, <1>4
<1>8. ASSUME NEW i \in 1 .. Used - k
      PROVE  data'[(nread' + i - 1) % PIPESIZE] = Bytes[k + i]
  <2>1. /\ i - 1 \in Nat /\ k + (i - 1) < Used /\ k + i \in 1 .. Used
        /\ nread + k + (i - 1) = nread + (k + i) - 1
    BY <1>1, <1>2
  <2>2. nread' + (i - 1) = nread' + i - 1
    BY <1>3, PipeAssumption
  <2>3. data'[(nread' + (i - 1)) % PIPESIZE] = data[(nread + k + (i - 1)) % PIPESIZE]
    BY <1>3, <2>1
  <2>4. Bytes[k + i] = data[(nread + (k + i) - 1) % PIPESIZE]
    BY <1>4, <2>1
  <2> QED
    BY <2>1, <2>2, <2>3, <2>4
<1>9. Bytes' = SubSeq(Bytes, k + 1, Len(Bytes))
  BY <1>4, <1>6, <1>7, <1>8
<1>10. k \in 0 .. Len(Bytes)
  BY <1>1, <1>2, <1>4
<1> QED
  BY <1>5, <1>9, <1>10

\* Nobody has a descriptor for a pipe that is gone.
LEMMA NoHolders ==
  ASSUME TypeOK, Ends, ~page
  PROVE  \A w \in BOOLEAN : Holders(w) = {}
<1>1. \A w \in BOOLEAN : \A f \in Slot : ~IsEnd(f, w)
  BY EndsIs
<1>2. \A q \in Proc, d \in Fd : ofile[q][d] # None => ofile[q][d] \in Slot
  BY Types
<1> QED
  BY <1>1, <1>2 DEF Holders, IsEnd

LEMMA PageUnder ==
  ASSUME IInv, NEW p \in Proc, pc[p] \in ReadLabels \cup WriteLabels
  PROVE  page
<1>1. p \in Holders(FALSE) \/ p \in Holders(TRUE)
  BY DEF IInv, InPipe
<1> QED
  BY <1>1, NoHolders DEF IInv

\* What the queue holds, and who uses it.
Chan == IF page THEN Bytes ELSE <<>>
Users == Holders(TRUE) \cup Holders(FALSE)

LEMMA UsersStay ==
  ASSUME ftable' = ftable, ofile' = ofile
  PROVE  Users' = Users
BY DEF Users, Holders

\* The steps that leave the pipe's bytes alone return none.
LEMMA QuietSteps ==
  ASSUME IInv, [Next]_vars
  PROVE  \/ UNCHANGED vars
         \/ out' = <<>> /\ UNCHANGED <<data, nread, nwrite, page>>
         \/ \E p \in Proc : \/ PipeMake(p) \/ Pipeclose(p) \/ PipereadCopy(p)
                            \/ PipewriteDone(p) \/ PipewriteError(p) \/ PipewriteWait(p)
<1>1. ASSUME NEW p \in Proc, RWStep(p)
      PROVE  \/ out' = <<>> /\ UNCHANGED <<data, nread, nwrite, page>>
             \/ PipereadCopy(p) \/ PipewriteDone(p) \/ PipewriteError(p) \/ PipewriteWait(p)
  BY <1>1
     DEF RWStep, SysRead, SysWrite, Kill, PipereadWait, PipereadKilled, PipereadSleep,
              PipewriteSleep, CallWith, pipe, Goto, Quiet
<1>2. ASSUME NEW p \in Proc, PipeFile(p) \/ PipeBad(p) \/ PipeNoFds(p) \/ PipeFds(p) \/ SysDup(p)
                             \/ Fork(p) \/ Fileclose(p) \/ SysPipe(p) \/ ExitDone(p)
      PROVE  out' = <<>> /\ UNCHANGED <<data, nread, nwrite, page>>
  BY <1>2
     DEF PipeFile, PipeBad, PipeNoFds, PipeFds, SysDup, Fork, Fileclose, SysPipe,
         ExitDone, pipe,
              Goto, Quiet
<1>3. ASSUME NEW p \in Proc, NEW d \in Fd, CloseFd(p, d)
      PROVE  out' = <<>> /\ UNCHANGED <<data, nread, nwrite, page>>
  BY <1>3 DEF CloseFd, pipe, Goto, Quiet
<1> QED
  BY <1>1, <1>2, <1>3, Steps

LEMMA InitFifo ==
  ASSUME Init
  PROVE  Queue!Init
<1>1. IInv /\ ~page /\ out = <<>>
  BY InitIInv DEF Init
<1>2. Holders(TRUE) = {} /\ Holders(FALSE) = {}
  BY <1>1, NoHolders DEF IInv
<1> QED
  BY <1>1, <1>2 DEF Queue!Init

LEMMA FifoStep ==
  ASSUME IInv, IInv', [Next]_vars
  PROVE  [Queue!Next]_Queue!vars
<1>1. /\ TypeOK /\ BytesKept /\ Ends /\ Counted /\ TypeOK' /\ Ends'
      /\ PIPESIZE \in Nat \ {0} /\ Width \in Nat \ {0}
  BY PipeAssumption DEF IInv
<1>2. Used \in Nat /\ Room \in Nat /\ Used + Room = PIPESIZE
  BY <1>1, RoomIs
<1>3. Bytes \in Seq(Data) /\ Len(Bytes) = Used
  BY <1>1, BytesIs
\* Descriptors come and go, or nothing happens to the pipe.
<1>4. out' = <<>> /\ Chan' = Chan => Queue!Next
  <2>1. CASE Users' = Users
    BY <2>1 DEF Chan, Users, Queue!Next, Queue!Other
  <2>2. CASE Users' # Users
    BY <2>2 DEF Chan, Users, Queue!Next, Queue!Share
  <2> QED
    BY <2>1, <2>2
<1>5. out' = <<>> /\ Chan' = <<>> /\ Users = {} /\ Users' = {} => Queue!Next
  BY DEF Chan, Users, Queue!Next, Queue!Reset
<1>6. CASE UNCHANGED vars
  <2>1. UNCHANGED <<data, nread, nwrite, page, out, ftable, ofile>>
    BY <1>6 DEF vars, pipe, filevars
  <2>2. Chan' = Chan /\ Users' = Users
    BY <2>1, UsersStay DEF Chan, Bytes, Used
  <2> QED
    BY <2>1, <2>2 DEF Queue!vars, Chan, Users
<1>7. CASE out' = <<>> /\ UNCHANGED <<data, nread, nwrite, page>>
  <2>1. Chan' = Chan
    BY <1>7 DEF Chan, Bytes, Used
  <2> QED
    BY <1>4, <1>7, <2>1
<1>8. ASSUME NEW p \in Proc, PipeMake(p)
      PROVE  Queue!Next
  <2>1. /\ ~page /\ page' /\ nread' = 0 /\ nwrite' = 0 /\ out' = <<>> /\ pc[p] = "kalloc"
        /\ ofile' = ofile
    BY <1>8 DEF PipeMake, Goto, Quiet
  <2>2. Used' = 0
    BY <1>1, <2>1, ModSmall DEF Used
  <2>3. Chan' = <<>>
    BY <2>1, <2>2 DEF Chan, Bytes
  <2>4. Users = {}
    BY <1>1, <2>1, NoHolders DEF Users
  <2>5. call[p].new \in Seq(Slot) /\ Len(call[p].new) = 2
    BY <1>1, <1>8, <2>1, Types DEF IInv, Calls, NewFiles
  <2>6. PICK g \in Slot, h \in Slot : g = call[p].new[1] /\ h = call[p].new[2]
    BY <2>5
  <2>7. 1 \in DOMAIN call[p].new /\ 2 \in DOMAIN call[p].new
    BY <2>5
  <2>8. p \in Making(g) /\ p \in Making(h)
    BY <1>8, <2>6, <2>7 DEF Making
  <2>9. ftable[g].ref = 1 /\ ftable[h].ref = 1
    BY <2>8, FilesKept
  <2>10. Descriptors(g) = {} /\ Descriptors(h) = {}
    BY <1>1, <2>8, <2>9, Referred
  <2>11. \A f \in Slot : f # g /\ f # h => ftable'[f] = ftable[f]
    BY <1>1, <1>8, <2>6, Types DEF PipeMake
  <2>12. \A f \in Slot : \A w \in BOOLEAN : ~IsEnd(f, w)
    BY <1>1, <2>1, EndsIs
  <2>13. ASSUME NEW q \in Proc, NEW d \in Fd, ofile[q][d] # None
         PROVE  ftable'[ofile[q][d]].type # "PIPE"
    <3>1. PICK f \in Slot : f = ofile[q][d]
      BY <1>1, <2>13, Types
    <3>2. <<q, d>> \in Descriptors(f)
      BY <3>1 DEF Descriptors
    <3>3. f # g /\ f # h
      BY <2>10, <3>2
    <3>4. ftable[f].writable \in BOOLEAN
      BY <1>1, Types
    <3> QED
      BY <2>11, <2>12, <3>1, <3>3, <3>4 DEF IsEnd
  <2>14. Users' = {}
    BY <2>1, <2>13 DEF Users, Holders
  <2> QED
    BY <1>5, <2>1, <2>3, <2>4, <2>14
<1>9. ASSUME NEW p \in Proc, Pipeclose(p)
      PROVE  Queue!Next
  <2>1. /\ out' = <<>> /\ ftable' = ftable /\ ofile' = ofile
        /\ page' => UNCHANGED <<data, nread, nwrite>>
        /\ writeopen' => writeopen
        /\ readopen' => readopen
    BY <1>9 DEF Pipeclose, GotoWaking, Quiet, filevars
  <2>2. CASE page'
    <3>1. page
      BY <1>1, <2>1, <2>2, EndsIs, EndsIsNext
    <3>2. Chan' = Chan
      BY <2>1, <2>2, <3>1 DEF Chan, Bytes, Used
    <3> QED
      BY <1>4, <2>1, <3>2
  <2>3. CASE ~page'
    <3>1. \A w \in BOOLEAN : \A f \in Slot : ~IsEnd(f, w)'
      BY <1>1, <2>3, EndsIsNext
    <3>2. \A q \in Proc, d \in Fd : ofile[q][d] # None =>
             ofile[q][d] \in Slot /\ ftable[ofile[q][d]].writable \in BOOLEAN
      BY <1>1, Types
    <3>3. Users = {}
      BY <2>1, <3>1, <3>2 DEF Users, Holders, IsEnd
    <3>4. Users' = {} /\ Chan' = <<>>
      BY <2>1, <2>3, <3>3, UsersStay DEF Chan
    <3> QED
      BY <1>5, <2>1, <3>3, <3>4
  <2> QED
    BY <2>2, <2>3
<1>10. ASSUME NEW p \in Proc, PipereadCopy(p)
       PROVE  Queue!Next
  <2>1. page /\ page' = page /\ ftable' = ftable /\ ofile' = ofile
    BY <1>10, PageUnder DEF PipereadCopy, ReadLabels, filevars
  <2>2. PICK k \in 0 .. Len(Bytes) : /\ out' = SubSeq(Bytes, 1, k)
                                     /\ Bytes' = SubSeq(Bytes, k + 1, Len(Bytes))
    BY <1>1, <1>10, ReadTakes
  <2>3. Chan = Bytes /\ Chan' = Bytes' /\ Users' = Users
    BY <2>1, UsersStay DEF Chan
  <2>4. /\ k \in 0 .. Len(Chan) /\ out' = SubSeq(Chan, 1, k)
        /\ Chan' = SubSeq(Chan, k + 1, Len(Chan))
    BY <2>2, <2>3
  <2>5. Queue!Receive
    BY <2>3, <2>4 DEF Queue!Receive, Chan, Users
  <2> QED
    BY <2>5 DEF Queue!Next
<1>11. ASSUME NEW p \in Proc, PipewriteDone(p) \/ PipewriteError(p) \/ PipewriteWait(p)
       PROVE  Queue!Next
  <2>1. page /\ page' = page /\ ftable' = ftable /\ ofile' = ofile /\ out' = <<>>
    BY <1>11, PageUnder
       DEF PipewriteDone, PipewriteError, PipewriteWait, WriteLabels, filevars,
                            Goto, GotoWaking, Quiet
  <2>2. PICK k \in 0 .. Room : Fill(p, k) /\ nread' = nread
    BY <1>1, <1>11, FillTypes
  <2>3. PICK s \in [1 .. k -> Data] : Bytes' = Bytes \o s
    BY <1>1, <1>11, <2>2, FillAppends
  <2>4. Chan = Bytes /\ Chan' = Bytes' /\ Users' = Users
    BY <2>1, UsersStay DEF Chan
  <2>5. CASE k = 0
    <3>1. s = <<>>
      BY <2>3, <2>5
    <3>2. Chan' = Chan
      BY <1>3, <2>3, <2>4, <3>1
    <3> QED
      BY <1>4, <2>1, <3>2
  <2>6. CASE k # 0
    <3>1. k \in 1 .. PIPESIZE - Len(Chan)
      BY <1>1, <1>2, <1>3, <2>4, <2>6
    <3>2. Chan' = Chan \o s
      BY <2>3, <2>4
    <3>3. Queue!Send
      BY <2>1, <2>4, <3>1, <3>2 DEF Queue!Send, Chan, Users
    <3> QED
      BY <3>3 DEF Queue!Next
  <2> QED
    BY <2>5, <2>6
<1> QED
  BY <1>6, <1>7, <1>8, <1>9, <1>10, <1>11, QuietSteps

\* The page of the pipe is not freed while anybody reads or writes it, asleep or
\* not (pipe.c:70-73).
THEOREM PipePageStays ==
  Spec => [](\A p \in Proc : pc[p] \in ReadLabels \cup WriteLabels => page)
<1>1. IInv => \A p \in Proc : pc[p] \in ReadLabels \cup WriteLabels => page
  BY PageUnder
<1> QED
  BY <1>1, PipeInvariant, PTL

\* The pipe is a bounded queue of bytes while anybody has it open, whatever its
\* size, across the wrap-around of nread and nwrite (pipe.c:78-121).
THEOREM PipeImplementsFifo == Spec => ImplementsFifo
<1>1. Init => Queue!Init
  BY InitFifo
<1>2. IInv /\ IInv' /\ [Next]_vars => [Queue!Next]_Queue!vars
  BY FifoStep
<1> QED
  BY <1>1, <1>2, PipeInvariant, PTL DEF Spec, ImplementsFifo, Queue!Spec

=============================================================================
