---------------------------- MODULE InodeProofs ----------------------------
(***************************************************************************)
(* Theorems about Inode.tla, for every number of processes, names, cache   *)
(* slots, inodes and blocks: the references of the inode cache are         *)
(* counted, the cache is write-through, and names, link counts, inodes and *)
(* blocks agree at every moment.                                           *)
(***************************************************************************)
EXTENDS Inode, TLAPS, FiniteSetTheorems, WellFoundedInduction

(***************************************************************************)
(* The inductive invariant.                                                *)
(***************************************************************************)
\* The references to slot s: open files, inodes of calls, inodes to put back.
Opens(s) == {p \in Proc : file[p] = s}
Uses(s) == {p \in Proc : call[p].ip = s}
Puts(s) == {p \in Proc : call[p].put = s}

Counted == \A s \in Slot : icache[s].ref =
               Cardinality(Opens(s)) + Cardinality(Uses(s)) + Cardinality(Puts(s))

\* A slot with references is that of one inode, and the only one of it.
OneSlot == /\ \A s \in Slot : icache[s].ref > 0 => icache[s].inum \in Inum
           /\ \A s, t \in Slot : /\ icache[s].ref > 0 /\ icache[t].ref > 0
                                 /\ icache[s].inum = icache[t].inum
                                 => s = t

Creating == {"ialloc", "iget", "newinode", "newlink"}
Putting == {"iput", "itrunc", "tupdate", "ifree", "iputdrop"}
WithIp == {"newinode", "newlink", "ilock", "linkinc", "linkdir", "linkbad", "unlink", "unlinkdec"}

\* What each process has got follows from where it is.
CallOK(p) ==
    /\ call[p].name # None <=> pc[p] \in Creating \cup {"unlink", "unlinkdec"}
    /\ call[p].inum # None <=> pc[p] = "iget"
    /\ call[p].ip # None <=> pc[p] \in WithIp \/ call[p].next = "linkbad"
    /\ call[p].put # None <=> pc[p] \in Putting
    /\ call[p].next = "linkbad" => pc[p] \in Putting
    /\ pc[p] \in Creating \cup {"ilock"} => file[p] = None
    /\ pc[p] = "wupdate" => file[p] # None

\* The locks are held by who is in a critical section.
Holds(p, s) == \/ pc[p] \in {"newlink", "unlinkdec"} /\ call[p].ip = s
               \/ pc[p] = "wupdate" /\ file[p] = s
               \/ pc[p] \in {"itrunc", "tupdate", "ifree"} /\ call[p].put = s
Locked == \A p \in Proc : \A s \in Slot : ilk[s] = p <=> Holds(p, s)

HasDir(p) == pc[p] \in Creating \cup {"unlink"} \/ call[p].next = "linkbad"
DirLocked == \A p \in Proc : dlk = p <=> HasDir(p)

\* What create and unlink have seen in the directory is still so.
Entry(p) == /\ pc[p] \in Creating => dir[call[p].name] = None
            /\ pc[p] = "unlink" => dir[call[p].name] = icache[call[p].ip].inum

\* A valid copy is what is on the disk, but for the block that a write has got
\* or itrunc has given back, until the iupdate that follows.
Updates(p, s) == \/ pc[p] = "wupdate" /\ file[p] = s
                 \/ pc[p] = "tupdate" /\ call[p].put = s
Updating(s) == \E p \in Proc : Updates(p, s)
Synced == \A s \in Slot : icache[s].ref > 0 /\ icache[s].copy # None =>
    /\ icache[s].copy.type = dinode[icache[s].inum].type
    /\ icache[s].copy.nlink = dinode[icache[s].inum].nlink
    /\ icache[s].copy.addr = dinode[icache[s].inum].addr \/ Updating(s)

\* p has a reference to s that it is not about to drop.
Works(p, s) == file[p] = s \/ call[p].ip = s \/ (call[p].put = s /\ pc[p] # "iputdrop")

\* Nobody works on an inode that is free on the disk.
FreeOK == \A i \in Inum : dinode[i].type = "free" =>
    /\ dinode[i] = FreeInode
    /\ \A s \in Cached(i) : icache[s].copy = None /\ \A q \in Proc : ~Works(q, s)

\* Only create works on an inode that ialloc has found, until it has a link.
Fresh == [FreeInode EXCEPT !.type = "file"]
NewOK(p) ==
    /\ pc[p] = "iget" => /\ dinode[call[p].inum] = Fresh
                         /\ \A s \in Cached(call[p].inum) :
                               icache[s].copy = None /\ \A q \in Proc : ~Works(q, s)
    /\ pc[p] = "newinode" => /\ dinode[icache[call[p].ip].inum] = Fresh
                             /\ icache[call[p].ip].copy = None
                             /\ \A q \in Proc : Works(q, call[p].ip) => q = p

\* Whose block is being entered, and what is being freed, is valid; and an inode
\* that is being freed stays without links, and with one reference.
ChangeOK(p) ==
    /\ pc[p] = "wupdate" => icache[file[p]].copy # None
    /\ pc[p] \in {"itrunc", "tupdate", "ifree"} => /\ icache[call[p].put].ref = 1
                                                   /\ icache[call[p].put].copy # None
                                                   /\ icache[call[p].put].copy.nlink = 0
    /\ pc[p] \in {"tupdate", "ifree"} => icache[call[p].put].copy.addr = None

\* LinksCounted, part by part.
Names(i) == {n \in Name : dir[n] = i}
Links == \A i \in Inum : dinode[i].nlink = Cardinality(Names(i)) + Cardinality(Pending(i))

NoPanic == panicked \notin {"ilock: no type", "unlink: nlink < 1", "freeing free block"}

Calls == \A p \in Proc : CallOK(p) /\ Entry(p) /\ NewOK(p) /\ ChangeOK(p)

IInv == /\ TypeOK
        /\ Counted /\ OneSlot
        /\ Calls
        /\ Locked /\ DirLocked
        /\ Synced
        /\ FreeOK
        /\ Links
        /\ BlocksOwned
        /\ NoPanic

(***************************************************************************)
(* Types.                                                                  *)
(***************************************************************************)
SlotRec == [inum : Inum \cup {None}, ref : Nat, copy : Dinode \cup {None}]
CallRec == [name : Name \cup {None}, inum : Inum \cup {None}, ip : Slot \cup {None},
            put : Slot \cup {None}, next : {"user", "linkbad"}]

LEMMA Types ==
  ASSUME TypeOK
  PROVE  /\ icache \in [Slot -> SlotRec]
         /\ ilk \in [Slot -> Proc \cup {None}]
         /\ dinode \in [Inum -> Dinode]
         /\ bitmap \in SUBSET Block
         /\ dir \in [Name -> Inum \cup {None}]
         /\ dlk \in Proc \cup {None}
         /\ file \in [Proc -> Slot \cup {None}]
         /\ pc \in [Proc -> Labels]
         /\ call \in [Proc -> CallRec]
BY DEF TypeOK, SlotRec, CallRec

LEMMA Nones ==
  /\ None \notin Proc /\ None \notin Name /\ None \notin Slot /\ None \notin Inum
  /\ None \notin Block /\ None \notin Dinode
BY InodeAssumption DEF Slot, Inum, Block

LEMMA RecordTypes ==
  ASSUME NEW d \in Dinode
  PROVE  /\ d.type \in {"free", "file"} /\ d.nlink \in Nat /\ d.addr \in Block \cup {None}
         /\ \A n \in Nat : [d EXCEPT !.nlink = n] \in Dinode
         /\ \A b \in Block \cup {None} : [d EXCEPT !.addr = b] \in Dinode
         /\ FreeInode \in Dinode /\ Fresh \in Dinode
BY DEF Dinode, FreeInode, Fresh

\* A step of p leaves the other processes where they are.
LEMMA OthersStay ==
  ASSUME TypeOK, NEW p \in Proc, CallStep(p)
  PROVE  \A q \in Proc : q # p => pc'[q] = pc[q] /\ call'[q] = call[q] /\ file'[q] = file[q]
<1>1. /\ pc \in [Proc -> Labels] /\ call \in [Proc -> CallRec]
      /\ file \in [Proc -> Slot \cup {None}]
  BY Types
<1>2. \A l : Goto(p, l) => \A q \in Proc : q # p => pc'[q] = pc[q]
  BY <1>1 DEF Goto
<1>3. \A m : Panic(m) => pc' = pc /\ call' = call /\ file' = file
  BY DEF Panic
<1>4. \A s : OpenDone(p, s) =>
         \A q \in Proc : q # p => pc'[q] = pc[q] /\ call'[q] = call[q] /\ file'[q] = file[q]
  BY <1>1 DEF OpenDone, Goto
<1>5. ASSUME NEW n \in Name, OpenName(p, n) \/ Create(p, n) \/ LinkOld(p, n) \/ LinkNew(p, n)
                             \/ LinkExists(p, n) \/ Unlink(p, n)
      PROVE  \A q \in Proc : q # p => pc'[q] = pc[q] /\ call'[q] = call[q] /\ file'[q] = file[q]
  BY <1>1, <1>2, <1>3, <1>5 DEF OpenName, Create, LinkOld, LinkNew, LinkExists, Unlink
<1>6. OpenLock(p) \/ NewLink(p) =>
         \A q \in Proc : q # p => pc'[q] = pc[q] /\ call'[q] = call[q] /\ file'[q] = file[q]
  BY <1>3, <1>4 DEF OpenLock, NewLink
<1>7. Ialloc(p) \/ IallocGet(p) \/ NewInode(p) \/ LinkInc(p) \/ LinkNoParent(p) \/ LinkBad(p) =>
         \A q \in Proc : q # p => pc'[q] = pc[q] /\ call'[q] = call[q] /\ file'[q] = file[q]
  BY <1>1, <1>2, <1>3 DEF Ialloc, IallocGet, NewInode, LinkInc, LinkNoParent, LinkBad
<1>8. UnlinkClear(p) \/ UnlinkDec(p) \/ WriteAlloc(p) \/ WriteUpdate(p) \/ Close(p) =>
         \A q \in Proc : q # p => pc'[q] = pc[q] /\ call'[q] = call[q] /\ file'[q] = file[q]
  BY <1>1, <1>2, <1>3 DEF UnlinkClear, UnlinkDec, WriteAlloc, WriteUpdate, Close
<1>9. IputTest(p) \/ Itrunc(p) \/ ItruncUpdate(p) \/ Ifree(p) \/ IputDrop(p) =>
         \A q \in Proc : q # p => pc'[q] = pc[q] /\ call'[q] = call[q] /\ file'[q] = file[q]
  BY <1>1, <1>2, <1>3 DEF IputTest, Itrunc, ItruncUpdate, Ifree, IputDrop
<1> QED
  BY <1>5, <1>6, <1>7, <1>8, <1>9 DEF CallStep

(***************************************************************************)
(* Who has a reference.                                                    *)
(***************************************************************************)
LEMMA Counts ==
  ASSUME NEW s
  PROVE  /\ IsFiniteSet(Opens(s)) /\ Cardinality(Opens(s)) \in Nat
         /\ IsFiniteSet(Uses(s)) /\ Cardinality(Uses(s)) \in Nat
         /\ IsFiniteSet(Puts(s)) /\ Cardinality(Puts(s)) \in Nat
<1>1. Opens(s) \subseteq Proc /\ Uses(s) \subseteq Proc /\ Puts(s) \subseteq Proc
  BY DEF Opens, Uses, Puts
<1> QED
  BY <1>1, InodeAssumption, FS_Subset, FS_CardinalityType

LEMMA CountPlus ==
  ASSUME NEW S, IsFiniteSet(S), NEW x, x \notin S
  PROVE  Cardinality(S \cup {x}) = Cardinality(S) + 1
BY FS_AddElement

LEMMA CountMinus ==
  ASSUME NEW S, IsFiniteSet(S), NEW x \in S
  PROVE  Cardinality(S \ {x}) = Cardinality(S) - 1 /\ Cardinality(S) >= 1
<1>1. Cardinality(S \ {x}) = Cardinality(S) - 1 /\ IsFiniteSet(S \ {x})
  BY FS_RemoveElement
<1>2. Cardinality(S \ {x}) \in Nat /\ Cardinality(S) \in Nat
  BY <1>1, FS_CardinalityType
<1> QED
  BY <1>1, <1>2

\* Who has a reference is counted, and who puts back the last one has the only one.
LEMMA Referred ==
  ASSUME Counted, NEW s \in Slot
  PROVE  /\ \A p \in Proc : file[p] = s \/ call[p].ip = s \/ call[p].put = s => icache[s].ref > 0
         /\ \A p \in Proc : icache[s].ref = 1 /\ call[p].put = s =>
               \A q \in Proc : file[q] # s /\ call[q].ip # s /\ (call[q].put = s => q = p)
<1> DEFINE a == Cardinality(Opens(s))
           b == Cardinality(Uses(s))
           c == Cardinality(Puts(s))
<1>1. a \in Nat /\ b \in Nat /\ c \in Nat /\ icache[s].ref = a + b + c
  BY Counts DEF Counted
<1>2. \A S : IsFiniteSet(S) /\ S # {} => Cardinality(S) >= 1
  BY CountMinus
<1>3. /\ Opens(s) # {} => a >= 1
      /\ Uses(s) # {} => b >= 1
      /\ Puts(s) # {} => c >= 1
  BY <1>2, Counts
<1>4. \A p, q \in Puts(s) : c = 1 => p = q
  <2> SUFFICES ASSUME NEW p \in Puts(s), NEW q \in Puts(s), c = 1, p # q
               PROVE  FALSE
    OBVIOUS
  <2>1. Cardinality(Puts(s) \ {p}) = 0 /\ IsFiniteSet(Puts(s) \ {p})
    BY Counts, CountMinus, FS_RemoveElement
  <2>2. Puts(s) \ {p} = {}
    BY <2>1, FS_EmptySet
  <2> QED
    BY <2>2
<1> HIDE DEF a, b, c
<1>5. \A p \in Proc : /\ file[p] = s <=> p \in Opens(s)
                      /\ call[p].ip = s <=> p \in Uses(s)
                      /\ call[p].put = s <=> p \in Puts(s)
  BY DEF Opens, Uses, Puts
<1>6. Opens(s) # {} \/ Uses(s) # {} \/ Puts(s) # {} => icache[s].ref > 0
  BY <1>1, <1>3
<1>7. icache[s].ref = 1 /\ Puts(s) # {} => Opens(s) = {} /\ Uses(s) = {} /\ c = 1
  BY <1>1, <1>3
<1> QED
  BY <1>4, <1>5, <1>6, <1>7

(***************************************************************************)
(* What the steps do to the cache and to the disk.                         *)
(***************************************************************************)
\* The slots other than s stay as they are.
OnlySlot(s) == icache' \in [Slot -> SlotRec] /\ \A t \in Slot : t # s => icache'[t] = icache[t]
OnlyInode(i) == dinode' \in [Inum -> Dinode] /\ \A j \in Inum : j # i => dinode'[j] = dinode[j]

LEMMA SlotUpdate ==
  ASSUME TypeOK, NEW s \in Slot, NEW r \in SlotRec, icache' = [icache EXCEPT ![s] = r]
  PROVE  OnlySlot(s) /\ icache'[s] = r
BY Types DEF OnlySlot

LEMMA InodeUpdate ==
  ASSUME TypeOK, NEW i \in Inum, NEW d \in Dinode, dinode' = [dinode EXCEPT ![i] = d]
  PROVE  OnlyInode(i) /\ dinode'[i] = d
BY Types DEF OnlyInode

LEMMA CachedIs ==
  ASSUME TypeOK, NEW i \in Inum, NEW s \in Slot
  PROVE  s \in Cached(i) <=> icache[s].ref > 0 /\ icache[s].inum = i
BY DEF Cached

\* iget takes a reference to the slot of i, or makes an empty slot that of i.
LEMMA IgetIs ==
  ASSUME TypeOK, NEW i \in Inum, NEW s, Iget(i, s)
  PROVE  /\ s \in Slot /\ OnlySlot(s)
         /\ icache'[s].inum = i /\ icache'[s].ref = icache[s].ref + 1
         /\ \/ icache[s].ref > 0 /\ icache[s].inum = i /\ icache'[s].copy = icache[s].copy
            \/ icache[s].ref = 0 /\ Cached(i) = {} /\ icache'[s].copy = None
<1>1. icache \in [Slot -> SlotRec]
  BY Types
<1>2. CASE Cached(i) # {}
  <2>1. s \in Slot /\ icache[s].ref > 0 /\ icache[s].inum = i
    BY <1>2 DEF Iget, Cached
  <2>2. PICK r \in SlotRec : r = icache[s]
    BY <1>1, <2>1
  <2>3. icache' = [icache EXCEPT ![s] = [r EXCEPT !.ref = r.ref + 1]]
    BY <1>1, <1>2, <2>1, <2>2 DEF Iget
  <2>4. /\ [r EXCEPT !.ref = r.ref + 1] \in SlotRec
        /\ [r EXCEPT !.ref = r.ref + 1].ref = r.ref + 1
        /\ [r EXCEPT !.ref = r.ref + 1].inum = r.inum
        /\ [r EXCEPT !.ref = r.ref + 1].copy = r.copy
    BY DEF SlotRec
  <2>5. OnlySlot(s) /\ icache'[s] = [r EXCEPT !.ref = r.ref + 1]
    BY <2>1, <2>3, <2>4, SlotUpdate
  <2> QED
    BY <2>1, <2>2, <2>4, <2>5
<1>3. CASE Cached(i) = {}
  <2>1. /\ s \in Slot /\ icache[s].ref = 0
        /\ icache' = [icache EXCEPT ![s] = [inum |-> i, ref |-> 1, copy |-> None]]
    BY <1>3 DEF Iget, EmptySlots
  <2>2. [inum |-> i, ref |-> 1, copy |-> None] \in SlotRec
    BY DEF SlotRec
  <2>3. OnlySlot(s) /\ icache'[s] = [inum |-> i, ref |-> 1, copy |-> None]
    BY <2>1, <2>2, SlotUpdate
  <2> QED
    BY <1>3, <2>1, <2>3
<1> QED
  BY <1>2, <1>3

\* The copy of a slot is set.
LEMMA CopySet ==
  ASSUME TypeOK, NEW s \in Slot, NEW d \in Dinode \cup {None},
         icache' = [icache EXCEPT ![s].copy = d]
  PROVE  /\ OnlySlot(s) /\ icache'[s].copy = d
         /\ icache'[s].inum = icache[s].inum /\ icache'[s].ref = icache[s].ref
<1>1. PICK r \in SlotRec : r = icache[s]
  BY Types
<1>2. icache' = [icache EXCEPT ![s] = [r EXCEPT !.copy = d]]
  BY <1>1, Types
<1>3. /\ [r EXCEPT !.copy = d] \in SlotRec /\ [r EXCEPT !.copy = d].copy = d
      /\ [r EXCEPT !.copy = d].inum = r.inum /\ [r EXCEPT !.copy = d].ref = r.ref
  BY DEF SlotRec
<1>4. OnlySlot(s) /\ icache'[s] = [r EXCEPT !.copy = d]
  BY <1>2, <1>3, SlotUpdate
<1> QED
  BY <1>1, <1>3, <1>4

LEMMA IupdateIs ==
  ASSUME TypeOK, OneSlot, NEW s \in Slot, icache[s].ref > 0, NEW d \in Dinode, Iupdate(s, d)
  PROVE  /\ OnlySlot(s) /\ icache'[s].copy = d
         /\ icache'[s].inum = icache[s].inum /\ icache'[s].ref = icache[s].ref
         /\ icache[s].inum \in Inum /\ OnlyInode(icache[s].inum) /\ dinode'[icache[s].inum] = d
<1>1. icache' = [icache EXCEPT ![s].copy = d] /\ dinode' = [dinode EXCEPT ![icache[s].inum] = d]
  BY DEF Iupdate
<1>2. icache[s].inum \in Inum
  BY DEF OneSlot
<1> QED
  BY <1>1, <1>2, CopySet, InodeUpdate

\* A reference is dropped.
LEMMA DropIs ==
  ASSUME TypeOK, NEW s \in Slot, icache[s].ref > 0, icache' = [icache EXCEPT ![s].ref = @ - 1]
  PROVE  /\ OnlySlot(s) /\ icache'[s].copy = icache[s].copy
         /\ icache'[s].inum = icache[s].inum /\ icache'[s].ref = icache[s].ref - 1
<1>1. PICK r \in SlotRec : r = icache[s]
  BY Types
<1>2. icache' = [icache EXCEPT ![s] = [r EXCEPT !.ref = r.ref - 1]]
  BY <1>1, Types
<1>3. /\ [r EXCEPT !.ref = r.ref - 1] \in SlotRec
      /\ [r EXCEPT !.ref = r.ref - 1].ref = r.ref - 1
      /\ [r EXCEPT !.ref = r.ref - 1].inum = r.inum
      /\ [r EXCEPT !.ref = r.ref - 1].copy = r.copy
  BY <1>1 DEF SlotRec
<1>4. OnlySlot(s) /\ icache'[s] = [r EXCEPT !.ref = r.ref - 1]
  BY <1>2, <1>3, SlotUpdate
<1> QED
  BY <1>1, <1>3, <1>4

\* What ilock finds is an inode, and unless an iupdate of its block is due, it
\* is the one on the disk.
LEMMA CopyIs ==
  ASSUME TypeOK, OneSlot, Synced, Locked, NEW s \in Slot, icache[s].ref > 0
  PROVE  /\ icache[s].inum \in Inum /\ Copy(s) \in Dinode
         /\ Copy(s).type = dinode[icache[s].inum].type
         /\ Copy(s).nlink = dinode[icache[s].inum].nlink
         /\ ilk[s] = None \/ ~Updating(s) => Copy(s) = dinode[icache[s].inum]
         /\ icache[s].copy # None => Copy(s) = icache[s].copy
<1>1. /\ icache[s].inum \in Inum /\ icache[s].copy \in Dinode \cup {None}
      /\ dinode[icache[s].inum] \in Dinode
  BY Types DEF OneSlot, SlotRec
<1>2. Copy(s) = IF icache[s].copy # None THEN icache[s].copy ELSE dinode[icache[s].inum]
  BY DEF Copy
<1>3. /\ Copy(s).type = dinode[icache[s].inum].type
      /\ Copy(s).nlink = dinode[icache[s].inum].nlink
      /\ ~Updating(s) => Copy(s).addr = dinode[icache[s].inum].addr
  BY <1>2 DEF Synced
<1>4. ilk[s] = None => ~Updating(s)
  BY Nones DEF Locked, Holds, Updating, Updates
<1>5. \A d, e \in Dinode : d.type = e.type /\ d.nlink = e.nlink /\ d.addr = e.addr => d = e
  BY DEF Dinode
<1>6. Copy(s) \in Dinode
  BY <1>1, <1>2
<1> QED
  BY <1>1, <1>2, <1>3, <1>4, <1>5, <1>6

(***************************************************************************)
(* What a process has got, where it is.                                    *)
(***************************************************************************)
LEMMA Here ==
  ASSUME IInv, NEW p \in Proc
  PROVE  /\ pc[p] \in WithIp \/ call[p].next = "linkbad" =>
               call[p].ip \in Slot /\ icache[call[p].ip].ref > 0
         /\ pc[p] \in Putting => call[p].put \in Slot /\ icache[call[p].put].ref > 0
         /\ file[p] # None => file[p] \in Slot /\ icache[file[p]].ref > 0
         /\ pc[p] = "wupdate" => file[p] # None
         /\ pc[p] = "iget" => call[p].inum \in Inum
         /\ pc[p] \in Creating \cup {"unlink", "unlinkdec"} => call[p].name \in Name
         /\ pc[p] = "user" => call[p] = NoCall
         /\ pc[p] \notin Putting => call[p].put = None /\ call[p].next = "user"
<1>1. /\ Counted /\ CallOK(p)
      /\ call[p] \in CallRec /\ file[p] \in Slot \cup {None}
  BY Types DEF IInv, Calls
<1>2. /\ call[p].name \in Name \cup {None} /\ call[p].inum \in Inum \cup {None}
      /\ call[p].ip \in Slot \cup {None} /\ call[p].put \in Slot \cup {None}
      /\ call[p].next \in {"user", "linkbad"}
  BY <1>1 DEF CallRec
<1>3. /\ \A s \in Slot : file[p] = s \/ call[p].ip = s \/ call[p].put = s => icache[s].ref > 0
  BY <1>1, Referred
<1>4. pc[p] = "user" => call[p] = NoCall
  <2> SUFFICES ASSUME pc[p] = "user"
               PROVE  call[p] = NoCall
    OBVIOUS
  <2>1. /\ call[p].name = None /\ call[p].inum = None /\ call[p].ip = None
        /\ call[p].put = None /\ call[p].next = "user"
    BY <1>1, <1>2 DEF CallOK, Creating, Putting, WithIp
  <2> QED
    BY <1>1, <2>1 DEF CallRec, NoCall
<1>5. pc[p] \notin Putting => call[p].put = None /\ call[p].next = "user"
  BY <1>1, <1>2 DEF CallOK
<1>6. pc[p] \in WithIp \/ call[p].next = "linkbad" => call[p].ip \in Slot
  BY <1>1, <1>2 DEF CallOK
<1>7. pc[p] \in Putting => call[p].put \in Slot
  BY <1>1, <1>2 DEF CallOK
<1>8. pc[p] = "iget" => call[p].inum \in Inum
  BY <1>1, <1>2 DEF CallOK
<1>9. pc[p] \in Creating \cup {"unlink", "unlinkdec"} => call[p].name \in Name
  BY <1>1, <1>2 DEF CallOK
<1>10. pc[p] = "wupdate" => file[p] # None
  BY <1>1 DEF CallOK
<1> QED
  BY <1>1, <1>3, <1>4, <1>5, <1>6, <1>7, <1>8, <1>9, <1>10

\* The local variables after a step.
LEMMA CallTypeIs ==
  ASSUME NEW c \in CallRec
  PROVE  /\ \A s \in Slot \cup {None} : [c EXCEPT !.ip = s] \in CallRec
         /\ \A s \in Slot \cup {None} : [c EXCEPT !.put = s] \in CallRec
         /\ \A n \in Name : [c EXCEPT !.name = n] \in CallRec
         /\ \A i \in Inum : [c EXCEPT !.inum = i] \in CallRec
         /\ \A s \in Slot : [c EXCEPT !.ip = s, !.inum = None] \in CallRec
         /\ \A s \in Slot : \A n \in Name : [c EXCEPT !.ip = s, !.name = n] \in CallRec
         /\ \A s \in Slot : [c EXCEPT !.put = s, !.next = "linkbad"] \in CallRec
         /\ [c EXCEPT !.put = None, !.next = "user"] \in CallRec
         /\ NoCall \in CallRec
         /\ \A s \in Slot : [NoCall EXCEPT !.put = s] \in CallRec
BY DEF CallRec, NoCall

CallIs(p, c) == call' = [call EXCEPT ![p] = c]

LEMMA CallAt ==
  ASSUME TypeOK, NEW p \in Proc, NEW c \in CallRec, CallIs(p, c)
  PROVE  call'[p] = c /\ call' \in [Proc -> CallRec]
BY Types DEF CallIs

LEMMA CallEffects ==
  ASSUME TypeOK, NEW p \in Proc
  PROVE  /\ \A s : call' = [call EXCEPT ![p].ip = s] => CallIs(p, [call[p] EXCEPT !.ip = s])
         /\ \A s : call' = [call EXCEPT ![p].put = s] => CallIs(p, [call[p] EXCEPT !.put = s])
         /\ \A n : call' = [call EXCEPT ![p].name = n] => CallIs(p, [call[p] EXCEPT !.name = n])
         /\ \A i : call' = [call EXCEPT ![p].inum = i] => CallIs(p, [call[p] EXCEPT !.inum = i])
         /\ \A s : call' = [call EXCEPT ![p].ip = s, ![p].inum = None] =>
               CallIs(p, [call[p] EXCEPT !.ip = s, !.inum = None])
         /\ \A s, n : call' = [call EXCEPT ![p].ip = s, ![p].name = n] =>
               CallIs(p, [call[p] EXCEPT !.ip = s, !.name = n])
         /\ \A s : call' = [call EXCEPT ![p].put = s, ![p].next = "linkbad"] =>
               CallIs(p, [call[p] EXCEPT !.put = s, !.next = "linkbad"])
         /\ call' = [call EXCEPT ![p].put = None, ![p].next = "user"] =>
               CallIs(p, [call[p] EXCEPT !.put = None, !.next = "user"])
<1>1. call \in [Proc -> CallRec]
  BY Types
<1> QED
  BY <1>1 DEF CallIs

\* A panic for want of room changes nothing but the message.
Stuck == /\ UNCHANGED <<icache, ilk, dinode, bitmap, dir, dlk, file, pc, call>>
         /\ panicked' \in {"ialloc: no inodes", "iget: no inodes", "balloc: out of blocks"}

\* p goes from l to m, with the local variables c and the open file f.
Move(p, l, m, c, f) == pc[p] = l /\ pc'[p] = m /\ call'[p] = c /\ file'[p] = f

Call(n, i, s, t, x) == [name |-> n, inum |-> i, ip |-> s, put |-> t, next |-> x]
WithPut(s) == Call(None, None, None, s, "user")

LEMMA CallEq ==
  ASSUME NEW c \in CallRec, NEW n \in Name \cup {None}, NEW i \in Inum \cup {None},
         NEW s \in Slot \cup {None}, NEW t \in Slot \cup {None}, NEW x \in {"user", "linkbad"},
         c.name = n, c.inum = i, c.ip = s, c.put = t, c.next = x
  PROVE  c = Call(n, i, s, t, x)
<1>1. /\ Call(n, i, s, t, x) \in CallRec
      /\ Call(n, i, s, t, x).name = n /\ Call(n, i, s, t, x).inum = i
      /\ Call(n, i, s, t, x).ip = s /\ Call(n, i, s, t, x).put = t
      /\ Call(n, i, s, t, x).next = x
  BY DEF Call, CallRec
<1>2. \A d, e \in CallRec : /\ d.name = e.name /\ d.inum = e.inum /\ d.ip = e.ip
                            /\ d.put = e.put /\ d.next = e.next
                            => d = e
  BY DEF CallRec
<1> QED
  BY <1>1, <1>2

LEMMA CallForm ==
  ASSUME NEW c \in CallRec
  PROVE  /\ c = Call(c.name, c.inum, c.ip, c.put, c.next)
         /\ \A s \in Slot : [c EXCEPT !.ip = s] = Call(c.name, c.inum, s, c.put, c.next)
         /\ \A s \in Slot : [c EXCEPT !.put = s] = Call(c.name, c.inum, c.ip, s, c.next)
         /\ \A n \in Name : [c EXCEPT !.name = n] = Call(n, c.inum, c.ip, c.put, c.next)
         /\ \A i \in Inum : [c EXCEPT !.inum = i] = Call(c.name, i, c.ip, c.put, c.next)
         /\ \A s \in Slot :
               [c EXCEPT !.ip = s, !.inum = None] = Call(c.name, None, s, c.put, c.next)
         /\ \A s \in Slot : \A n \in Name :
               [c EXCEPT !.ip = s, !.name = n] = Call(n, c.inum, s, c.put, c.next)
         /\ \A s \in Slot :
               [c EXCEPT !.put = s, !.next = "linkbad"] = Call(c.name, c.inum, c.ip, s, "linkbad")
         /\ [c EXCEPT !.put = None, !.next = "user"] = Call(c.name, c.inum, c.ip, None, "user")
<1>1. /\ c.name \in Name \cup {None} /\ c.inum \in Inum \cup {None} /\ c.ip \in Slot \cup {None}
      /\ c.put \in Slot \cup {None} /\ c.next \in {"user", "linkbad"}
  BY DEF CallRec
<1>2. c = Call(c.name, c.inum, c.ip, c.put, c.next)
  BY <1>1, CallEq
<1>3. \A s \in Slot : [c EXCEPT !.ip = s] = Call(c.name, c.inum, s, c.put, c.next)
  <2> TAKE s \in Slot
  <2> DEFINE e == [c EXCEPT !.ip = s]
  <2>1. e \in CallRec
    BY CallTypeIs
  <2>2. e.name = c.name /\ e.inum = c.inum /\ e.ip = s /\ e.put = c.put /\ e.next = c.next
    BY DEF CallRec
  <2> HIDE DEF e
  <2>3. e = Call(c.name, c.inum, s, c.put, c.next)
    BY <1>1, <2>1, <2>2, CallEq
  <2> QED
    BY <2>3 DEF e
<1>4. \A s \in Slot : [c EXCEPT !.put = s] = Call(c.name, c.inum, c.ip, s, c.next)
  <2> TAKE s \in Slot
  <2> DEFINE e == [c EXCEPT !.put = s]
  <2>1. e \in CallRec
    BY CallTypeIs
  <2>2. e.name = c.name /\ e.inum = c.inum /\ e.ip = c.ip /\ e.put = s /\ e.next = c.next
    BY DEF CallRec
  <2> HIDE DEF e
  <2>3. e = Call(c.name, c.inum, c.ip, s, c.next)
    BY <1>1, <2>1, <2>2, CallEq
  <2> QED
    BY <2>3 DEF e
<1>5. \A n \in Name : [c EXCEPT !.name = n] = Call(n, c.inum, c.ip, c.put, c.next)
  <2> TAKE n \in Name
  <2> DEFINE e == [c EXCEPT !.name = n]
  <2>1. e \in CallRec
    BY CallTypeIs
  <2>2. e.name = n /\ e.inum = c.inum /\ e.ip = c.ip /\ e.put = c.put /\ e.next = c.next
    BY DEF CallRec
  <2> HIDE DEF e
  <2>3. e = Call(n, c.inum, c.ip, c.put, c.next)
    BY <1>1, <2>1, <2>2, CallEq
  <2> QED
    BY <2>3 DEF e
<1>6. \A i \in Inum : [c EXCEPT !.inum = i] = Call(c.name, i, c.ip, c.put, c.next)
  <2> TAKE i \in Inum
  <2> DEFINE e == [c EXCEPT !.inum = i]
  <2>1. e \in CallRec
    BY CallTypeIs
  <2>2. e.name = c.name /\ e.inum = i /\ e.ip = c.ip /\ e.put = c.put /\ e.next = c.next
    BY DEF CallRec
  <2> HIDE DEF e
  <2>3. e = Call(c.name, i, c.ip, c.put, c.next)
    BY <1>1, <2>1, <2>2, CallEq
  <2> QED
    BY <2>3 DEF e
<1>7. \A s \in Slot :
         [c EXCEPT !.ip = s, !.inum = None] = Call(c.name, None, s, c.put, c.next)
  <2> TAKE s \in Slot
  <2> DEFINE e == [c EXCEPT !.ip = s, !.inum = None]
  <2>1. e \in CallRec
    BY CallTypeIs
  <2>2. e.name = c.name /\ e.inum = None /\ e.ip = s /\ e.put = c.put /\ e.next = c.next
    BY DEF CallRec
  <2> HIDE DEF e
  <2>3. e = Call(c.name, None, s, c.put, c.next)
    BY <1>1, <2>1, <2>2, CallEq
  <2> QED
    BY <2>3 DEF e
<1>8. \A s \in Slot : \A n \in Name :
         [c EXCEPT !.ip = s, !.name = n] = Call(n, c.inum, s, c.put, c.next)
  <2> TAKE s \in Slot
  <2> TAKE n \in Name
  <2> DEFINE e == [c EXCEPT !.ip = s, !.name = n]
  <2>1. e \in CallRec
    BY CallTypeIs
  <2>2. e.name = n /\ e.inum = c.inum /\ e.ip = s /\ e.put = c.put /\ e.next = c.next
    BY DEF CallRec
  <2> HIDE DEF e
  <2>3. e = Call(n, c.inum, s, c.put, c.next)
    BY <1>1, <2>1, <2>2, CallEq
  <2> QED
    BY <2>3 DEF e
<1>9. \A s \in Slot :
         [c EXCEPT !.put = s, !.next = "linkbad"] = Call(c.name, c.inum, c.ip, s, "linkbad")
  <2> TAKE s \in Slot
  <2> DEFINE e == [c EXCEPT !.put = s, !.next = "linkbad"]
  <2>1. e \in CallRec
    BY CallTypeIs
  <2>2. e.name = c.name /\ e.inum = c.inum /\ e.ip = c.ip /\ e.put = s /\ e.next = "linkbad"
    BY DEF CallRec
  <2> HIDE DEF e
  <2>3. e = Call(c.name, c.inum, c.ip, s, "linkbad")
    BY <1>1, <2>1, <2>2, CallEq
  <2> QED
    BY <2>3 DEF e
<1>10. [c EXCEPT !.put = None, !.next = "user"] = Call(c.name, c.inum, c.ip, None, "user")
  <2> DEFINE e == [c EXCEPT !.put = None, !.next = "user"]
  <2>1. e \in CallRec
    BY CallTypeIs
  <2>2. e.name = c.name /\ e.inum = c.inum /\ e.ip = c.ip /\ e.put = None /\ e.next = "user"
    BY DEF CallRec
  <2> HIDE DEF e
  <2>3. e = Call(c.name, c.inum, c.ip, None, "user")
    BY <1>1, <2>1, <2>2, CallEq
  <2> QED
    BY <2>3 DEF e
<1> QED
  BY <1>2, <1>3, <1>4, <1>5, <1>6, <1>7, <1>8, <1>9, <1>10

LEMMA NoCallForm ==
  /\ NoCall \in CallRec /\ NoCall = Call(None, None, None, None, "user")
  /\ \A s \in Slot : [NoCall EXCEPT !.put = s] = WithPut(s)
  /\ \A s \in Slot : [NoCall EXCEPT !.ip = s] = Call(None, None, s, None, "user")
  /\ \A s \in Slot : \A n \in Name :
        [NoCall EXCEPT !.ip = s, !.name = n] = Call(n, None, s, None, "user")
  /\ \A n \in Name : [NoCall EXCEPT !.name = n] = Call(n, None, None, None, "user")
<1> DEFINE c == NoCall
<1>1. /\ c \in CallRec /\ c.name = None /\ c.inum = None /\ c.ip = None
      /\ c.put = None /\ c.next = "user"
  BY DEF NoCall, CallRec
<1> HIDE DEF c
<1>2. c = Call(None, None, None, None, "user")
  BY <1>1, CallForm
<1>3. \A s \in Slot :
         [c EXCEPT !.put = s] = WithPut(s)
  <2> TAKE s \in Slot
  <2>1. [c EXCEPT !.put = s] = Call(c.name, c.inum, c.ip, s, c.next)
    BY <1>1, CallForm
  <2>2. Call(c.name, c.inum, c.ip, s, c.next) = WithPut(s)
    BY <1>1 DEF WithPut
  <2> QED
    BY <2>1, <2>2
<1>4. \A s \in Slot :
         [c EXCEPT !.ip = s] = Call(None, None, s, None, "user")
  <2> TAKE s \in Slot
  <2>1. [c EXCEPT !.ip = s] = Call(c.name, c.inum, s, c.put, c.next)
    BY <1>1, CallForm
  <2>2. Call(c.name, c.inum, s, c.put, c.next) = Call(None, None, s, None, "user")
    BY <1>1
  <2> QED
    BY <2>1, <2>2
<1>5. \A s \in Slot : \A n \in Name :
         [c EXCEPT !.ip = s, !.name = n] = Call(n, None, s, None, "user")
  <2> TAKE s \in Slot
  <2> TAKE n \in Name
  <2>1. [c EXCEPT !.ip = s, !.name = n] = Call(n, c.inum, s, c.put, c.next)
    <3>1. \A t \in Slot : \A m \in Name :
             [c EXCEPT !.ip = t, !.name = m] = Call(m, c.inum, t, c.put, c.next)
      BY <1>1, CallForm, Zenon
    <3> QED
      BY <3>1, Zenon
  <2>2. Call(n, c.inum, s, c.put, c.next) = Call(n, None, s, None, "user")
    BY <1>1
  <2> QED
    BY <2>1, <2>2
<1>6. \A n \in Name :
         [c EXCEPT !.name = n] = Call(n, None, None, None, "user")
  <2> TAKE n \in Name
  <2>1. [c EXCEPT !.name = n] = Call(n, c.inum, c.ip, c.put, c.next)
    BY <1>1, CallForm
  <2>2. Call(n, c.inum, c.ip, c.put, c.next) = Call(n, None, None, None, "user")
    BY <1>1
  <2> QED
    BY <2>1, <2>2
<1> QED
  BY <1>1, <1>2, <1>3, <1>4, <1>5, <1>6 DEF c

\* What the steps that take a reference do: open, link and unlink find the name.
LEMMA NameMoves ==
  ASSUME IInv, NEW p \in Proc, NEW n \in Name,
         OpenName(p, n) \/ LinkOld(p, n) \/ LinkExists(p, n) \/ Unlink(p, n)
  PROVE  \/ Stuck
         \/ \E s \in Slot :
              /\ dir[n] \in Inum /\ Iget(dir[n], s) /\ dlk = None
              /\ UNCHANGED <<ilk, dinode, bitmap, dir, panicked>>
              /\ \/ /\ Move(p, "user", "ilock", Call(None, None, s, None, "user"), None)
                    /\ file[p] = None /\ dlk' = dlk
                 \/ /\ Move(p, "user", "linkinc", Call(None, None, s, None, "user"), file[p])
                    /\ dlk' = dlk
                 \/ /\ Move(p, "linkdir", "iput", Call(None, None, call[p].ip, s, "linkbad"), file[p])
                    /\ dlk' = p
                 \/ /\ Move(p, "user", "unlink", Call(n, None, s, None, "user"), file[p])
                    /\ dlk' = p
<1>1. /\ TypeOK /\ pc \in [Proc -> Labels] /\ call \in [Proc -> CallRec] /\
           dir[n] \in Inum \cup {None}
      /\ call[p] \in CallRec
  BY Types DEF IInv
<1>2. Panic("iget: no inodes") => Stuck
  BY DEF Panic, Stuck, cache, disk, root
<1>3. \A l : Goto(p, l) => pc'[p] = l
  BY <1>1 DEF Goto
<1>4. \A s : Iget(dir[n], s) => s \in Slot
  BY DEF Iget, Cached, EmptySlots
<1>5. pc[p] = "user" => call[p] = NoCall
  BY Here
<1>6. CASE OpenName(p, n) \/ LinkOld(p, n) \/ Unlink(p, n)
  <2>1. CASE NoSlot(dir[n])
    BY <1>2, <1>6, <2>1 DEF OpenName, LinkOld, Unlink
  <2>2. CASE ~NoSlot(dir[n])
    <3>1. PICK s \in Slot :
             /\ dir[n] # None /\ Iget(dir[n], s) /\ dlk = None /\ pc[p] = "user"
             /\ UNCHANGED <<ilk, disk, dir, file, panicked>>
             /\ \/ /\ call' = [call EXCEPT ![p].ip = s] /\ pc'[p] = "ilock" /\ dlk' = dlk
                   /\ file[p] = None
                \/ call' = [call EXCEPT ![p].ip = s] /\ pc'[p] = "linkinc" /\ dlk' = dlk
                \/ call' = [call EXCEPT ![p].ip = s, ![p].name = n] /\ pc'[p] = "unlink" /\ dlk' = p
      BY <1>3, <1>6, <2>2 DEF OpenName, LinkOld, Unlink, At, root
    <3>2. /\ call' = [call EXCEPT ![p].ip = s] => call'[p] = Call(None, None, s, None, "user")
          /\ call' = [call EXCEPT ![p].ip = s, ![p].name = n] =>
                call'[p] = Call(n, None, s, None, "user")
      <4>1. /\ [NoCall EXCEPT !.ip = s] = Call(None, None, s, None, "user")
            /\ [NoCall EXCEPT !.ip = s, !.name = n] = Call(n, None, s, None, "user")
        BY NoCallForm
      <4>2. /\ call' = [call EXCEPT ![p].ip = s] => call'[p] = [call[p] EXCEPT !.ip = s]
            /\ call' = [call EXCEPT ![p].ip = s, ![p].name = n] =>
                  call'[p] = [call[p] EXCEPT !.ip = s, !.name = n]
        BY <1>1
      <4> QED
        BY <1>5, <3>1, <4>1, <4>2
    <3>3. dir[n] \in Inum /\ file' = file /\ dinode' = dinode /\ bitmap' = bitmap
      BY <1>1, <3>1 DEF disk
    <3>4. \/ /\ Move(p, "user", "ilock", Call(None, None, s, None, "user"), None)
             /\ file[p] = None /\ dlk' = dlk
          \/ /\ Move(p, "user", "linkinc", Call(None, None, s, None, "user"), file[p])
             /\ dlk' = dlk
          \/ /\ Move(p, "user", "unlink", Call(n, None, s, None, "user"), file[p])
             /\ dlk' = p
      BY <3>1, <3>2, <3>3 DEF Move
    <3> QED
      BY <3>1, <3>3, <3>4
  <2> QED
    BY <2>1, <2>2
<1>7. CASE LinkExists(p, n)
  <2>1. CASE NoSlot(dir[n])
    BY <1>2, <1>7, <2>1 DEF LinkExists
  <2>2. CASE ~NoSlot(dir[n])
    <3>1. PICK s \in Slot :
             /\ dir[n] # None /\ Iget(dir[n], s) /\ dlk = None /\ pc[p] = "linkdir"
             /\ UNCHANGED <<ilk, disk, dir, file, panicked>>
             /\ call' = [call EXCEPT ![p].put = s, ![p].next = "linkbad"]
             /\ pc'[p] = "iput" /\ dlk' = p
      BY <1>3, <1>7, <2>2 DEF LinkExists, At
    <3>2. call'[p] = [call[p] EXCEPT !.put = s, !.next = "linkbad"]
      BY <1>1, <3>1
    <3>3. call[p].name = None /\ call[p].inum = None
      BY <3>1 DEF IInv, Calls, CallOK, Creating
    <3>4. call'[p] = Call(None, None, call[p].ip, s, "linkbad")
      BY <1>1, <3>2, <3>3 DEF CallRec, Call
    <3> QED
      BY <1>1, <3>1, <3>4 DEF Move, disk
  <2> QED
    BY <2>1, <2>2
<1> QED
  BY <1>6, <1>7

(***************************************************************************)
(* What every process can count on.                                        *)
(***************************************************************************)
LEMMA LinkCounts ==
  ASSUME NEW i
  PROVE  /\ IsFiniteSet(Names(i)) /\ Cardinality(Names(i)) \in Nat
         /\ IsFiniteSet(Pending(i)) /\ Cardinality(Pending(i)) \in Nat
<1>1. Names(i) \subseteq Name /\ Pending(i) \subseteq Proc
  BY DEF Names, Pending
<1> QED
  BY <1>1, InodeAssumption, FS_Subset, FS_CardinalityType

\* An inode that has a name, or is about to get or to lose one, has a link: it is not free.
LEMMA Linked ==
  ASSUME IInv, NEW i \in Inum, Names(i) # {} \/ Pending(i) # {}
  PROVE  dinode[i].nlink >= 1 /\ dinode[i].type = "file"
<1>1. /\ dinode[i] \in Dinode /\ dinode[i].nlink = Cardinality(Names(i)) + Cardinality(Pending(i))
      /\ (dinode[i].type = "free" => dinode[i] = FreeInode)
  BY Types DEF IInv, Links, FreeOK
<1>2. Cardinality(Names(i)) >= 1 \/ Cardinality(Pending(i)) >= 1
  BY CountMinus, LinkCounts
<1>3. dinode[i].nlink >= 1
  <2> DEFINE a == Cardinality(Names(i))
             b == Cardinality(Pending(i))
             n == dinode[i].nlink
  <2>1. a \in Nat /\ b \in Nat /\ n = a + b /\ (a >= 1 \/ b >= 1)
    BY <1>1, <1>2, LinkCounts
  <2> HIDE DEF a, b, n
  <2>2. n >= 1
    BY <2>1
  <2> QED
    BY <2>2 DEF n
<1>4. dinode[i].type \in {"free", "file"}
  BY <1>1, RecordTypes
<1>5. dinode[i] # FreeInode
  BY <1>3 DEF FreeInode
<1> QED
  BY <1>1, <1>3, <1>4, <1>5

LEMMA Named ==
  ASSUME IInv, NEW n \in Name, dir[n] # None
  PROVE  dir[n] \in Inum /\ dinode[dir[n]].nlink >= 1 /\ dinode[dir[n]].type = "file"
<1>1. dir[n] \in Inum
  BY Types DEF IInv
<1>2. n \in Names(dir[n])
  BY DEF Names
<1> QED
  BY <1>1, <1>2, Linked

\* The inode a process works on is a file; its copy in memory is used.
LEMMA Busy ==
  ASSUME IInv, NEW s \in Slot, icache[s].ref > 0, NEW q \in Proc, Works(q, s)
  PROVE  /\ icache[s].inum \in Inum /\ dinode[icache[s].inum].type = "file"
         /\ dinode[icache[s].inum] \in Dinode
         /\ Copy(s) \in Dinode /\ Copy(s).type = "file"
         /\ Copy(s).nlink = dinode[icache[s].inum].nlink
         /\ ilk[s] = None \/ ~Updating(s) => Copy(s) = dinode[icache[s].inum]
         /\ icache[s].copy # None => Copy(s) = icache[s].copy
<1>1. /\ icache[s].inum \in Inum /\ Copy(s) \in Dinode
      /\ Copy(s).type = dinode[icache[s].inum].type
      /\ Copy(s).nlink = dinode[icache[s].inum].nlink
      /\ ilk[s] = None \/ ~Updating(s) => Copy(s) = dinode[icache[s].inum]
      /\ icache[s].copy # None => Copy(s) = icache[s].copy
  BY CopyIs DEF IInv
<1>2. s \in Cached(icache[s].inum)
  BY DEF Cached
<1>3. dinode[icache[s].inum].type # "free"
  BY <1>1, <1>2 DEF IInv, FreeOK
<1>4. dinode[icache[s].inum] \in Dinode
  BY <1>1, Types DEF IInv
<1>5. dinode[icache[s].inum].type \in {"free", "file"}
  BY <1>4, RecordTypes
<1> QED
  BY <1>1, <1>3, <1>4, <1>5

(***************************************************************************)
(* What the steps do, one by one.                                          *)
(***************************************************************************)
LockSet(s, v) == /\ ilk' \in [Slot -> Proc \cup {None}]
                 /\ ilk'[s] = v /\ \A t \in Slot : t # s => ilk'[t] = ilk[t]
NameSet(n, v) == /\ dir' \in [Name -> Inum \cup {None}]
                 /\ dir'[n] = v /\ \A m \in Name : m # n => dir'[m] = dir[m]
CopySets(s, d) == /\ OnlySlot(s) /\ icache'[s].copy = d
                  /\ icache'[s].inum = icache[s].inum /\ icache'[s].ref = icache[s].ref
Writes(s, d) == /\ CopySets(s, d)
                /\ OnlyInode(icache[s].inum) /\ dinode'[icache[s].inum] = d

LEMMA Basics ==
  ASSUME IInv, NEW p \in Proc
  PROVE  /\ TypeOK /\ OneSlot /\ Synced /\ Locked /\ DirLocked
         /\ CallOK(p) /\ call[p] \in CallRec
         /\ \A l : Goto(p, l) => pc'[p] = l
         /\ \A c : call' = [call EXCEPT ![p] = c] => call'[p] = c
         /\ \A f : file' = [file EXCEPT ![p] = f] => file'[p] = f
         /\ \A s \in Slot : \A v \in Proc \cup {None} :
               ilk' = [ilk EXCEPT ![s] = v] => LockSet(s, v)
         /\ \A n \in Name : \A v \in Inum \cup {None} :
               dir' = [dir EXCEPT ![n] = v] => NameSet(n, v)
<1>1. TypeOK /\ OneSlot /\ Synced /\ Locked /\ DirLocked /\ CallOK(p)
  BY DEF IInv, Calls
<1>2. /\ pc \in [Proc -> Labels] /\ call \in [Proc -> CallRec]
      /\ file \in [Proc -> Slot \cup {None}] /\ ilk \in [Slot -> Proc \cup {None}]
      /\ dir \in [Name -> Inum \cup {None}]
  BY <1>1, Types
<1>3. /\ \A l : Goto(p, l) => pc'[p] = l
      /\ \A c : call' = [call EXCEPT ![p] = c] => call'[p] = c
      /\ \A f : file' = [file EXCEPT ![p] = f] => file'[p] = f
  BY <1>2 DEF Goto
<1>4. \A s \in Slot : \A v \in Proc \cup {None} : ilk' = [ilk EXCEPT ![s] = v] => LockSet(s, v)
  BY <1>2 DEF LockSet
<1>5. \A n \in Name : \A v \in Inum \cup {None} : dir' = [dir EXCEPT ![n] = v] => NameSet(n, v)
  BY <1>2 DEF NameSet
<1> QED
  BY <1>1, <1>2, <1>3, <1>4, <1>5

LEMMA WritesIs ==
  ASSUME IInv, NEW s \in Slot, icache[s].ref > 0, NEW d \in Dinode, Iupdate(s, d)
  PROVE  Writes(s, d)
BY IupdateIs DEF IInv, Writes, CopySets

LEMMA CopySetsIs ==
  ASSUME IInv, NEW s \in Slot, NEW d \in Dinode \cup {None}, icache' = [icache EXCEPT ![s].copy = d]
  PROVE  CopySets(s, d)
BY CopySet DEF IInv, CopySets

\* The first free inode and the first free block are among the free ones.
LEMMA MinIn ==
  ASSUME NEW S, S \subseteq Nat, S # {}
  PROVE  Min(S) \in S
<1> DEFINE R == {ss \in Nat \X Nat : ss[1] < ss[2]}
<1>1. IsWellFoundedOn(R, Nat)
  BY NatLessThanWellFounded, Zenon DEF OpToRel
<1>2. \A x, y \in Nat : x < y => <<x, y>> \in R
  OBVIOUS
<1> HIDE DEF R
<1>3. PICK x \in S : \A y \in S : <<y, x>> \notin R
  BY <1>1, WFMin
<1>4. \A y \in S : x <= y
  <2> TAKE y \in S
  <2>1. x \in Nat /\ y \in Nat /\ ~(y < x)
    BY <1>2, <1>3
  <2> QED
    BY <2>1
<1> QED
  BY <1>3, <1>4 DEF Min

LEMMA FormInum ==
  ASSUME NEW c \in CallRec, NEW i \in Inum
  PROVE  [c EXCEPT !.inum = i] = Call(c.name, i, c.ip, c.put, c.next)
BY CallForm, Zenon

LEMMA FormPut ==
  ASSUME NEW c \in CallRec, NEW s \in Slot
  PROVE  [c EXCEPT !.put = s] = Call(c.name, c.inum, c.ip, s, c.next)
BY CallForm, Zenon

LEMMA FormGot ==
  ASSUME NEW c \in CallRec, NEW s \in Slot
  PROVE  [c EXCEPT !.ip = s, !.inum = None] = Call(c.name, None, s, c.put, c.next)
BY CallForm, Zenon

LEMMA FormDropped ==
  ASSUME NEW c \in CallRec
  PROVE  [c EXCEPT !.put = None, !.next = "user"] = Call(c.name, c.inum, c.ip, None, "user")
BY CallForm, Zenon

LEMMA OpenDoneIs ==
  ASSUME IInv, NEW p \in Proc, NEW s \in Slot, OpenDone(p, s)
  PROVE  \/ pc'[p] = "user" /\ call'[p] = NoCall /\ file'[p] = s
         \/ pc'[p] = "iput" /\ call'[p] = WithPut(s) /\ file'[p] = file[p]
<1>1. [NoCall EXCEPT !.put = s] = WithPut(s)
  BY NoCallForm
<1>2. \/ /\ file' = [file EXCEPT ![p] = s]
         /\ call' = [call EXCEPT ![p] = NoCall]
         /\ Goto(p, "user")
      \/ /\ call' = [call EXCEPT ![p] = WithPut(s)]
         /\ Goto(p, "iput")
         /\ UNCHANGED file
  BY <1>1 DEF OpenDone
<1> QED
  BY <1>2, Basics

LEMMA OpenLockIs ==
  ASSUME IInv, NEW p \in Proc, OpenLock(p)
  PROVE  \E s \in Slot :
            /\ s = call[p].ip /\ icache[s].ref > 0 /\ ilk[s] = None /\ Works(p, s) /\ file[p] = None
            /\ CopySets(s, Copy(s))
            /\ UNCHANGED <<ilk, dinode, bitmap, dir, dlk, panicked>>
            /\ \/ Move(p, "ilock", "user", NoCall, s)
               \/ Move(p, "ilock", "iput", WithPut(s), file[p])
<1>1. pc[p] = "ilock" /\ panicked = "no" /\ ilk[call[p].ip] = None
  BY DEF OpenLock, At
<1>2. PICK s \in Slot : s = call[p].ip /\ icache[s].ref > 0
  BY <1>1, Here DEF WithIp
<1>3. Works(p, s) /\ file[p] = None
  BY <1>1, <1>2, Basics DEF Works, CallOK
<1>4. Copy(s) \in Dinode /\ Copy(s).type # "free"
  BY <1>2, <1>3, Busy
<1>5. /\ icache' = [icache EXCEPT ![s].copy = Copy(s)]
      /\ OpenDone(p, s)
      /\ UNCHANGED <<ilk, disk, root, panicked>>
  BY <1>2, <1>4 DEF OpenLock
<1>6. CopySets(s, Copy(s))
  BY <1>4, <1>5, CopySetsIs
<1>7. Move(p, "ilock", "user", NoCall, s) \/ Move(p, "ilock", "iput", WithPut(s), file[p])
  BY <1>1, <1>5, OpenDoneIs DEF Move
<1> QED
  BY <1>1, <1>2, <1>3, <1>5, <1>6, <1>7 DEF disk, root

LEMMA CreateIs ==
  ASSUME IInv, NEW p \in Proc, NEW n \in Name, Create(p, n)
  PROVE  /\ Move(p, "user", "ialloc", Call(n, None, None, None, "user"), None)
         /\ file[p] = None /\ dlk = None /\ dir[n] = None /\ dlk' = p
         /\ UNCHANGED <<icache, ilk, dinode, bitmap, dir, panicked>>
<1>1. /\ pc[p] = "user" /\ file[p] = None /\ dlk = None /\ dir[n] = None /\ dlk' = p
      /\ call' = [call EXCEPT ![p].name = n] /\ Goto(p, "ialloc")
      /\ UNCHANGED <<cache, disk, dir, file, panicked>>
  BY DEF Create, At
<1>2. call[p] = NoCall
  BY <1>1, Here
<1>3. call'[p] = [NoCall EXCEPT !.name = n]
  BY <1>1, <1>2, Types, Basics
<1>4. call'[p] = Call(n, None, None, None, "user")
  BY <1>3, NoCallForm
<1> QED
  BY <1>1, <1>4, Basics DEF Move, cache, disk

LEMMA IallocIs ==
  ASSUME IInv, NEW p \in Proc, Ialloc(p)
  PROVE  \/ Stuck
         \/ \E i \in Inum :
              /\ dinode[i].type = "free" /\ OnlyInode(i) /\ dinode'[i] = Fresh
              /\ Move(p, "ialloc", "iget", Call(call[p].name, i, None, None, "user"), file[p])
              /\ UNCHANGED <<icache, ilk, bitmap, dir, dlk, panicked>>
<1> DEFINE free == {i \in Inum : dinode[i].type = "free"}
<1>1. pc[p] = "ialloc"
  BY DEF Ialloc, At
<1>2. CASE free = {}
  BY <1>2 DEF Ialloc, Panic, Stuck, cache, disk, root
<1>3. CASE free # {}
  <2>1. Min(free) \in free
    BY <1>3, MinIn, InodeAssumption DEF Inum
  <2>2. PICK i \in Inum : i = Min(free) /\ dinode[i].type = "free"
    BY <2>1
  <2>3. /\ dinode' = [dinode EXCEPT ![i] = Fresh]
        /\ call' = [call EXCEPT ![p].inum = i]
        /\ Goto(p, "iget")
        /\ UNCHANGED <<cache, bitmap, root, file, panicked>>
    BY <1>3, <2>2 DEF Ialloc, Fresh
  <2>4. OnlyInode(i) /\ dinode'[i] = Fresh
    BY <2>3, Basics, InodeUpdate, RecordTypes, Types
  <2>5. call'[p] = [call[p] EXCEPT !.inum = i]
    BY <2>3, Basics, Types
  <2>6. /\ call[p].ip = None /\ call[p].put = None /\ call[p].next = "user"
    BY <1>1, Basics, Here DEF CallOK, WithIp, Putting
  <2>7. call'[p] = Call(call[p].name, i, None, None, "user")
    <3>1. [call[p] EXCEPT !.inum = i] = Call(call[p].name, i, call[p].ip, call[p].put, call[p].next)
      BY Basics, FormInum
    <3> QED
      BY <2>5, <2>6, <3>1
  <2> QED
    BY <1>1, <2>2, <2>3, <2>4, <2>7, Basics DEF Move, cache, root
<1> QED
  BY <1>2, <1>3

LEMMA IallocGetIs ==
  ASSUME IInv, NEW p \in Proc, IallocGet(p)
  PROVE  \/ Stuck
         \/ \E s \in Slot :
              /\ call[p].inum \in Inum /\ Iget(call[p].inum, s)
              /\ Move(p, "iget", "newinode", Call(call[p].name, None, s, None, "user"), file[p])
              /\ UNCHANGED <<ilk, dinode, bitmap, dir, dlk, panicked>>
<1>1. pc[p] = "iget"
  BY DEF IallocGet, At
<1>2. CASE NoSlot(call[p].inum)
  BY <1>2 DEF IallocGet, Panic, Stuck, cache, disk, root
<1>3. CASE ~NoSlot(call[p].inum)
  <2>1. PICK s \in Slot :
          /\ Iget(call[p].inum, s)
          /\ call' = [call EXCEPT ![p].ip = s, ![p].inum = None]
          /\ Goto(p, "newinode")
          /\ UNCHANGED <<ilk, disk, root, file, panicked>>
    BY <1>3 DEF IallocGet
  <2>2. call'[p] = [call[p] EXCEPT !.ip = s, !.inum = None]
    BY <2>1, Basics, Types
  <2>3. call[p].put = None /\ call[p].next = "user"
    BY <1>1, Basics, Here DEF CallOK, Putting
  <2>4. call'[p] = Call(call[p].name, None, s, None, "user")
    <3>1. /\ s \in Slot
          /\ [call[p] EXCEPT !.ip = s, !.inum = None]
                = Call(call[p].name, None, s, call[p].put, call[p].next)
      BY <2>1, Basics, FormGot DEF Iget, Cached, EmptySlots
    <3> QED
      BY <2>2, <2>3, <3>1
  <2>5. call[p].inum \in Inum
    BY <1>1, Here
  <2> QED
    BY <1>1, <2>1, <2>4, <2>5, Basics DEF Move, disk, root
<1> QED
  BY <1>2, <1>3

LEMMA NewInodeIs ==
  ASSUME IInv, NEW p \in Proc, NewInode(p)
  PROVE  \E s \in Slot : \E d \in Dinode :
            /\ s = call[p].ip /\ icache[s].ref > 0 /\ ilk[s] = None /\ Works(p, s)
            /\ d = [Copy(s) EXCEPT !.nlink = 1] /\ Writes(s, d)
            /\ LockSet(s, p)
            /\ Move(p, "newinode", "newlink", call[p], file[p])
            /\ UNCHANGED <<bitmap, dir, dlk, panicked>>
<1>1. pc[p] = "newinode" /\ ilk[call[p].ip] = None
  BY DEF NewInode, At
<1>2. PICK s \in Slot : s = call[p].ip /\ icache[s].ref > 0
  BY <1>1, Here DEF WithIp
<1>3. Works(p, s)
  BY <1>2 DEF Works
<1>4. Copy(s) \in Dinode /\ Copy(s).type # "free"
  BY <1>2, <1>3, Busy
<1>5. PICK d \in Dinode : d = [Copy(s) EXCEPT !.nlink = 1]
  BY <1>4, RecordTypes
<1>6. /\ ilk' = [ilk EXCEPT ![s] = p] /\ Iupdate(s, d) /\ Goto(p, "newlink")
      /\ UNCHANGED <<bitmap, root, file, call, panicked>>
  BY <1>2, <1>4, <1>5 DEF NewInode
<1>7. Writes(s, d)
  BY <1>2, <1>6, WritesIs
<1>8. LockSet(s, p)
  BY <1>6, Basics
<1> QED
  BY <1>1, <1>2, <1>3, <1>5, <1>6, <1>7, <1>8, Basics DEF Move, root

LEMMA NewLinkIs ==
  ASSUME IInv, NEW p \in Proc, NewLink(p)
  PROVE  \E s \in Slot :
            /\ s = call[p].ip /\ icache[s].ref > 0 /\ Works(p, s) /\ file[p] = None
            /\ icache[s].inum \in Inum
            /\ call[p].name \in Name /\ NameSet(call[p].name, icache[s].inum)
            /\ dlk' = None /\ LockSet(s, None)
            /\ UNCHANGED <<icache, dinode, bitmap, panicked>>
            /\ \/ Move(p, "newlink", "user", NoCall, s)
               \/ Move(p, "newlink", "iput", WithPut(s), file[p])
<1>1. pc[p] = "newlink"
  BY DEF NewLink, At
<1>2. PICK s \in Slot : s = call[p].ip /\ icache[s].ref > 0
  BY <1>1, Here DEF WithIp
<1>3. Works(p, s) /\ file[p] = None
  BY <1>1, <1>2, Basics DEF Works, CallOK, Creating
<1>4. icache[s].inum \in Inum /\ call[p].name \in Name
  BY <1>1, <1>2, Here, Basics DEF OneSlot, Creating
<1>5. /\ dir' = [dir EXCEPT ![call[p].name] = icache[s].inum]
      /\ dlk' = None /\ ilk' = [ilk EXCEPT ![s] = None]
      /\ OpenDone(p, s)
      /\ UNCHANGED <<icache, disk, panicked>>
  BY <1>2 DEF NewLink
<1>6. NameSet(call[p].name, icache[s].inum) /\ LockSet(s, None)
  BY <1>4, <1>5, Basics
<1>7. Move(p, "newlink", "user", NoCall, s) \/ Move(p, "newlink", "iput", WithPut(s), file[p])
  BY <1>1, <1>5, OpenDoneIs DEF Move
<1> QED
  BY <1>2, <1>3, <1>4, <1>5, <1>6, <1>7 DEF disk

LEMMA LinkIncIs ==
  ASSUME IInv, NEW p \in Proc, LinkInc(p)
  PROVE  \E s \in Slot : \E d \in Dinode :
            /\ s = call[p].ip /\ icache[s].ref > 0 /\ ilk[s] = None /\ Works(p, s)
            /\ d = [Copy(s) EXCEPT !.nlink = Copy(s).nlink + 1] /\ Writes(s, d)
            /\ Move(p, "linkinc", "linkdir", call[p], file[p])
            /\ UNCHANGED <<ilk, bitmap, dir, dlk, panicked>>
<1>1. pc[p] = "linkinc" /\ ilk[call[p].ip] = None
  BY DEF LinkInc, At
<1>2. PICK s \in Slot : s = call[p].ip /\ icache[s].ref > 0
  BY <1>1, Here DEF WithIp
<1>3. Works(p, s)
  BY <1>2 DEF Works
<1>4. Copy(s) \in Dinode /\ Copy(s).type # "free"
  BY <1>2, <1>3, Busy
<1>5. PICK d \in Dinode : d = [Copy(s) EXCEPT !.nlink = Copy(s).nlink + 1]
  <2>1. PICK n \in Nat : n = Copy(s).nlink + 1
    BY <1>4, RecordTypes
  <2> QED
    BY <1>4, <2>1, RecordTypes
<1>6. /\ Iupdate(s, d) /\ Goto(p, "linkdir")
      /\ UNCHANGED <<ilk, bitmap, root, file, call, panicked>>
  BY <1>2, <1>4, <1>5 DEF LinkInc
<1>7. Writes(s, d)
  BY <1>2, <1>6, WritesIs
<1> QED
  BY <1>1, <1>2, <1>3, <1>5, <1>6, <1>7, Basics DEF Move, root

LEMMA LinkNewIs ==
  ASSUME IInv, NEW p \in Proc, NEW n \in Name, LinkNew(p, n)
  PROVE  \E s \in Slot :
            /\ s = call[p].ip /\ icache[s].ref > 0 /\ icache[s].inum \in Inum
            /\ dlk = None /\ dir[n] = None
            /\ NameSet(n, icache[s].inum)
            /\ Move(p, "linkdir", "iput", WithPut(s), file[p])
            /\ UNCHANGED <<icache, ilk, dinode, bitmap, dlk, panicked>>
<1>1. pc[p] = "linkdir" /\ dlk = None /\ dir[n] = None
  BY DEF LinkNew, At
<1>2. PICK s \in Slot : s = call[p].ip /\ icache[s].ref > 0
  BY <1>1, Here DEF WithIp
<1>3. icache[s].inum \in Inum
  BY <1>2, Basics DEF OneSlot
<1>4. [NoCall EXCEPT !.put = s] = WithPut(s)
  BY NoCallForm
<1>5. /\ dir' = [dir EXCEPT ![n] = icache[s].inum]
      /\ call' = [call EXCEPT ![p] = WithPut(s)] /\ Goto(p, "iput")
      /\ UNCHANGED <<cache, disk, dlk, file, panicked>>
  BY <1>2, <1>4 DEF LinkNew
<1>6. NameSet(n, icache[s].inum)
  BY <1>3, <1>5, Basics
<1> QED
  BY <1>1, <1>2, <1>3, <1>5, <1>6, Basics DEF Move, cache, disk

LEMMA LinkNoParentIs ==
  ASSUME IInv, NEW p \in Proc, LinkNoParent(p)
  PROVE  /\ Move(p, "linkdir", "linkbad", call[p], file[p])
         /\ UNCHANGED <<icache, ilk, dinode, bitmap, dir, dlk, panicked>>
BY Basics DEF LinkNoParent, At, Move, cache, disk, root

\* A process in Pending keeps the inode's count above zero.
LEMMA PendingLinked ==
  ASSUME IInv, NEW p \in Proc, NEW s \in Slot, s = call[p].ip, icache[s].ref > 0,
         \/ pc[p] \in {"newlink", "linkdir", "linkbad", "unlinkdec"}
         \/ call[p].next = "linkbad"
  PROVE  /\ icache[s].inum \in Inum /\ p \in Pending(icache[s].inum)
         /\ dinode[icache[s].inum].nlink >= 1
<1>1. icache[s].inum \in Inum
  BY Basics DEF OneSlot
<1>2. p \in Pending(icache[s].inum)
  BY DEF Pending
<1> QED
  BY <1>1, <1>2, Linked

LEMMA LinkBadIs ==
  ASSUME IInv, NEW p \in Proc, LinkBad(p)
  PROVE  \E s \in Slot : \E d \in Dinode :
            /\ s = call[p].ip /\ icache[s].ref > 0 /\ ilk[s] = None /\ Works(p, s)
            /\ d = [Copy(s) EXCEPT !.nlink = Copy(s).nlink - 1] /\ Copy(s).nlink >= 1
            /\ Writes(s, d)
            /\ Move(p, "linkbad", "iput", WithPut(s), file[p])
            /\ UNCHANGED <<ilk, bitmap, dir, dlk, panicked>>
<1>1. pc[p] = "linkbad" /\ ilk[call[p].ip] = None
  BY DEF LinkBad, At
<1>2. PICK s \in Slot : s = call[p].ip /\ icache[s].ref > 0
  BY <1>1, Here DEF WithIp
<1>3. Works(p, s)
  BY <1>2 DEF Works
<1>4. Copy(s) \in Dinode /\ Copy(s).type # "free" /\ Copy(s).nlink >= 1
  BY <1>1, <1>2, <1>3, Busy, PendingLinked
<1>5. PICK d \in Dinode : d = [Copy(s) EXCEPT !.nlink = Copy(s).nlink - 1]
  <2>1. PICK n \in Nat : n = Copy(s).nlink - 1
    BY <1>4, RecordTypes
  <2> QED
    BY <1>4, <2>1, RecordTypes
<1>6. [NoCall EXCEPT !.put = s] = WithPut(s)
  BY NoCallForm
<1>7. /\ Iupdate(s, d) /\ Goto(p, "iput")
      /\ call' = [call EXCEPT ![p] = WithPut(s)]
      /\ UNCHANGED <<ilk, bitmap, root, file, panicked>>
  BY <1>2, <1>4, <1>5, <1>6 DEF LinkBad
<1>8. Writes(s, d)
  BY <1>2, <1>7, WritesIs
<1> QED
  BY <1>1, <1>2, <1>3, <1>4, <1>5, <1>7, <1>8, Basics DEF Move, root

LEMMA UnlinkClearIs ==
  ASSUME IInv, NEW p \in Proc, UnlinkClear(p)
  PROVE  \E s \in Slot :
            /\ s = call[p].ip /\ icache[s].ref > 0 /\ ilk[s] = None /\ Works(p, s)
            /\ CopySets(s, Copy(s))
            /\ LockSet(s, p)
            /\ call[p].name \in Name /\ dir[call[p].name] = icache[s].inum
            /\ NameSet(call[p].name, None) /\ dlk' = None
            /\ Move(p, "unlink", "unlinkdec", call[p], file[p])
            /\ UNCHANGED <<dinode, bitmap, panicked>>
<1>1. pc[p] = "unlink" /\ ilk[call[p].ip] = None
  BY DEF UnlinkClear, At
<1>2. PICK s \in Slot : s = call[p].ip /\ icache[s].ref > 0
  BY <1>1, Here DEF WithIp
<1>3. Works(p, s)
  BY <1>2 DEF Works
<1>4. call[p].name \in Name /\ dir[call[p].name] = icache[s].inum
  BY <1>1, <1>2, Here DEF IInv, Calls, Entry
<1>5. /\ Copy(s) \in Dinode /\ Copy(s).type # "free"
      /\ icache[s].inum \in Inum /\ Copy(s).nlink = dinode[icache[s].inum].nlink
  BY <1>2, <1>3, Busy
<1>6. Copy(s).nlink >= 1
  <2>1. dir[call[p].name] # None
    BY <1>4, <1>5, Nones
  <2> QED
    BY <1>4, <1>5, <2>1, Named
<1>7. ~(Copy(s).nlink < 1)
  BY <1>5, <1>6, RecordTypes
<1>8. /\ icache' = [icache EXCEPT ![s].copy = Copy(s)]
      /\ ilk' = [ilk EXCEPT ![s] = p]
      /\ dir' = [dir EXCEPT ![call[p].name] = None]
      /\ dlk' = None
      /\ Goto(p, "unlinkdec")
      /\ UNCHANGED <<disk, file, call, panicked>>
  BY <1>2, <1>5, <1>7 DEF UnlinkClear
<1>9. CopySets(s, Copy(s)) /\ LockSet(s, p) /\ NameSet(call[p].name, None)
  BY <1>4, <1>5, <1>8, Basics, CopySetsIs
<1> QED
  BY <1>1, <1>2, <1>3, <1>4, <1>8, <1>9, Basics DEF Move, disk

LEMMA UnlinkDecIs ==
  ASSUME IInv, NEW p \in Proc, UnlinkDec(p)
  PROVE  \E s \in Slot : \E d \in Dinode :
            /\ s = call[p].ip /\ icache[s].ref > 0 /\ ilk[s] = p /\ Works(p, s)
            /\ d = [Copy(s) EXCEPT !.nlink = Copy(s).nlink - 1] /\ Copy(s).nlink >= 1
            /\ Writes(s, d) /\ LockSet(s, None)
            /\ Move(p, "unlinkdec", "iput", WithPut(s), file[p])
            /\ UNCHANGED <<bitmap, dir, dlk, panicked>>
<1>1. pc[p] = "unlinkdec"
  BY DEF UnlinkDec, At
<1>2. PICK s \in Slot : s = call[p].ip /\ icache[s].ref > 0
  BY <1>1, Here DEF WithIp
<1>3. Works(p, s) /\ ilk[s] = p
  BY <1>1, <1>2, Basics DEF Works, Locked, Holds
<1>4. Copy(s) \in Dinode /\ Copy(s).nlink >= 1
  BY <1>1, <1>2, <1>3, Busy, PendingLinked
<1>5. PICK d \in Dinode : d = [Copy(s) EXCEPT !.nlink = Copy(s).nlink - 1]
  <2>1. PICK n \in Nat : n = Copy(s).nlink - 1
    BY <1>4, RecordTypes
  <2> QED
    BY <1>4, <2>1, RecordTypes
<1>6. [NoCall EXCEPT !.put = s] = WithPut(s)
  BY NoCallForm
<1>7. /\ Iupdate(s, d) /\ Goto(p, "iput")
      /\ ilk' = [ilk EXCEPT ![s] = None]
      /\ call' = [call EXCEPT ![p] = WithPut(s)]
      /\ UNCHANGED <<bitmap, root, file, panicked>>
  BY <1>2, <1>5, <1>6 DEF UnlinkDec
<1>8. Writes(s, d) /\ LockSet(s, None)
  BY <1>2, <1>7, WritesIs, Basics
<1> QED
  BY <1>1, <1>2, <1>3, <1>4, <1>5, <1>7, <1>8, Basics DEF Move, root

LEMMA WriteAllocIs ==
  ASSUME IInv, NEW p \in Proc, WriteAlloc(p)
  PROVE  \/ Stuck
         \/ \E s \in Slot : \E d \in Dinode : \E b \in Block :
              /\ s = file[p] /\ icache[s].ref > 0 /\ ilk[s] = None /\ Works(p, s)
              /\ Copy(s).addr = None /\ b \notin bitmap /\ bitmap' = bitmap \cup {b}
              /\ d = [Copy(s) EXCEPT !.addr = b] /\ CopySets(s, d)
              /\ LockSet(s, p)
              /\ Move(p, "user", "wupdate", call[p], file[p])
              /\ UNCHANGED <<dinode, dir, dlk, panicked>>
<1>1. pc[p] = "user" /\ file[p] # None /\ ilk[file[p]] = None /\ Copy(file[p]).addr = None
  BY DEF WriteAlloc, At
<1>2. PICK s \in Slot : s = file[p] /\ icache[s].ref > 0
  BY <1>1, Here
<1>3. Works(p, s)
  BY <1>2 DEF Works
<1>4. Copy(s) \in Dinode /\ Copy(s).type # "free"
  BY <1>2, <1>3, Busy
<1>5. CASE bitmap = Block
  BY <1>2, <1>4, <1>5 DEF WriteAlloc, Panic, Stuck, cache, disk, root
<1>6. CASE bitmap # Block
  <2>1. PICK b \in Block \ bitmap : b = Min(Block \ bitmap)
    <3>1. bitmap \subseteq Block /\ Block \ bitmap \subseteq Nat
      BY Types, Basics DEF Block
    <3> QED
      BY <1>6, <3>1, MinIn
  <2>2. PICK d \in Dinode : d = [Copy(s) EXCEPT !.addr = b]
    BY <1>4, <2>1, RecordTypes
  <2>3. /\ bitmap' = bitmap \cup {b}
        /\ icache' = [icache EXCEPT ![s].copy = d]
        /\ ilk' = [ilk EXCEPT ![s] = p]
        /\ Goto(p, "wupdate")
        /\ UNCHANGED <<dinode, root, file, call, panicked>>
    BY <1>2, <1>4, <1>6, <2>1, <2>2 DEF WriteAlloc
  <2>4. CopySets(s, d) /\ LockSet(s, p)
    BY <2>3, Basics, CopySetsIs
  <2> QED
    BY <1>1, <1>2, <1>3, <2>1, <2>2, <2>3, <2>4, Basics DEF Move, root
<1> QED
  BY <1>5, <1>6

LEMMA WriteUpdateIs ==
  ASSUME IInv, NEW p \in Proc, WriteUpdate(p)
  PROVE  \E s \in Slot :
            /\ s = file[p] /\ icache[s].ref > 0 /\ ilk[s] = p /\ Works(p, s)
            /\ icache[s].copy \in Dinode /\ Writes(s, icache[s].copy) /\ LockSet(s, None)
            /\ Move(p, "wupdate", "user", call[p], file[p])
            /\ UNCHANGED <<bitmap, dir, dlk, panicked>>
<1>1. pc[p] = "wupdate"
  BY DEF WriteUpdate, At
<1>2. PICK s \in Slot : s = file[p] /\ icache[s].ref > 0
  BY <1>1, Here
<1>3. Works(p, s) /\ ilk[s] = p
  BY <1>1, <1>2, Basics DEF Works, Locked, Holds
<1>4. icache[s].copy \in Dinode
  <2>1. icache[s].copy # None
    BY <1>1, <1>2 DEF IInv, Calls, ChangeOK
  <2> QED
    BY <2>1, Types, Basics DEF SlotRec
<1>5. /\ Iupdate(s, icache[s].copy) /\ ilk' = [ilk EXCEPT ![s] = None] /\ Goto(p, "user")
      /\ UNCHANGED <<bitmap, root, file, call, panicked>>
  BY <1>2 DEF WriteUpdate
<1>6. Writes(s, icache[s].copy) /\ LockSet(s, None)
  BY <1>2, <1>4, <1>5, WritesIs, Basics
<1> QED
  BY <1>1, <1>2, <1>3, <1>4, <1>5, <1>6, Basics DEF Move, root

LEMMA CloseIs ==
  ASSUME IInv, NEW p \in Proc, Close(p)
  PROVE  \E s \in Slot :
            /\ s = file[p] /\ icache[s].ref > 0
            /\ Move(p, "user", "iput", WithPut(s), None)
            /\ UNCHANGED <<icache, ilk, dinode, bitmap, dir, dlk, panicked>>
<1>1. pc[p] = "user" /\ file[p] # None
  BY DEF Close, At
<1>2. PICK s \in Slot : s = file[p] /\ icache[s].ref > 0
  BY <1>1, Here
<1>3. /\ file' = [file EXCEPT ![p] = None]
      /\ call' = [call EXCEPT ![p].put = s]
      /\ Goto(p, "iput")
      /\ UNCHANGED <<cache, disk, root, panicked>>
  BY <1>2 DEF Close
<1>4. call[p] = NoCall
  BY <1>1, Here
<1>5. call'[p] = [NoCall EXCEPT !.put = s]
  BY <1>3, <1>4, Basics, Types
<1>6. call'[p] = WithPut(s)
  BY <1>5, NoCallForm
<1> QED
  BY <1>1, <1>2, <1>3, <1>6, Basics DEF Move, cache, disk, root

\* The block of an inode is that of its copy, if it has one.
LEMMA AddrIs ==
  ASSUME IInv, NEW i \in Inum
  PROVE  /\ \A s \in Slot : icache[s].ref > 0 /\ icache[s].inum = i => Addr(i) = Copy(s).addr
         /\ (\A s \in Slot : ~(icache[s].ref > 0 /\ icache[s].inum = i)) => Addr(i) = dinode[i].addr
         /\ Addr(i) \in Block \cup {None}
<1>1. OneSlot
  BY DEF IInv
<1>2. ASSUME NEW s \in Slot, icache[s].ref > 0, icache[s].inum = i
      PROVE  Addr(i) = Copy(s).addr /\ Copy(s).addr \in Block \cup {None}
  <2>1. \A t : t \in Cached(i) <=> t = s
    BY <1>1, <1>2 DEF OneSlot, Cached
  <2>2. CASE icache[s].copy = None
    <3>1. ~ \E t \in Cached(i) : icache[t].copy # None
      BY <2>1, <2>2
    <3>2. dinode[i].addr \in Block \cup {None}
      BY Types, Basics, RecordTypes DEF IInv
    <3> QED
      BY <1>2, <2>2, <3>1, <3>2 DEF Addr, Copy
  <2>3. CASE icache[s].copy # None
    <3>1. PICK d \in Dinode : d = icache[s].copy
      BY <2>3, Types DEF IInv, SlotRec
    <3>2. {icache[t].copy : t \in Cached(i)} = {d}
      BY <2>1, <3>1
    <3>3. (CHOOSE c \in {d} : TRUE) = d
      OBVIOUS
    <3>4. \E t \in Cached(i) : icache[t].copy # None
      BY <2>1, <2>3
    <3>5. Addr(i) = d.addr
      BY <3>2, <3>3, <3>4 DEF Addr
    <3>6. Copy(s).addr = d.addr /\ d.addr \in Block \cup {None}
      BY <2>3, <3>1, RecordTypes DEF Copy
    <3> QED
      BY <3>5, <3>6
  <2> QED
    BY <2>2, <2>3
<1>3. ASSUME \A s \in Slot : ~(icache[s].ref > 0 /\ icache[s].inum = i)
      PROVE  Addr(i) = dinode[i].addr /\ dinode[i].addr \in Block \cup {None}
  <2>1. ~ \E s \in Cached(i) : icache[s].copy # None
    BY <1>3 DEF Cached
  <2>2. dinode[i].addr \in Block \cup {None}
    BY Types, RecordTypes DEF IInv
  <2> QED
    BY <2>1, <2>2 DEF Addr
<1> QED
  BY <1>2, <1>3

LEMMA IputTestIs ==
  ASSUME IInv, NEW p \in Proc, IputTest(p)
  PROVE  \E s \in Slot :
            /\ s = call[p].put /\ icache[s].ref > 0 /\ ilk[s] = None
            /\ \/ LastReference(s) /\ LockSet(s, p) /\ Move(p, "iput", "itrunc", call[p], file[p])
               \/ ilk' = ilk /\ Move(p, "iput", "iputdrop", call[p], file[p])
            /\ UNCHANGED <<icache, dinode, bitmap, dir, dlk, panicked>>
<1>1. pc[p] = "iput" /\ ilk[call[p].put] = None
  BY DEF IputTest, At
<1>2. PICK s \in Slot : s = call[p].put /\ icache[s].ref > 0
  BY <1>1, Here DEF Putting
<1>3. /\ IF LastReference(s) THEN ilk' = [ilk EXCEPT ![s] = p] /\ Goto(p, "itrunc")
                              ELSE Goto(p, "iputdrop") /\ UNCHANGED ilk
      /\ UNCHANGED <<icache, disk, root, file, call, panicked>>
  BY <1>2 DEF IputTest
<1> QED
  BY <1>1, <1>2, <1>3, Basics DEF Move, disk, root

LEMMA ItruncIs ==
  ASSUME IInv, NEW p \in Proc, Itrunc(p)
  PROVE  \E s \in Slot : \E d \in Dinode :
            /\ s = call[p].put /\ icache[s].ref = 1 /\ ilk[s] = p
            /\ icache[s].copy \in Dinode /\ icache[s].copy.nlink = 0
            /\ d = [icache[s].copy EXCEPT !.addr = None] /\ CopySets(s, d)
            /\ bitmap' = bitmap \ {icache[s].copy.addr}
            /\ Move(p, "itrunc", "tupdate", call[p], file[p])
            /\ UNCHANGED <<ilk, dinode, dir, dlk, panicked>>
<1>1. pc[p] = "itrunc"
  BY DEF Itrunc, At
<1>2. PICK s \in Slot : s = call[p].put /\ icache[s].ref > 0
  BY <1>1, Here DEF Putting
<1>3. icache[s].ref = 1 /\ icache[s].copy # None /\ icache[s].copy.nlink = 0
  BY <1>1, <1>2 DEF IInv, Calls, ChangeOK
<1>4. ilk[s] = p
  BY <1>1, <1>2, Basics DEF Locked, Holds
<1>5. icache[s].copy \in Dinode /\ Copy(s) = icache[s].copy
  BY <1>3, Types, Basics DEF SlotRec, Copy
<1>6. icache[s].inum \in Inum
  BY <1>2, Basics DEF OneSlot
<1>7. icache[s].copy.addr \in bitmap \cup {None}
  BY <1>2, <1>5, <1>6, AddrIs DEF IInv, BlocksOwned
<1>8. PICK d \in Dinode : d = [icache[s].copy EXCEPT !.addr = None]
  BY <1>5, RecordTypes
<1>9. /\ bitmap' = bitmap \ {icache[s].copy.addr}
      /\ icache' = [icache EXCEPT ![s].copy.addr = None] /\ Goto(p, "tupdate")
      /\ UNCHANGED <<ilk, dinode, root, file, call, panicked>>
  BY <1>2, <1>7 DEF Itrunc
<1>10. icache' = [icache EXCEPT ![s].copy = d]
  BY <1>8, <1>9
<1>11. CopySets(s, d)
  BY <1>10, CopySetsIs
<1> QED
  BY <1>1, <1>2, <1>3, <1>4, <1>5, <1>8, <1>9, <1>11, Basics DEF Move, root

LEMMA ItruncUpdateIs ==
  ASSUME IInv, NEW p \in Proc, ItruncUpdate(p)
  PROVE  \E s \in Slot :
            /\ s = call[p].put /\ icache[s].ref = 1 /\ ilk[s] = p
            /\ icache[s].copy \in Dinode /\ icache[s].copy.nlink = 0
            /\ icache[s].copy.addr = None
            /\ Writes(s, icache[s].copy)
            /\ Move(p, "tupdate", "ifree", call[p], file[p])
            /\ UNCHANGED <<ilk, bitmap, dir, dlk, panicked>>
<1>1. pc[p] = "tupdate"
  BY DEF ItruncUpdate, At
<1>2. PICK s \in Slot : s = call[p].put /\ icache[s].ref > 0
  BY <1>1, Here DEF Putting
<1>3. /\ icache[s].ref = 1 /\ icache[s].copy # None /\ icache[s].copy.nlink = 0
      /\ icache[s].copy.addr = None
  BY <1>1, <1>2 DEF IInv, Calls, ChangeOK
<1>4. ilk[s] = p
  BY <1>1, <1>2, Basics DEF Locked, Holds
<1>5. icache[s].copy \in Dinode
  BY <1>3, Types, Basics DEF SlotRec
<1>6. /\ Iupdate(s, icache[s].copy) /\ Goto(p, "ifree")
      /\ UNCHANGED <<ilk, bitmap, root, file, call, panicked>>
  BY <1>2 DEF ItruncUpdate
<1>7. Writes(s, icache[s].copy)
  BY <1>2, <1>5, <1>6, WritesIs
<1> QED
  BY <1>1, <1>2, <1>3, <1>4, <1>5, <1>6, <1>7, Basics DEF Move, root

LEMMA IfreeIs ==
  ASSUME IInv, NEW p \in Proc, Ifree(p)
  PROVE  \E s \in Slot :
            /\ s = call[p].put /\ icache[s].ref = 1 /\ ilk[s] = p
            /\ icache[s].copy \in Dinode /\ icache[s].copy.nlink = 0 /\ icache[s].copy.addr = None
            /\ icache[s].inum \in Inum
            /\ CopySets(s, None)
            /\ OnlyInode(icache[s].inum) /\ dinode'[icache[s].inum] = FreeInode
            /\ LockSet(s, None)
            /\ Move(p, "ifree", "iputdrop", call[p], file[p])
            /\ UNCHANGED <<bitmap, dir, dlk, panicked>>
<1>1. pc[p] = "ifree"
  BY DEF Ifree, At
<1>2. PICK s \in Slot : s = call[p].put /\ icache[s].ref > 0
  BY <1>1, Here DEF Putting
<1>3. /\ icache[s].ref = 1 /\ icache[s].copy # None /\ icache[s].copy.nlink = 0
      /\ icache[s].copy.addr = None
  BY <1>1, <1>2 DEF IInv, Calls, ChangeOK
<1>4. ilk[s] = p
  BY <1>1, <1>2, Basics DEF Locked, Holds
<1>5. icache[s].copy \in Dinode
  BY <1>3, Types, Basics DEF SlotRec
<1>6. icache[s].inum \in Inum
  BY <1>2, Basics DEF OneSlot
<1>7. /\ dinode' = [dinode EXCEPT ![icache[s].inum] = FreeInode]
      /\ icache' = [icache EXCEPT ![s].copy = None]
      /\ ilk' = [ilk EXCEPT ![s] = None]
      /\ Goto(p, "iputdrop")
      /\ UNCHANGED <<bitmap, root, file, call, panicked>>
  BY <1>2 DEF Ifree
<1>8. CopySets(s, None)
  BY <1>7, CopySetsIs
<1>9. FreeInode \in Dinode
  BY <1>5, RecordTypes
<1>10. OnlyInode(icache[s].inum) /\ dinode'[icache[s].inum] = FreeInode
  BY <1>6, <1>7, <1>9, InodeUpdate, Basics
<1>11. LockSet(s, None)
  BY <1>7, Basics
<1> QED
  BY <1>1, <1>2, <1>3, <1>4, <1>5, <1>6, <1>7, <1>8, <1>10, <1>11, Basics DEF Move, root

LEMMA IputDropIs ==
  ASSUME IInv, NEW p \in Proc, IputDrop(p)
  PROVE  \E s \in Slot :
            /\ s = call[p].put /\ icache[s].ref > 0
            /\ OnlySlot(s) /\ icache'[s].copy = icache[s].copy
            /\ icache'[s].inum = icache[s].inum /\ icache'[s].ref = icache[s].ref - 1
            /\ dlk' = IF call[p].next = "linkbad" THEN None ELSE dlk
            /\ Move(p, "iputdrop", call[p].next,
                    Call(call[p].name, call[p].inum, call[p].ip, None, "user"), file[p])
            /\ UNCHANGED <<ilk, dinode, bitmap, dir, panicked>>
<1>1. pc[p] = "iputdrop"
  BY DEF IputDrop, At
<1>2. PICK s \in Slot : s = call[p].put /\ icache[s].ref > 0
  BY <1>1, Here DEF Putting
<1>3. /\ icache' = [icache EXCEPT ![s].ref = @ - 1]
      /\ dlk' = IF call[p].next = "linkbad" THEN None ELSE dlk
      /\ call' = [call EXCEPT ![p].put = None, ![p].next = "user"]
      /\ Goto(p, call[p].next)
      /\ UNCHANGED <<ilk, disk, dir, file, panicked>>
  BY <1>2 DEF IputDrop
<1>4. /\ OnlySlot(s) /\ icache'[s].copy = icache[s].copy
      /\ icache'[s].inum = icache[s].inum /\ icache'[s].ref = icache[s].ref - 1
  BY <1>2, <1>3, DropIs, Basics
<1>5. call'[p] = [call[p] EXCEPT !.put = None, !.next = "user"]
  BY <1>3, Types, Basics
<1>6. [call[p] EXCEPT !.put = None, !.next = "user"]
         = Call(call[p].name, call[p].inum, call[p].ip, None, "user")
  BY Basics, FormDropped
<1> QED
  BY <1>1, <1>2, <1>3, <1>4, <1>5, <1>6, Basics DEF Move, disk

(***************************************************************************)
(* The steps, by what they do to the cache and to the disk.                *)
(***************************************************************************)
LEMMA CallFields ==
  /\ \A n, i, s, t, x : /\ Call(n, i, s, t, x).name = n /\ Call(n, i, s, t, x).inum = i
                        /\ Call(n, i, s, t, x).ip = s /\ Call(n, i, s, t, x).put = t
                        /\ Call(n, i, s, t, x).next = x
  /\ \A t : /\ WithPut(t).name = None /\ WithPut(t).inum = None /\ WithPut(t).ip = None
            /\ WithPut(t).put = t /\ WithPut(t).next = "user"
  /\ NoCall.name = None /\ NoCall.inum = None /\ NoCall.ip = None /\ NoCall.put = None
  /\ NoCall.next = "user"
BY DEF Call, WithPut, NoCall

\* p works on no slot it did not work on before.
NoMore(p) == \A t \in Slot : Works(p, t)' => Works(p, t)

\* p is not between taking or giving back a block and the iupdate, or only for s.
NotUpdating(p) == pc[p] \notin {"wupdate", "tupdate"}
OnlyUpdates(p, s) == \A t \in Slot : Updates(p, t) => t = s

Keeps(p) == /\ UNCHANGED <<icache, dinode, bitmap>>
            /\ NoMore(p) /\ NotUpdating(p)

Takes(p, i, s) == /\ Iget(i, s) /\ UNCHANGED <<dinode, bitmap>>
                  /\ \A t \in Slot : Works(p, t)' => Works(p, t) \/ t = s
                  /\ \/ dlk = None /\ dinode[i].nlink >= 1
                     \/ pc[p] = "iget" /\ i = call[p].inum
                  /\ NotUpdating(p)

Reads(p, s) == /\ icache[s].ref > 0 /\ ilk[s] = None /\ Works(p, s)
               /\ CopySets(s, Copy(s)) /\ UNCHANGED <<dinode, bitmap>>
               /\ NoMore(p) /\ NotUpdating(p)

Allocates(p, i) == /\ HasDir(p)
                   /\ dinode[i].type = "free" /\ OnlyInode(i) /\ dinode'[i] = Fresh
                   /\ UNCHANGED <<icache, bitmap>>
                   /\ NoMore(p) /\ NotUpdating(p)

Changes(p, s, d) == /\ icache[s].ref > 0 /\ ilk[s] \in {None, p} /\ Works(p, s)
                    /\ Writes(s, d) /\ d.type = "file" /\ d.addr = Copy(s).addr
                    /\ bitmap' = bitmap
                    /\ NoMore(p) /\ OnlyUpdates(p, s)

Enters(p, s, b, d) == /\ icache[s].ref > 0 /\ ilk[s] = None /\ Works(p, s)
                      /\ Copy(s).addr = None /\ b \notin bitmap /\ bitmap' = bitmap \cup {b}
                      /\ d = [Copy(s) EXCEPT !.addr = b] /\ CopySets(s, d)
                      /\ dinode' = dinode
                      /\ NoMore(p) /\ NotUpdating(p) /\ Updates(p, s)'

Truncates(p, s, d) == /\ icache[s].ref > 0 /\ ilk[s] = p /\ Works(p, s)
                      /\ icache[s].copy \in Dinode /\ d = [icache[s].copy EXCEPT !.addr = None]
                      /\ CopySets(s, d) /\ dinode' = dinode
                      /\ bitmap' = bitmap \ {icache[s].copy.addr}
                      /\ NoMore(p) /\ NotUpdating(p) /\ Updates(p, s)'

Frees(p, s) == /\ icache[s].ref = 1 /\ ilk[s] = p /\ call[p].put = s /\ Works(p, s)
               /\ icache[s].copy \in Dinode /\ icache[s].copy.addr = None
               /\ icache[s].inum \in Inum
               /\ CopySets(s, None)
               /\ OnlyInode(icache[s].inum) /\ dinode'[icache[s].inum] = FreeInode
               /\ bitmap' = bitmap
               /\ \A t \in Slot : Works(p, t)' => Works(p, t) /\ t # s
               /\ NotUpdating(p)

Drops(p, s) == /\ icache[s].ref > 0 /\ call[p].put = s
               /\ OnlySlot(s) /\ icache'[s].copy = icache[s].copy
               /\ icache'[s].inum = icache[s].inum /\ icache'[s].ref = icache[s].ref - 1
               /\ UNCHANGED <<dinode, bitmap>>
               /\ NoMore(p) /\ NotUpdating(p)

Data(p) == \/ Keeps(p)
           \/ \E i \in Inum : Allocates(p, i) \/ \E s \in Slot : Takes(p, i, s)
           \/ \E s \in Slot : \/ Reads(p, s) \/ Frees(p, s) \/ Drops(p, s)
                              \/ \E d \in Dinode : \/ Changes(p, s, d) \/ Truncates(p, s, d)
                                                   \/ \E b \in Block : Enters(p, s, b, d)

\* A move that only passes references on.
LEMMA MoveOn ==
  ASSUME NEW p \in Proc, NEW s \in Slot, NEW l, NEW m, NEW f,
         f = file[p] \/ f \notin Slot
  PROVE  /\ Move(p, l, m, NoCall, s) /\ Works(p, s) => NoMore(p)
         /\ Move(p, l, m, WithPut(s), f) /\ Works(p, s) => NoMore(p)
         /\ Move(p, l, m, call[p], f) /\ l # "iputdrop" => NoMore(p)
<1>1. \A t \in Slot : t # None
  BY Nones
<1> QED
  BY <1>1, CallFields DEF Move, NoMore, Works

LEMMA TakeSteps ==
  ASSUME IInv, NEW p \in Proc, NEW n \in Name,
         OpenName(p, n) \/ LinkOld(p, n) \/ LinkExists(p, n) \/ Unlink(p, n)
  PROVE  Stuck \/ \E i \in Inum, s \in Slot : Takes(p, i, s)
<1>1. CASE ~Stuck
  <2>1. PICK s \in Slot :
              /\ dir[n] \in Inum /\ Iget(dir[n], s) /\ dlk = None
              /\ UNCHANGED <<dinode, bitmap>>
              /\ \/ Move(p, "user", "ilock", Call(None, None, s, None, "user"), None)
                 \/ Move(p, "user", "linkinc", Call(None, None, s, None, "user"), file[p])
                 \/ Move(p, "linkdir", "iput", Call(None, None, call[p].ip, s, "linkbad"), file[p])
                 \/ Move(p, "user", "unlink", Call(n, None, s, None, "user"), file[p])
    BY <1>1, NameMoves
  <2>2. dinode[dir[n]].nlink >= 1
    BY <2>1, Named, Nones
  <2>3. \A t \in Slot : Works(p, t)' => Works(p, t) \/ t = s
    BY <2>1, CallFields, Nones DEF Move, Works
  <2>4. NotUpdating(p)
    BY <2>1 DEF Move, NotUpdating
  <2> QED
    BY <2>1, <2>2, <2>3, <2>4 DEF Takes
<1> QED
  BY <1>1

LEMMA GetSteps ==
  ASSUME IInv, NEW p \in Proc, IallocGet(p) \/ Ialloc(p)
  PROVE  Stuck \/ \E i \in Inum : Allocates(p, i) \/ \E s \in Slot : Takes(p, i, s)
<1>1. CASE IallocGet(p) /\ ~Stuck
  <2>1. PICK s \in Slot :
              /\ call[p].inum \in Inum /\ Iget(call[p].inum, s)
              /\ Move(p, "iget", "newinode", Call(call[p].name, None, s, None, "user"), file[p])
              /\ UNCHANGED <<dinode, bitmap>>
    BY <1>1, IallocGetIs DEF Iget, Cached, EmptySlots
  <2>2. \A t \in Slot : Works(p, t)' => Works(p, t) \/ t = s
    BY <2>1, CallFields, Nones DEF Move, Works
  <2> QED
    BY <2>1, <2>2 DEF Takes, Move, NotUpdating
<1>2. CASE Ialloc(p) /\ ~Stuck
  <2>1. PICK i \in Inum :
              /\ dinode[i].type = "free" /\ OnlyInode(i) /\ dinode'[i] = Fresh
              /\ Move(p, "ialloc", "iget", Call(call[p].name, i, None, None, "user"), file[p])
              /\ UNCHANGED <<icache, bitmap>>
    BY <1>2, IallocIs
  <2>2. NoMore(p)
    BY <2>1, CallFields, Nones DEF Move, Works, NoMore
  <2>3. HasDir(p) /\ NotUpdating(p)
    BY <2>1 DEF Move, HasDir, Creating, NotUpdating
  <2> QED
    BY <2>1, <2>2, <2>3 DEF Allocates
<1> QED
  BY <1>1, <1>2

LEMMA ReadSteps ==
  ASSUME IInv, NEW p \in Proc, OpenLock(p) \/ UnlinkClear(p)
  PROVE  \E s \in Slot : Reads(p, s)
<1>1. CASE OpenLock(p)
  <2>1. PICK s \in Slot :
            /\ icache[s].ref > 0 /\ ilk[s] = None /\ Works(p, s)
            /\ CopySets(s, Copy(s)) /\ UNCHANGED <<dinode, bitmap>>
            /\ \/ Move(p, "ilock", "user", NoCall, s)
               \/ Move(p, "ilock", "iput", WithPut(s), file[p])
    BY <1>1, OpenLockIs
  <2>2. NoMore(p) /\ NotUpdating(p)
    BY <2>1, MoveOn DEF Move, NotUpdating
  <2> QED
    BY <2>1, <2>2 DEF Reads
<1>2. CASE UnlinkClear(p)
  <2>1. PICK s \in Slot :
            /\ icache[s].ref > 0 /\ ilk[s] = None /\ Works(p, s)
            /\ CopySets(s, Copy(s)) /\ UNCHANGED <<dinode, bitmap>>
            /\ Move(p, "unlink", "unlinkdec", call[p], file[p])
    BY <1>2, UnlinkClearIs
  <2>2. NoMore(p) /\ NotUpdating(p)
    BY <2>1, MoveOn DEF Move, NotUpdating
  <2> QED
    BY <2>1, <2>2 DEF Reads
<1> QED
  BY <1>1, <1>2

LEMMA KeepSteps ==
  ASSUME IInv, NEW p \in Proc,
         \/ \E n \in Name : Create(p, n) \/ LinkNew(p, n)
         \/ NewLink(p) \/ LinkNoParent(p) \/ Close(p) \/ IputTest(p)
  PROVE  Keeps(p)
<1>1. ASSUME NEW n \in Name, Create(p, n) PROVE Keeps(p)
  <2>1. /\ Move(p, "user", "ialloc", Call(n, None, None, None, "user"), None)
        /\ UNCHANGED <<icache, dinode, bitmap>>
    BY <1>1, CreateIs
  <2>2. NoMore(p)
    BY <2>1, CallFields, Nones DEF Move, Works, NoMore
  <2> QED
    BY <2>1, <2>2 DEF Keeps, Move, NotUpdating
<1>2. ASSUME NEW n \in Name, LinkNew(p, n) PROVE Keeps(p)
  <2>1. PICK s \in Slot :
            /\ s = call[p].ip /\ Move(p, "linkdir", "iput", WithPut(s), file[p])
            /\ UNCHANGED <<icache, dinode, bitmap>>
    BY <1>2, LinkNewIs
  <2>2. NoMore(p)
    BY <2>1, MoveOn DEF Works
  <2> QED
    BY <2>1, <2>2 DEF Keeps, Move, NotUpdating
<1>3. CASE NewLink(p)
  <2>1. PICK s \in Slot :
            /\ Works(p, s) /\ UNCHANGED <<icache, dinode, bitmap>>
            /\ \/ Move(p, "newlink", "user", NoCall, s)
               \/ Move(p, "newlink", "iput", WithPut(s), file[p])
    BY <1>3, NewLinkIs
  <2>2. NoMore(p)
    BY <2>1, MoveOn
  <2> QED
    BY <2>1, <2>2 DEF Keeps, Move, NotUpdating
<1>4. CASE LinkNoParent(p)
  <2>1. /\ Move(p, "linkdir", "linkbad", call[p], file[p])
        /\ UNCHANGED <<icache, dinode, bitmap>>
    BY <1>4, LinkNoParentIs
  <2>2. NoMore(p)
    BY <2>1 DEF Move, NoMore, Works
  <2> QED
    BY <2>1, <2>2 DEF Keeps, Move, NotUpdating
<1>5. CASE Close(p)
  <2>1. PICK s \in Slot :
            /\ s = file[p] /\ Move(p, "user", "iput", WithPut(s), None)
            /\ UNCHANGED <<icache, dinode, bitmap>>
    BY <1>5, CloseIs
  <2>2. NoMore(p)
    BY <2>1, MoveOn, Nones DEF Works
  <2> QED
    BY <2>1, <2>2 DEF Keeps, Move, NotUpdating
<1>6. CASE IputTest(p)
  <2>1. PICK s \in Slot :
            /\ \/ Move(p, "iput", "itrunc", call[p], file[p])
               \/ Move(p, "iput", "iputdrop", call[p], file[p])
            /\ UNCHANGED <<icache, dinode, bitmap>>
    BY <1>6, IputTestIs
  <2>2. NoMore(p)
    BY <2>1 DEF Move, NoMore, Works
  <2> QED
    BY <2>1, <2>2 DEF Keeps, Move, NotUpdating
<1> QED
  BY <1>1, <1>2, <1>3, <1>4, <1>5, <1>6

LEMMA LinkSet ==
  ASSUME NEW c \in Dinode, NEW n, c.type = "file"
  PROVE  [c EXCEPT !.nlink = n].type = "file" /\ [c EXCEPT !.nlink = n].addr = c.addr
         /\ [c EXCEPT !.nlink = n].nlink = n
BY DEF Dinode

LEMMA ChangeSteps ==
  ASSUME IInv, NEW p \in Proc,
         NewInode(p) \/ LinkInc(p) \/ LinkBad(p) \/ UnlinkDec(p) \/ WriteUpdate(p)
         \/ ItruncUpdate(p)
  PROVE  \E s \in Slot, d \in Dinode : Changes(p, s, d)
<1>1. CASE NewInode(p) \/ LinkInc(p)
  <2>1. PICK s \in Slot, d \in Dinode :
            /\ icache[s].ref > 0 /\ ilk[s] = None /\ Works(p, s)
            /\ \/ d = [Copy(s) EXCEPT !.nlink = 1]
               \/ d = [Copy(s) EXCEPT !.nlink = Copy(s).nlink + 1]
            /\ Writes(s, d)
            /\ \/ Move(p, "newinode", "newlink", call[p], file[p])
               \/ Move(p, "linkinc", "linkdir", call[p], file[p])
            /\ bitmap' = bitmap
    BY <1>1, NewInodeIs, LinkIncIs
  <2>2. Copy(s) \in Dinode /\ Copy(s).type = "file"
    BY <2>1, Busy
  <2>3. d.type = "file" /\ d.addr = Copy(s).addr
    <3>1. \A n : /\ [Copy(s) EXCEPT !.nlink = n].type = "file"
                 /\ [Copy(s) EXCEPT !.nlink = n].addr = Copy(s).addr
      BY <2>2, LinkSet
    <3> QED
      BY <2>1, <3>1
  <2>4. NoMore(p) /\ OnlyUpdates(p, s)
    BY <2>1 DEF Move, NoMore, Works, OnlyUpdates, Updates
  <2> QED
    BY <2>1, <2>3, <2>4 DEF Changes
<1>2. CASE LinkBad(p) \/ UnlinkDec(p)
  <2>1. PICK s \in Slot, d \in Dinode :
            /\ icache[s].ref > 0 /\ ilk[s] \in {None, p} /\ Works(p, s)
            /\ d = [Copy(s) EXCEPT !.nlink = Copy(s).nlink - 1]
            /\ Writes(s, d)
            /\ \/ Move(p, "linkbad", "iput", WithPut(s), file[p])
               \/ Move(p, "unlinkdec", "iput", WithPut(s), file[p])
            /\ bitmap' = bitmap
    BY <1>2, LinkBadIs, UnlinkDecIs
  <2>2. Copy(s) \in Dinode /\ Copy(s).type = "file"
    BY <2>1, Busy
  <2>3. d.type = "file" /\ d.addr = Copy(s).addr
    BY <2>1, <2>2, LinkSet
  <2>4. NoMore(p) /\ OnlyUpdates(p, s)
    BY <2>1, MoveOn DEF Move, OnlyUpdates, Updates
  <2> QED
    BY <2>1, <2>3, <2>4 DEF Changes
<1>3. CASE WriteUpdate(p)
  <2>1. PICK s \in Slot :
            /\ s = file[p] /\ icache[s].ref > 0 /\ ilk[s] = p /\ Works(p, s)
            /\ icache[s].copy \in Dinode /\ Writes(s, icache[s].copy)
            /\ Move(p, "wupdate", "user", call[p], file[p])
            /\ bitmap' = bitmap
    BY <1>3, WriteUpdateIs
  <2>2. Copy(s).type = "file" /\ Copy(s) = icache[s].copy
    BY <2>1, Busy, Nones
  <2>3. NoMore(p) /\ OnlyUpdates(p, s)
    BY <2>1 DEF Move, NoMore, Works, OnlyUpdates, Updates
  <2> QED
    BY <2>1, <2>2, <2>3 DEF Changes
<1>4. CASE ItruncUpdate(p)
  <2>1. PICK s \in Slot :
            /\ s = call[p].put /\ icache[s].ref = 1 /\ ilk[s] = p
            /\ icache[s].copy \in Dinode /\ Writes(s, icache[s].copy)
            /\ Move(p, "tupdate", "ifree", call[p], file[p])
            /\ bitmap' = bitmap
    BY <1>4, ItruncUpdateIs
  <2>2. Works(p, s)
    BY <2>1 DEF Works, Move
  <2>3. Copy(s).type = "file" /\ Copy(s) = icache[s].copy
    BY <2>1, <2>2, Busy, Nones
  <2>4. NoMore(p) /\ OnlyUpdates(p, s)
    BY <2>1 DEF Move, NoMore, Works, OnlyUpdates, Updates
  <2> QED
    BY <2>1, <2>2, <2>3, <2>4 DEF Changes
<1> QED
  BY <1>1, <1>2, <1>3, <1>4

LEMMA BlockSteps ==
  ASSUME IInv, NEW p \in Proc, WriteAlloc(p) \/ Itrunc(p) \/ Ifree(p) \/ IputDrop(p)
  PROVE  \/ Stuck
         \/ \E s \in Slot : \/ Frees(p, s) \/ Drops(p, s)
                            \/ \E d \in Dinode : \/ Truncates(p, s, d)
                                                 \/ \E b \in Block : Enters(p, s, b, d)
<1>1. CASE WriteAlloc(p) /\ ~Stuck
  <2>1. PICK s \in Slot, d \in Dinode, b \in Block :
              /\ s = file[p] /\ icache[s].ref > 0 /\ ilk[s] = None /\ Works(p, s)
              /\ Copy(s).addr = None /\ b \notin bitmap /\ bitmap' = bitmap \cup {b}
              /\ d = [Copy(s) EXCEPT !.addr = b] /\ CopySets(s, d)
              /\ Move(p, "user", "wupdate", call[p], file[p])
              /\ dinode' = dinode
    BY <1>1, WriteAllocIs
  <2>2. NoMore(p)
    BY <2>1 DEF Move, NoMore, Works
  <2> QED
    BY <2>1, <2>2 DEF Enters, Move, NotUpdating, Updates
<1>2. CASE Itrunc(p)
  <2>1. PICK s \in Slot, d \in Dinode :
            /\ s = call[p].put /\ icache[s].ref = 1 /\ ilk[s] = p
            /\ icache[s].copy \in Dinode
            /\ d = [icache[s].copy EXCEPT !.addr = None] /\ CopySets(s, d)
            /\ bitmap' = bitmap \ {icache[s].copy.addr} /\ dinode' = dinode
            /\ Move(p, "itrunc", "tupdate", call[p], file[p])
    BY <1>2, ItruncIs
  <2>2. NoMore(p) /\ Works(p, s)
    BY <2>1 DEF Move, NoMore, Works
  <2> QED
    BY <2>1, <2>2 DEF Truncates, Move, NotUpdating, Updates
<1>3. CASE Ifree(p)
  <2>1. PICK s \in Slot :
            /\ s = call[p].put /\ icache[s].ref = 1 /\ ilk[s] = p
            /\ icache[s].copy \in Dinode /\ icache[s].copy.addr = None
            /\ icache[s].inum \in Inum
            /\ CopySets(s, None)
            /\ OnlyInode(icache[s].inum) /\ dinode'[icache[s].inum] = FreeInode
            /\ Move(p, "ifree", "iputdrop", call[p], file[p])
            /\ bitmap' = bitmap
    BY <1>3, IfreeIs
  <2>2. file[p] # s /\ call[p].ip # s
    BY <2>1, Referred DEF IInv
  <2>3. Works(p, s) /\ \A t \in Slot : Works(p, t)' => Works(p, t) /\ t # s
    BY <2>1, <2>2 DEF Move, Works
  <2> QED
    BY <2>1, <2>3 DEF Frees, Move, NotUpdating
<1>4. CASE IputDrop(p)
  <2>1. PICK s \in Slot :
            /\ s = call[p].put /\ icache[s].ref > 0
            /\ OnlySlot(s) /\ icache'[s].copy = icache[s].copy
            /\ icache'[s].inum = icache[s].inum /\ icache'[s].ref = icache[s].ref - 1
            /\ Move(p, "iputdrop", call[p].next,
                    Call(call[p].name, call[p].inum, call[p].ip, None, "user"), file[p])
            /\ UNCHANGED <<dinode, bitmap>>
    BY <1>4, IputDropIs
  <2>2. NoMore(p)
    BY <2>1, CallFields, Nones DEF Move, NoMore, Works
  <2> QED
    BY <2>1, <2>2 DEF Drops, Move, NotUpdating
<1> QED
  BY <1>1, <1>2, <1>3, <1>4

LEMMA DataSteps ==
  ASSUME IInv, NEW p \in Proc, CallStep(p)
  PROVE  Stuck \/ Data(p)
<1>1. CASE \E n \in Name : OpenName(p, n) \/ LinkOld(p, n) \/ LinkExists(p, n) \/ Unlink(p, n)
  BY <1>1, TakeSteps DEF Data
<1>2. CASE \/ \E n \in Name : Create(p, n) \/ LinkNew(p, n)
           \/ NewLink(p) \/ LinkNoParent(p) \/ Close(p) \/ IputTest(p)
  BY <1>2, KeepSteps DEF Data
<1>3. CASE IallocGet(p) \/ Ialloc(p)
  BY <1>3, GetSteps DEF Data
<1>4. CASE OpenLock(p) \/ UnlinkClear(p)
  BY <1>4, ReadSteps DEF Data
<1>5. CASE NewInode(p) \/ LinkInc(p) \/ LinkBad(p) \/ UnlinkDec(p) \/ WriteUpdate(p)
           \/ ItruncUpdate(p)
  BY <1>5, ChangeSteps DEF Data
<1>6. CASE WriteAlloc(p) \/ Itrunc(p) \/ Ifree(p) \/ IputDrop(p)
  BY <1>6, BlockSteps DEF Data
<1> QED
  BY <1>1, <1>2, <1>3, <1>4, <1>5, <1>6 DEF CallStep

(***************************************************************************)
(* The invariant, part by part: types.                                     *)
(***************************************************************************)
LEMMA NextData ==
  ASSUME IInv, NEW p \in Proc, Data(p)
  PROVE  /\ icache' \in [Slot -> SlotRec] /\ dinode' \in [Inum -> Dinode] /\
              bitmap' \in SUBSET Block
         /\ \A t \in Slot : icache[t].ref > 0 => icache'[t].inum = icache[t].inum
         /\ \A t \in Slot : Works(p, t)' => Works(p, t) \/ icache'[t].ref > icache[t].ref
<1>1. /\ icache \in [Slot -> SlotRec] /\ dinode \in [Inum -> Dinode] /\ bitmap \in SUBSET Block
      /\ TypeOK /\ \A t \in Slot : icache[t].ref \in Nat
  BY Basics, Types DEF SlotRec
<1>2. CASE Keeps(p)
  BY <1>1, <1>2 DEF Keeps, NoMore
<1>3. ASSUME NEW i \in Inum, Allocates(p, i)
      PROVE  /\ icache' = icache /\ dinode' \in [Inum -> Dinode] /\ bitmap' = bitmap
             /\ NoMore(p)
  BY <1>3 DEF Allocates, OnlyInode
<1>4. ASSUME NEW i \in Inum, NEW s \in Slot, Takes(p, i, s)
      PROVE  /\ OnlySlot(s) /\ (icache[s].ref > 0 => icache'[s].inum = icache[s].inum)
             /\ icache'[s].ref = icache[s].ref + 1
             /\ \A t \in Slot : Works(p, t)' => Works(p, t) \/ t = s
             /\ dinode' = dinode /\ bitmap' = bitmap
  BY <1>1, <1>4, IgetIs DEF Takes
<1>5. ASSUME NEW s \in Slot,
             \/ Reads(p, s) \/ Frees(p, s) \/ Drops(p, s)
             \/ \E d \in Dinode : \/ Changes(p, s, d) \/ Truncates(p, s, d)
                                  \/ \E b \in Block : Enters(p, s, b, d)
      PROVE  /\ OnlySlot(s) /\ icache'[s].inum = icache[s].inum
             /\ dinode' = dinode \/ \E i : OnlyInode(i)
             /\ bitmap' \in SUBSET Block
             /\ NoMore(p)
  BY <1>1, <1>5
     DEF Reads, Frees, Drops, Changes, Truncates, Enters, CopySets, Writes, NoMore
<1>6. CASE \E i \in Inum : Allocates(p, i)
  BY <1>1, <1>3, <1>6 DEF NoMore
<1>7. CASE \E i \in Inum, s \in Slot : Takes(p, i, s)
  BY <1>1, <1>4, <1>7 DEF OnlySlot
<1>8. CASE \E s \in Slot : \/ Reads(p, s) \/ Frees(p, s) \/ Drops(p, s)
                           \/ \E d \in Dinode : \/ Changes(p, s, d) \/ Truncates(p, s, d)
                                                \/ \E b \in Block : Enters(p, s, b, d)
  BY <1>1, <1>5, <1>8 DEF OnlySlot, OnlyInode, NoMore
<1> QED
  BY <1>2, <1>6, <1>7, <1>8 DEF Data

\* The other variables.
LEMMA NextLocks ==
  ASSUME IInv, NEW p \in Proc, CallStep(p)
  PROVE  /\ ilk' \in [Slot -> Proc \cup {None}] /\ dir' \in [Name -> Inum \cup {None}]
         /\ dlk' \in Proc \cup {None}
<1>1. /\ ilk \in [Slot -> Proc \cup {None}] /\ dir \in [Name -> Inum \cup {None}]
      /\ dlk \in Proc \cup {None}
  BY Basics, Types
<1>2. Stuck => UNCHANGED <<ilk, dir, dlk>>
  BY DEF Stuck
<1>3. \A s, v : LockSet(s, v) => ilk' \in [Slot -> Proc \cup {None}]
  BY DEF LockSet
<1>4. \A n, v : NameSet(n, v) => dir' \in [Name -> Inum \cup {None}]
  BY DEF NameSet
<1>5. ASSUME NEW n \in Name, OpenName(p, n) \/ LinkOld(p, n) \/ LinkExists(p, n) \/ Unlink(p, n)
      PROVE  ilk' = ilk /\ dir' = dir /\ dlk' \in Proc \cup {None}
  BY <1>1, <1>2, <1>5, NameMoves
<1>6. ASSUME NEW n \in Name, Create(p, n) \/ LinkNew(p, n)
      PROVE  ilk' = ilk /\ dir' \in [Name -> Inum \cup {None}] /\ dlk' \in Proc \cup {None}
  BY <1>1, <1>4, <1>6, CreateIs, LinkNewIs
<1>7. CASE Ialloc(p) \/ IallocGet(p) \/ OpenLock(p) \/ LinkInc(p) \/ LinkNoParent(p) \/ LinkBad(p)
           \/ Close(p) \/ Itrunc(p) \/ ItruncUpdate(p)
  BY <1>1, <1>2, <1>7, IallocIs, IallocGetIs, OpenLockIs, LinkIncIs, LinkNoParentIs, LinkBadIs,
     CloseIs, ItruncIs, ItruncUpdateIs
<1>8. CASE NewInode(p) \/ UnlinkDec(p) \/ WriteAlloc(p) \/ WriteUpdate(p) \/ IputTest(p) \/ Ifree(p)
  BY <1>1, <1>2, <1>3, <1>8, NewInodeIs, UnlinkDecIs, WriteAllocIs, WriteUpdateIs, IputTestIs,
       IfreeIs
<1>9. CASE NewLink(p) \/ UnlinkClear(p)
  BY <1>1, <1>3, <1>4, <1>9, NewLinkIs, UnlinkClearIs
<1>10. CASE IputDrop(p)
  BY <1>1, <1>10, IputDropIs
<1> QED
  BY <1>1, <1>5, <1>6, <1>7, <1>8, <1>9, <1>10 DEF CallStep

LEMMA PlaceAt ==
  ASSUME IInv, NEW p \in Proc, NEW l, Goto(p, l), l \in Labels
  PROVE  pc' \in [Proc -> Labels]
BY Types, Basics DEF Goto

LEMMA NextPlace ==
  ASSUME IInv, NEW p \in Proc, CallStep(p)
  PROVE  pc' \in [Proc -> Labels] /\ file' \in [Proc -> Slot \cup {None}]
<1>1. /\ pc \in [Proc -> Labels] /\ file \in [Proc -> Slot \cup {None}]
      /\ call[p].next \in {"user", "linkbad"}
  BY Basics, Types DEF CallRec
<1>2. \A l \in Labels : Goto(p, l) => pc' \in [Proc -> Labels]
  BY PlaceAt
<1>3. \A m : Panic(m) => pc' = pc /\ file' = file
  BY DEF Panic
<1>4. \A s \in Slot : OpenDone(p, s) => pc' \in [Proc -> Labels] /\
        file' \in [Proc -> Slot \cup {None}]
  BY <1>1, <1>2 DEF OpenDone, Labels
<1>5. ASSUME NEW n \in Name, OpenName(p, n) \/ Create(p, n) \/ LinkOld(p, n) \/ LinkNew(p, n)
                             \/ LinkExists(p, n) \/ Unlink(p, n)
      PROVE  pc' \in [Proc -> Labels] /\ file' = file
  BY <1>1, <1>2, <1>3, <1>5
     DEF OpenName, Create, LinkOld, LinkNew, LinkExists, Unlink, Labels
<1>6. CASE OpenLock(p) \/ NewLink(p)
  <2>1. call[p].ip \in Slot
    BY <1>6, Here DEF OpenLock, NewLink, At, WithIp
  <2> QED
    BY <1>1, <1>3, <1>4, <1>6, <2>1 DEF OpenLock, NewLink
<1>7. CASE Ialloc(p) \/ IallocGet(p) \/ NewInode(p) \/ LinkInc(p) \/ LinkNoParent(p) \/ LinkBad(p)
  BY <1>1, <1>2, <1>3, <1>7
     DEF Ialloc, IallocGet, NewInode, LinkInc, LinkNoParent, LinkBad, Labels
<1>8. CASE UnlinkClear(p) \/ UnlinkDec(p) \/ WriteAlloc(p) \/ WriteUpdate(p) \/ Close(p)
  BY <1>1, <1>2, <1>3, <1>8
     DEF UnlinkClear, UnlinkDec, WriteAlloc, WriteUpdate, Close, Labels
<1>9. CASE IputTest(p) \/ Itrunc(p) \/ ItruncUpdate(p) \/ Ifree(p) \/ IputDrop(p)
  BY <1>1, <1>2, <1>3, <1>9 DEF IputTest, Itrunc, ItruncUpdate, Ifree, IputDrop, Labels
<1> QED
  BY <1>1, <1>5, <1>6, <1>7, <1>8, <1>9 DEF CallStep

LEMMA NextCalls ==
  ASSUME IInv, NEW p \in Proc, CallStep(p)
  PROVE  call' \in [Proc -> CallRec]
<1>1. TypeOK /\ call \in [Proc -> CallRec] /\ call[p] \in CallRec /\
        dir \in [Name -> Inum \cup {None}]
      /\ file[p] \in Slot \cup {None}
  BY Basics, Types
<1>2. \A c \in CallRec : CallIs(p, c) => call' \in [Proc -> CallRec]
  BY <1>1, CallAt
<1>3. \A m : Panic(m) => call' = call
  BY DEF Panic
<1>4. \A i, s : Iget(i, s) => s \in Slot
  BY DEF Iget, Cached, EmptySlots
<1>5. NoCall \in CallRec /\ \A s \in Slot : [NoCall EXCEPT !.put = s] \in CallRec
  BY <1>1, CallTypeIs
<1>6. ASSUME NEW s \in Slot, OpenDone(p, s)
      PROVE  call' \in [Proc -> CallRec]
  <2>1. CallIs(p, NoCall) \/ CallIs(p, [NoCall EXCEPT !.put = s])
    BY <1>6 DEF OpenDone, CallIs
  <2> QED
    BY <1>2, <1>5, <2>1
<1>7. ASSUME NEW s \in Slot, call' = [call EXCEPT ![p].ip = s]
      PROVE  call' \in [Proc -> CallRec]
  BY <1>1, <1>2, <1>7, CallEffects, CallTypeIs
<1>8. ASSUME NEW s \in Slot, call' = [call EXCEPT ![p] = [NoCall EXCEPT !.put = s]]
      PROVE  call' \in [Proc -> CallRec]
  BY <1>2, <1>5, <1>8 DEF CallIs
<1>9. ASSUME NEW n \in Name, OpenName(p, n) \/ LinkOld(p, n)
      PROVE  call' \in [Proc -> CallRec]
  BY <1>1, <1>3, <1>4, <1>7, <1>9 DEF OpenName, LinkOld
<1>10. ASSUME NEW n \in Name, LinkExists(p, n)
      PROVE  call' \in [Proc -> CallRec]
  <2>1. ASSUME NEW s \in Slot, call' = [call EXCEPT ![p].put = s, ![p].next = "linkbad"]
        PROVE  call' \in [Proc -> CallRec]
    <3>1. CallIs(p, [call[p] EXCEPT !.put = s, !.next = "linkbad"])
      BY <1>1, <2>1, CallEffects
    <3>2. [call[p] EXCEPT !.put = s, !.next = "linkbad"] \in CallRec
      BY <1>1, CallTypeIs
    <3> QED
      BY <1>2, <3>1, <3>2
  <2> QED
    BY <1>1, <1>3, <1>4, <1>10, <2>1 DEF LinkExists
<1>11. ASSUME NEW n \in Name, Unlink(p, n)
      PROVE  call' \in [Proc -> CallRec]
  <2>1. ASSUME NEW s \in Slot, call' = [call EXCEPT ![p].ip = s, ![p].name = n]
        PROVE  call' \in [Proc -> CallRec]
    <3>1. CallIs(p, [call[p] EXCEPT !.ip = s, !.name = n])
      BY <1>1, <2>1, CallEffects
    <3>2. [call[p] EXCEPT !.ip = s, !.name = n] \in CallRec
      BY <1>1, CallTypeIs
    <3> QED
      BY <1>2, <3>1, <3>2
  <2> QED
    BY <1>1, <1>3, <1>4, <1>11, <2>1 DEF Unlink
<1>12. ASSUME NEW n \in Name, Create(p, n)
      PROVE  call' \in [Proc -> CallRec]
  <2>1. CallIs(p, [call[p] EXCEPT !.name = n])
    BY <1>1, <1>12, CallEffects DEF Create
  <2>2. [call[p] EXCEPT !.name = n] \in CallRec
    BY <1>1, CallTypeIs
  <2> QED
    BY <1>2, <2>1, <2>2
<1>13. ASSUME NEW n \in Name, LinkNew(p, n)
       PROVE  call' \in [Proc -> CallRec]
  <2>1. call[p].ip \in Slot
    BY <1>13, Here DEF LinkNew, At, WithIp
  <2> QED
    BY <1>8, <1>13, <2>1 DEF LinkNew
<1>14. CASE OpenLock(p) \/ NewLink(p)
  <2>1. call[p].ip \in Slot
    BY <1>14, Here DEF OpenLock, NewLink, At, WithIp
  <2> QED
    BY <1>1, <1>3, <1>6, <1>14, <2>1 DEF OpenLock, NewLink
<1>15. CASE Ialloc(p) /\ ~Stuck
  <2>1. PICK i \in Inum :
           /\ call'[p] = Call(call[p].name, i, None, None, "user")
    BY <1>15, IallocIs DEF Move
  <2>2. call[p].name \in Name \cup {None}
    BY <1>1 DEF CallRec
  <2>3. call'[p] \in CallRec
    BY <2>1, <2>2 DEF Call, CallRec
  <2>4. \E c : CallIs(p, c)
    <3>1. Panic("ialloc: no inodes") => Stuck
      BY DEF Panic, Stuck, cache, disk, root
    <3>2. PICK j : call' = [call EXCEPT ![p].inum = j]
      BY <1>15, <3>1 DEF Ialloc
    <3>3. CallIs(p, [call[p] EXCEPT !.inum = j])
      BY <1>1, <3>2, CallEffects
    <3> QED
      BY <3>3
  <2>5. PICK c : CallIs(p, c)
    BY <2>4
  <2>6. c = call'[p]
    BY <1>1, <2>5 DEF CallIs
  <2> QED
    BY <1>2, <2>3, <2>5, <2>6
<1>16. CASE IallocGet(p)
  <2>1. ASSUME NEW s \in Slot, call' = [call EXCEPT ![p].ip = s, ![p].inum = None]
        PROVE  call' \in [Proc -> CallRec]
    <3>1. CallIs(p, [call[p] EXCEPT !.ip = s, !.inum = None])
      BY <1>1, <2>1, CallEffects
    <3>2. [call[p] EXCEPT !.ip = s, !.inum = None] \in CallRec
      BY <1>1, CallTypeIs
    <3> QED
      BY <1>2, <3>1, <3>2
  <2> QED
    BY <1>1, <1>3, <1>4, <1>16, <2>1 DEF IallocGet
<1>17. CASE NewInode(p) \/ LinkInc(p) \/ LinkNoParent(p) \/ UnlinkClear(p) \/ WriteAlloc(p)
            \/ WriteUpdate(p) \/ IputTest(p) \/ Itrunc(p) \/ ItruncUpdate(p) \/ Ifree(p)
  BY <1>1, <1>3, <1>17
     DEF NewInode, LinkInc, LinkNoParent, UnlinkClear, WriteAlloc, WriteUpdate, IputTest,
       Itrunc, ItruncUpdate, Ifree
<1>18. CASE LinkBad(p) \/ UnlinkDec(p)
  <2>1. call[p].ip \in Slot
    BY <1>18, Here DEF LinkBad, UnlinkDec, At, WithIp
  <2>2. CASE LinkBad(p)
    BY <1>1, <1>3, <1>8, <2>1, <2>2 DEF LinkBad
  <2>3. CASE UnlinkDec(p)
    BY <1>8, <2>1, <2>3 DEF UnlinkDec
  <2> QED
    BY <1>18, <2>2, <2>3
<1>19. CASE Close(p)
  <2>1. CallIs(p, [call[p] EXCEPT !.put = file[p]])
    BY <1>1, <1>19, CallEffects DEF Close
  <2>2. [call[p] EXCEPT !.put = file[p]] \in CallRec
    BY <1>1, CallTypeIs
  <2> QED
    BY <1>2, <2>1, <2>2
<1>20. CASE IputDrop(p)
  <2>1. CallIs(p, [call[p] EXCEPT !.put = None, !.next = "user"])
    BY <1>1, <1>20, CallEffects DEF IputDrop
  <2>2. [call[p] EXCEPT !.put = None, !.next = "user"] \in CallRec
    BY <1>1, CallTypeIs
  <2> QED
    BY <1>2, <2>1, <2>2
<1>21. CASE Stuck
  BY <1>1, <1>21 DEF Stuck
<1> QED
  BY <1>9, <1>10, <1>11, <1>12, <1>13, <1>14, <1>15, <1>16, <1>17, <1>18, <1>19, <1>20, <1>21
     DEF CallStep

Messages == {"no", "ialloc: no inodes", "iget: no inodes", "balloc: out of blocks",
             "ilock: no type", "unlink: nlink < 1", "freeing free block"}

\* No step reaches one of the panics for a corrupt disk.
LEMMA NextNoPanic ==
  ASSUME IInv, NEW p \in Proc, CallStep(p)
  PROVE  panicked' \in Messages /\ NoPanic'
<1>1. panicked \in Messages /\ NoPanic
  BY DEF IInv, TypeOK, Messages
<1>2. Stuck => panicked' \in Messages /\ NoPanic'
  BY DEF Stuck, Messages, NoPanic
<1>3. panicked' = panicked => panicked' \in Messages /\ NoPanic'
  BY <1>1 DEF NoPanic
<1>4. ASSUME NEW n \in Name, OpenName(p, n) \/ LinkOld(p, n) \/ LinkExists(p, n) \/ Unlink(p, n)
                             \/ Create(p, n) \/ LinkNew(p, n)
      PROVE  Stuck \/ panicked' = panicked
  BY <1>4, NameMoves, CreateIs, LinkNewIs
<1>5. CASE Ialloc(p) \/ IallocGet(p) \/ OpenLock(p) \/ LinkInc(p) \/ LinkNoParent(p) \/ LinkBad(p)
           \/ Close(p) \/ Itrunc(p) \/ ItruncUpdate(p)
  BY <1>2, <1>3, <1>5, IallocIs, IallocGetIs, OpenLockIs, LinkIncIs, LinkNoParentIs, LinkBadIs,
     CloseIs, ItruncIs, ItruncUpdateIs
<1>6. CASE NewInode(p) \/ UnlinkDec(p) \/ WriteAlloc(p) \/ WriteUpdate(p) \/ IputTest(p) \/ Ifree(p)
  BY <1>2, <1>3, <1>6, NewInodeIs, UnlinkDecIs, WriteAllocIs, WriteUpdateIs, IputTestIs, IfreeIs
<1>7. CASE NewLink(p) \/ UnlinkClear(p) \/ IputDrop(p)
  BY <1>3, <1>7, NewLinkIs, UnlinkClearIs, IputDropIs
<1> QED
  BY <1>2, <1>3, <1>4, <1>5, <1>6, <1>7 DEF CallStep

LEMMA NextType ==
  ASSUME IInv, NEW p \in Proc, CallStep(p)
  PROVE  TypeOK'
<1>1. /\ icache' \in [Slot -> SlotRec] /\ dinode' \in [Inum -> Dinode] /\ bitmap' \in SUBSET Block
  <2>1. CASE Stuck
    BY <2>1, Types, Basics DEF Stuck
  <2>2. CASE Data(p)
    BY <2>2, NextData
  <2> QED
    BY <2>1, <2>2, DataSteps
<1>2. /\ ilk' \in [Slot -> Proc \cup {None}] /\ dir' \in [Name -> Inum \cup {None}]
      /\ dlk' \in Proc \cup {None}
  BY NextLocks
<1>3. pc' \in [Proc -> Labels] /\ file' \in [Proc -> Slot \cup {None}]
  BY NextPlace
<1>4. call' \in [Proc -> CallRec]
  BY NextCalls
<1>5. panicked' \in Messages
  BY NextNoPanic
<1> QED
  BY <1>1, <1>2, <1>3, <1>4, <1>5 DEF TypeOK, SlotRec, CallRec, Messages

(***************************************************************************)
(* The invariant, part by part: references.                                *)
(***************************************************************************)
One(b) == IF b THEN 1 ELSE 0
Has(r, s) == One(r = s)
Refs(p, s) == Has(file[p], s) + Has(call[p].ip, s) + Has(call[p].put, s)

\* A set that may gain or lose p.
LEMMA CountMove ==
  ASSUME NEW S, NEW T, IsFiniteSet(S), IsFiniteSet(T), NEW p, \A q : q # p => (q \in S <=> q \in T)
  PROVE  Cardinality(T) + One(p \in S) = Cardinality(S) + One(p \in T)
<1>1. Cardinality(S) \in Nat /\ Cardinality(T) \in Nat
  BY FS_CardinalityType
<1>2. CASE p \in S /\ p \notin T
  <2>1. T = S \ {p}
    BY <1>2
  <2>2. Cardinality(T) = Cardinality(S) - 1
    BY <1>2, <2>1, CountMinus
  <2> QED
    BY <1>1, <1>2, <2>2 DEF One
<1>3. CASE p \notin S /\ p \in T
  <2>1. T = S \cup {p}
    BY <1>3
  <2>2. Cardinality(T) = Cardinality(S) + 1
    BY <1>3, <2>1, CountPlus
  <2> QED
    BY <1>1, <1>3, <2>2 DEF One
<1>4. CASE p \in S <=> p \in T
  <2>1. S = T
    BY <1>4
  <2> QED
    BY <1>1, <2>1 DEF One
<1> QED
  BY <1>2, <1>3, <1>4

LEMMA CountStep ==
  ASSUME IInv, NEW p \in Proc, NEW s \in Slot,
         \A q \in Proc : q # p => call'[q] = call[q] /\ file'[q] = file[q],
         icache'[s].ref \in Nat, icache'[s].ref + Refs(p, s) = icache[s].ref + Refs(p, s)'
  PROVE  icache'[s].ref =
            Cardinality(Opens(s)') + Cardinality(Uses(s)') + Cardinality(Puts(s)')
<1> DEFINE a == Cardinality(Opens(s))
           b == Cardinality(Uses(s))
           c == Cardinality(Puts(s))
           d == Cardinality(Opens(s)')
           e == Cardinality(Uses(s)')
           f == Cardinality(Puts(s)')
           o == Has(file[p], s)
           u == Has(call[p].ip, s)
           v == Has(call[p].put, s)
           oo == Has(file'[p], s)
           uu == Has(call'[p].ip, s)
           vv == Has(call'[p].put, s)
           k == icache[s].ref
           m == icache'[s].ref
<1>1. a \in Nat /\ b \in Nat /\ c \in Nat /\ k = a + b + c
  BY Counts DEF Counted, IInv
<1>2. /\ Opens(s)' \subseteq Proc /\ Uses(s)' \subseteq Proc /\ Puts(s)' \subseteq Proc
  BY DEF Opens, Uses, Puts
<1>3. /\ IsFiniteSet(Opens(s)') /\ IsFiniteSet(Uses(s)') /\ IsFiniteSet(Puts(s)')
      /\ d \in Nat /\ e \in Nat /\ f \in Nat
  BY <1>2, InodeAssumption, FS_Subset, FS_CardinalityType
<1>4. d + o = a + oo
  <2>1. /\ \A q : q # p => (q \in Opens(s) <=> q \in Opens(s)')
        /\ p \in Opens(s) <=> file[p] = s
        /\ p \in Opens(s)' <=> file'[p] = s
    BY DEF Opens
  <2>2. Cardinality(Opens(s)') + One(p \in Opens(s)) = Cardinality(Opens(s)) + One(p \in Opens(s)')
    BY <1>3, <2>1, Counts, CountMove
  <2> QED
    BY <2>1, <2>2 DEF One, Has
<1>5. e + u = b + uu
  <2>1. /\ \A q : q # p => (q \in Uses(s) <=> q \in Uses(s)')
        /\ p \in Uses(s) <=> call[p].ip = s
        /\ p \in Uses(s)' <=> call'[p].ip = s
    BY DEF Uses
  <2>2. Cardinality(Uses(s)') + One(p \in Uses(s)) = Cardinality(Uses(s)) + One(p \in Uses(s)')
    BY <1>3, <2>1, Counts, CountMove
  <2> QED
    BY <2>1, <2>2 DEF One, Has
<1>6. f + v = c + vv
  <2>1. /\ \A q : q # p => (q \in Puts(s) <=> q \in Puts(s)')
        /\ p \in Puts(s) <=> call[p].put = s
        /\ p \in Puts(s)' <=> call'[p].put = s
    BY DEF Puts
  <2>2. Cardinality(Puts(s)') + One(p \in Puts(s)) = Cardinality(Puts(s)) + One(p \in Puts(s)')
    BY <1>3, <2>1, Counts, CountMove
  <2> QED
    BY <2>1, <2>2 DEF One, Has
<1>7. m \in Nat /\ m + (o + u + v) = k + (oo + uu + vv)
  BY DEF Refs
<1>8. /\ o \in {0, 1} /\ u \in {0, 1} /\ v \in {0, 1}
      /\ oo \in {0, 1} /\ uu \in {0, 1} /\ vv \in {0, 1}
  BY DEF One, Has
<1> HIDE DEF a, b, c, d, e, f, o, u, v, oo, uu, vv, k, m
<1>9. m = d + e + f
  BY <1>1, <1>3, <1>4, <1>5, <1>6, <1>7, <1>8
<1> QED
  BY <1>9 DEF d, e, f, m

\* Most steps pass a reference on, or leave all of them where they are.
LEMMA RefsMove ==
  ASSUME IInv, NEW p \in Proc, NEW s \in Slot, NEW l, NEW m,
         \/ Move(p, l, m, NoCall, s) /\ file[p] = None /\ call[p].ip = s /\ call[p].put = None
         \/ Move(p, l, m, WithPut(s), file[p]) /\ call[p].ip = s /\ call[p].put = None
         \/ Move(p, l, m, WithPut(s), None) /\ file[p] = s /\ call[p].ip = None /\
              call[p].put = None
  PROVE  \A t \in Slot : Refs(p, t)' = Refs(p, t)
<1> TAKE t \in Slot
<1>1. /\ Has(None, t) = 0
      /\ \A r : Has(r, t) \in Int
  BY Nones DEF Has, One
<1>2. PICK x \in Int : x = Has(s, t)
  BY <1>1
<1>3. PICK y \in Int : y = Has(file[p], t)
  BY <1>1
<1>4. CASE Move(p, l, m, NoCall, s) /\ file[p] = None /\ call[p].ip = s /\ call[p].put = None
  <2>1. Refs(p, t) = 0 + x + 0
    BY <1>1, <1>2, <1>4 DEF Refs
  <2>2. Refs(p, t)' = x + 0 + 0
    BY <1>1, <1>2, <1>4, CallFields DEF Refs, Move
  <2> QED
    BY <2>1, <2>2
<1>5. CASE Move(p, l, m, WithPut(s), file[p]) /\ call[p].ip = s /\ call[p].put = None
  <2>1. Refs(p, t) = y + x + 0
    BY <1>1, <1>2, <1>3, <1>5 DEF Refs
  <2>2. Refs(p, t)' = y + 0 + x
    BY <1>1, <1>2, <1>3, <1>5, CallFields DEF Refs, Move
  <2> QED
    BY <2>1, <2>2
<1>6. CASE Move(p, l, m, WithPut(s), None) /\ file[p] = s /\ call[p].ip = None /\ call[p].put = None
  <2>1. Refs(p, t) = x + 0 + 0
    BY <1>1, <1>2, <1>6 DEF Refs
  <2>2. Refs(p, t)' = 0 + 0 + x
    BY <1>1, <1>2, <1>6, CallFields DEF Refs, Move
  <2> QED
    BY <2>1, <2>2
<1> QED
  BY <1>4, <1>5, <1>6

LEMMA RefsStay ==
  ASSUME IInv, NEW p \in Proc,
         \/ \E n \in Name : Create(p, n) \/ LinkNew(p, n)
         \/ OpenLock(p) \/ NewLink(p) \/ LinkBad(p) \/ UnlinkDec(p) \/ Close(p)
         \/ Ialloc(p) \/ NewInode(p) \/ LinkInc(p) \/ LinkNoParent(p) \/ UnlinkClear(p)
         \/ WriteAlloc(p) \/ WriteUpdate(p) \/ IputTest(p)
         \/ Itrunc(p) \/ ItruncUpdate(p) \/ Ifree(p)
  PROVE  \A t \in Slot : icache'[t].ref = icache[t].ref /\ Refs(p, t)' = Refs(p, t)
<1>1. /\ \A s \in Slot : \A d : CopySets(s, d) \/ Writes(s, d) =>
            \A t \in Slot : icache'[t].ref = icache[t].ref
      /\ Stuck => icache' = icache
  BY DEF CopySets, Writes, OnlySlot, Stuck
<1>2. pc[p] \notin Putting => call[p].put = None
  BY Here
<1>3. pc[p] = "user" => call[p] = NoCall
  BY Here
<1>4. (call'[p] = call[p] /\ file'[p] = file[p]) => \A t \in Slot : Refs(p, t)' = Refs(p, t)
  BY DEF Refs
<1>5. ASSUME NEW n \in Name, Create(p, n)
      PROVE  icache' = icache /\ \A t \in Slot : Refs(p, t)' = Refs(p, t)
  <2>1. /\ Move(p, "user", "ialloc", Call(n, None, None, None, "user"), None)
        /\ file[p] = None /\ icache' = icache
    BY <1>5, CreateIs
  <2>2. /\ file'[p] = file[p] /\ call'[p].ip = call[p].ip /\ call'[p].put = call[p].put
    BY <1>3, <2>1, CallFields DEF Move
  <2> QED
    BY <2>1, <2>2 DEF Refs
<1>6. ASSUME NEW n \in Name, LinkNew(p, n)
      PROVE  icache' = icache /\ \A t \in Slot : Refs(p, t)' = Refs(p, t)
  <2>1. PICK s \in Slot : /\ s = call[p].ip /\ icache' = icache
                          /\ Move(p, "linkdir", "iput", WithPut(s), file[p])
    BY <1>6, LinkNewIs
  <2>2. call[p].put = None
    BY <1>2, <2>1 DEF Move, Putting
  <2> QED
    BY <2>1, <2>2, RefsMove
<1>7. CASE OpenLock(p)
  <2>1. PICK s \in Slot :
            /\ s = call[p].ip /\ file[p] = None /\ CopySets(s, Copy(s))
            /\ \/ Move(p, "ilock", "user", NoCall, s)
               \/ Move(p, "ilock", "iput", WithPut(s), file[p])
    BY <1>7, OpenLockIs
  <2>2. call[p].put = None
    BY <1>2, <2>1 DEF Move, Putting
  <2>3. \A t \in Slot : Refs(p, t)' = Refs(p, t)
    BY <2>1, <2>2, RefsMove
  <2> QED
    BY <1>1, <2>1, <2>3
<1>8. CASE NewLink(p)
  <2>1. PICK s \in Slot :
            /\ s = call[p].ip /\ file[p] = None /\ icache' = icache
            /\ \/ Move(p, "newlink", "user", NoCall, s)
               \/ Move(p, "newlink", "iput", WithPut(s), file[p])
    BY <1>8, NewLinkIs
  <2>2. call[p].put = None
    BY <1>2, <2>1 DEF Move, Putting
  <2> QED
    BY <2>1, <2>2, RefsMove
<1>9. CASE LinkBad(p) \/ UnlinkDec(p)
  <2>1. PICK s \in Slot :
            /\ s = call[p].ip /\ (\E d : Writes(s, d))
            /\ \/ Move(p, "linkbad", "iput", WithPut(s), file[p])
               \/ Move(p, "unlinkdec", "iput", WithPut(s), file[p])
    BY <1>9, LinkBadIs, UnlinkDecIs
  <2>2. call[p].put = None
    BY <1>2, <2>1 DEF Move, Putting
  <2>3. \A t \in Slot : Refs(p, t)' = Refs(p, t)
    BY <2>1, <2>2, RefsMove
  <2> QED
    BY <1>1, <2>1, <2>3
<1>10. CASE Close(p)
  <2>1. PICK s \in Slot : /\ s = file[p] /\ icache' = icache
                          /\ Move(p, "user", "iput", WithPut(s), None)
    BY <1>10, CloseIs
  <2>2. call[p].put = None /\ call[p].ip = None
    BY <1>3, <2>1, CallFields DEF Move
  <2> QED
    BY <2>1, <2>2, RefsMove
<1>11. CASE Ialloc(p)
  <2>1. CASE Stuck
    BY <1>1, <1>4, <2>1 DEF Stuck
  <2>2. CASE ~Stuck
    <3>1. PICK i \in Inum :
              /\ Move(p, "ialloc", "iget", Call(call[p].name, i, None, None, "user"), file[p])
              /\ icache' = icache
      BY <1>11, <2>2, IallocIs
    <3>2. call[p].ip = None /\ call[p].put = None
      BY <3>1, <1>2, Basics DEF Move, CallOK, WithIp, Putting
    <3>3. file'[p] = file[p] /\ call'[p].ip = call[p].ip /\ call'[p].put = call[p].put
      BY <3>1, <3>2, CallFields DEF Move
    <3> QED
      BY <3>1, <3>3 DEF Refs
  <2> QED
    BY <2>1, <2>2
<1>12. CASE NewInode(p) \/ LinkInc(p) \/ WriteUpdate(p) \/ ItruncUpdate(p)
  <2>1. /\ call'[p] = call[p] /\ file'[p] = file[p] /\ \E s \in Slot : \E d : Writes(s, d)
    BY <1>12, NewInodeIs, LinkIncIs, WriteUpdateIs, ItruncUpdateIs DEF Move
  <2> QED
    BY <1>1, <1>4, <2>1
<1>13. CASE LinkNoParent(p) \/ IputTest(p)
  <2>1. /\ call'[p] = call[p] /\ file'[p] = file[p] /\ icache' = icache
    BY <1>13, LinkNoParentIs, IputTestIs DEF Move
  <2> QED
    BY <1>4, <2>1
<1>14. CASE UnlinkClear(p) \/ Itrunc(p) \/ Ifree(p)
  <2>1. /\ call'[p] = call[p] /\ file'[p] = file[p] /\ \E s \in Slot : \E d : CopySets(s, d)
    BY <1>14, UnlinkClearIs, ItruncIs, IfreeIs DEF Move
  <2> QED
    BY <1>1, <1>4, <2>1
<1>15. CASE WriteAlloc(p)
  <2>1. CASE Stuck
    BY <1>1, <1>4, <2>1 DEF Stuck
  <2>2. CASE ~Stuck
    <3>1. /\ call'[p] = call[p] /\ file'[p] = file[p] /\ \E s \in Slot : \E d : CopySets(s, d)
      BY <1>15, <2>2, WriteAllocIs DEF Move
    <3> QED
      BY <1>1, <1>4, <3>1
  <2> QED
    BY <2>1, <2>2
<1> QED
  BY <1>5, <1>6, <1>7, <1>8, <1>9, <1>10, <1>11, <1>12, <1>13, <1>14, <1>15

LEMMA RefsTake ==
  ASSUME IInv, NEW p \in Proc, NEW i \in Inum, NEW s, Iget(i, s),
         \/ \E l : Move(p, "user", l, Call(None, None, s, None, "user"), file[p])
         \/ \E l, n : Move(p, "user", l, Call(n, None, s, None, "user"), file[p])
         \/ Move(p, "linkdir", "iput", Call(None, None, call[p].ip, s, "linkbad"), file[p])
         \/ Move(p, "iget", "newinode", Call(call[p].name, None, s, None, "user"), file[p])
  PROVE  \A t \in Slot : icache'[t].ref + Refs(p, t) = icache[t].ref + Refs(p, t)'
<1> TAKE t \in Slot
<1>1. /\ s \in Slot /\ OnlySlot(s) /\ icache'[s].ref = icache[s].ref + 1
      /\ icache[t].ref \in Int
  BY IgetIs, Basics, Types DEF SlotRec
<1>2. /\ Has(None, t) = 0 /\ \A r : Has(r, t) \in Int
  BY Nones DEF Has, One
<1>3. icache'[t].ref = icache[t].ref + Has(s, t)
  <2>1. CASE s = t
    BY <1>1, <2>1 DEF Has, One
  <2>2. CASE s # t
    BY <1>1, <2>2 DEF Has, One, OnlySlot
  <2> QED
    BY <2>1, <2>2
<1>4. /\ pc[p] \notin Putting => call[p].put = None
      /\ pc[p] = "user" => call[p] = NoCall
      /\ pc[p] = "iget" => call[p].ip = None
  BY Here, Basics DEF CallOK, WithIp, Putting
<1>5. PICK x \in Int : x = Has(s, t)
  BY <1>2
<1>6. PICK y \in Int : y = Has(file[p], t)
  BY <1>2
<1>7. PICK z \in Int : z = Has(call[p].ip, t)
  BY <1>2
<1>8. Refs(p, t)' = Refs(p, t) + x /\ Refs(p, t) \in Int
  <2>1. CASE \/ \E l : Move(p, "user", l, Call(None, None, s, None, "user"), file[p])
             \/ \E l, n : Move(p, "user", l, Call(n, None, s, None, "user"), file[p])
    <3>1. Refs(p, t) = y + 0 + 0
      BY <1>2, <1>4, <1>6, <2>1, CallFields DEF Refs, Move
    <3>2. Refs(p, t)' = y + x + 0
      BY <1>2, <1>5, <1>6, <2>1, CallFields DEF Refs, Move
    <3> QED
      BY <3>1, <3>2
  <2>2. CASE Move(p, "linkdir", "iput", Call(None, None, call[p].ip, s, "linkbad"), file[p])
    <3>1. Refs(p, t) = y + z + 0
      BY <1>2, <1>4, <1>6, <1>7, <2>2 DEF Refs, Move, Putting
    <3>2. Refs(p, t)' = y + z + x
      BY <1>2, <1>5, <1>6, <1>7, <2>2, CallFields DEF Refs, Move
    <3> QED
      BY <3>1, <3>2
  <2>3. CASE Move(p, "iget", "newinode", Call(call[p].name, None, s, None, "user"), file[p])
    <3>1. Refs(p, t) = y + 0 + 0
      BY <1>2, <1>4, <1>6, <2>3 DEF Refs, Move, Putting
    <3>2. Refs(p, t)' = y + x + 0
      BY <1>2, <1>5, <1>6, <2>3, CallFields DEF Refs, Move
    <3> QED
      BY <3>1, <3>2
  <2> QED
    BY <2>1, <2>2, <2>3
<1> HIDE DEF Has, Refs
<1>9. PICK k \in Int : k = icache[t].ref
  BY <1>1
<1>10. PICK r \in Int : r = Refs(p, t)
  BY <1>8
<1>11. icache'[t].ref = k + x /\ Refs(p, t)' = r + x
  BY <1>3, <1>5, <1>8, <1>9, <1>10
<1>12. (k + x) + r = k + (r + x)
  OBVIOUS
<1> QED
  BY <1>9, <1>10, <1>11, <1>12

LEMMA RefsDrop ==
  ASSUME IInv, NEW p \in Proc, IputDrop(p)
  PROVE  \A t \in Slot : icache'[t].ref + Refs(p, t) = icache[t].ref + Refs(p, t)'
<1>1. PICK s \in Slot :
            /\ s = call[p].put /\ icache[s].ref > 0
            /\ OnlySlot(s) /\ icache'[s].ref = icache[s].ref - 1
            /\ Move(p, "iputdrop", call[p].next,
                    Call(call[p].name, call[p].inum, call[p].ip, None, "user"), file[p])
  BY IputDropIs
<1> TAKE t \in Slot
<1>2. /\ Has(None, t) = 0 /\ \A r : Has(r, t) \in Int
  BY Nones DEF Has, One
<1>3. PICK x \in Int : x = Has(s, t)
  BY <1>2
<1>4. PICK y \in Int : y = Has(file[p], t)
  BY <1>2
<1>5. PICK z \in Int : z = Has(call[p].ip, t)
  BY <1>2
<1>6. PICK k \in Int : k = icache[t].ref
  BY Basics, Types DEF SlotRec
<1>7. icache'[t].ref = k - x
  <2>1. CASE s = t
    BY <1>1, <1>3, <1>6, <2>1 DEF Has, One
  <2>2. CASE s # t
    BY <1>1, <1>3, <1>6, <2>2 DEF Has, One, OnlySlot
  <2> QED
    BY <2>1, <2>2
<1>8. Refs(p, t) = y + z + x
  BY <1>1, <1>3, <1>4, <1>5 DEF Refs
<1>9. Refs(p, t)' = y + z + 0
  BY <1>1, <1>2, <1>4, <1>5, CallFields DEF Refs, Move
<1>10. (k - x) + (y + z + x) = k + (y + z + 0)
  OBVIOUS
<1> QED
  BY <1>6, <1>7, <1>8, <1>9, <1>10

LEMMA RefsStep ==
  ASSUME IInv, NEW p \in Proc, CallStep(p), NEW t \in Slot
  PROVE  icache'[t].ref + Refs(p, t) = icache[t].ref + Refs(p, t)'
<1>1. CASE Stuck
  BY <1>1 DEF Stuck, Refs
<1>2. ASSUME NEW n \in Name, OpenName(p, n) \/ LinkOld(p, n) \/ LinkExists(p, n) \/
               Unlink(p, n), ~Stuck
      PROVE  icache'[t].ref + Refs(p, t) = icache[t].ref + Refs(p, t)'
  <2>1. PICK s \in Slot :
           /\ dir[n] \in Inum /\ Iget(dir[n], s)
           /\ \/ \E l : Move(p, "user", l, Call(None, None, s, None, "user"), file[p])
              \/ \E l, m : Move(p, "user", l, Call(m, None, s, None, "user"), file[p])
              \/ Move(p, "linkdir", "iput", Call(None, None, call[p].ip, s, "linkbad"), file[p])
    BY <1>2, NameMoves
  <2> QED
    BY <2>1, RefsTake
<1>3. CASE IallocGet(p) /\ ~Stuck
  BY <1>3, IallocGetIs, RefsTake
<1>4. CASE IputDrop(p)
  BY <1>4, RefsDrop
<1>5. CASE \/ \E n \in Name : Create(p, n) \/ LinkNew(p, n)
           \/ OpenLock(p) \/ NewLink(p) \/ LinkBad(p) \/ UnlinkDec(p) \/ Close(p)
           \/ Ialloc(p) \/ NewInode(p) \/ LinkInc(p) \/ LinkNoParent(p) \/ UnlinkClear(p)
           \/ WriteAlloc(p) \/ WriteUpdate(p) \/ IputTest(p)
           \/ Itrunc(p) \/ ItruncUpdate(p) \/ Ifree(p)
  BY <1>5, RefsStay
<1> QED
  BY <1>1, <1>2, <1>3, <1>4, <1>5 DEF CallStep

LEMMA NextCounted ==
  ASSUME IInv, NEW p \in Proc, CallStep(p)
  PROVE  Counted'
<1> SUFFICES ASSUME NEW s \in Slot
             PROVE  icache'[s].ref =
                       Cardinality(Opens(s)') + Cardinality(Uses(s)') + Cardinality(Puts(s)')
  BY DEF Counted
<1>1. icache'[s].ref \in Nat
  BY NextType, Types DEF TypeOK
<1>2. \A q \in Proc : q # p => call'[q] = call[q] /\ file'[q] = file[q]
  BY OthersStay, Basics
<1> QED
  BY <1>1, <1>2, RefsStep, CountStep

\* Slots: an inode is in one, and a slot with references keeps its inode.
LEMMA NextOneSlot ==
  ASSUME IInv, NEW p \in Proc, CallStep(p)
  PROVE  OneSlot'
<1>1. OneSlot /\ \A t \in Slot : icache[t].ref \in Nat
  BY Basics, Types DEF SlotRec
<1>2. CASE Stuck
  BY <1>1, <1>2 DEF Stuck, OneSlot
<1>3. ASSUME NEW i \in Inum, NEW s \in Slot, Takes(p, i, s)
      PROVE  OneSlot'
  <2>1. /\ OnlySlot(s) /\ icache'[s].inum = i
        /\ \/ icache[s].ref > 0 /\ icache[s].inum = i
           \/ icache[s].ref = 0 /\ Cached(i) = {}
    BY <1>3, IgetIs, Basics DEF Takes
  <2>2. \A t \in Slot : t # s => icache'[t] = icache[t]
    BY <2>1 DEF OnlySlot
  <2>3. \A t \in Slot : t # s /\ icache[t].ref > 0 => icache[t].inum # i
    BY <1>1, <2>1 DEF OneSlot, Cached
  <2> QED
    BY <1>1, <2>1, <2>2, <2>3 DEF OneSlot
<1>4. ASSUME \A t \in Slot : /\ icache'[t].inum = icache[t].inum
                             /\ icache'[t].ref > 0 => icache[t].ref > 0
      PROVE  OneSlot'
  BY <1>1, <1>4 DEF OneSlot
<1>5. CASE Keeps(p) \/ \E i \in Inum : Allocates(p, i)
  BY <1>4, <1>5 DEF Keeps, Allocates
<1>6. ASSUME NEW s \in Slot,
             \/ Reads(p, s) \/ Frees(p, s) \/ Drops(p, s)
             \/ \E d \in Dinode : \/ Changes(p, s, d) \/ Truncates(p, s, d)
                                  \/ \E b \in Block : Enters(p, s, b, d)
      PROVE  OneSlot'
  <2>1. /\ OnlySlot(s) /\ icache'[s].inum = icache[s].inum /\ icache[s].ref > 0
    BY <1>6 DEF Reads, Frees, Drops, Changes, Truncates, Enters, CopySets, Writes
  <2> QED
    BY <1>4, <2>1 DEF OnlySlot
<1> QED
  BY <1>2, <1>3, <1>5, <1>6, DataSteps DEF Data

(***************************************************************************)
(* The invariant, part by part: where the processes are, and the locks.    *)
(***************************************************************************)
LEMMA NextCallOK ==
  ASSUME IInv, NEW p \in Proc, CallStep(p), NEW q \in Proc
  PROVE  CallOK(q)'
<1>1. CallOK(p) /\ CallOK(q) /\ call[p].next \in {"user", "linkbad"}
  BY Basics DEF CallRec
<1>2. CASE q # p
  BY <1>1, <1>2, OthersStay, Basics DEF CallOK
<1>3. CASE Stuck
  BY <1>1, <1>3 DEF Stuck, CallOK
<1>4. \A s \in Slot : s # None
  BY Nones
<1>5. \A n \in Name : n # None
  BY Nones
<1>6. \A i \in Inum : i # None
  BY Nones
<1>7. ASSUME NEW n \in Name, OpenName(p, n) \/ LinkOld(p, n) \/ LinkExists(p, n) \/
               Unlink(p, n), ~Stuck
      PROVE  CallOK(p)'
  <2>1. PICK s \in Slot :
          \/ Move(p, "user", "ilock", Call(None, None, s, None, "user"), None)
          \/ Move(p, "user", "linkinc", Call(None, None, s, None, "user"), file[p])
          \/ Move(p, "linkdir", "iput", Call(None, None, call[p].ip, s, "linkbad"), file[p])
          \/ Move(p, "user", "unlink", Call(n, None, s, None, "user"), file[p])
    BY <1>7, NameMoves
  <2>2. pc[p] = "linkdir" => call[p].ip # None
    BY <1>1 DEF CallOK, WithIp
  <2> QED
    BY <1>4, <1>5, <2>1, <2>2, CallFields DEF Move, CallOK, WithIp, Creating, Putting
<1>8. ASSUME NEW n \in Name, Create(p, n)
      PROVE  CallOK(p)'
  BY <1>5, <1>8, CreateIs, CallFields DEF Move, CallOK, WithIp, Creating, Putting
<1>9. ASSUME NEW s \in Slot, NEW l, Move(p, l, "iput", WithPut(s), file[p]) \/
               Move(p, l, "iput", WithPut(s), None)
      PROVE  CallOK(p)'
  BY <1>4, <1>9, CallFields DEF Move, CallOK, WithIp, Creating, Putting
<1>10. ASSUME NEW s \in Slot, NEW l, Move(p, l, "user", NoCall, s)
       PROVE  CallOK(p)'
  BY <1>10, CallFields DEF Move, CallOK, WithIp, Creating, Putting
<1>11. ASSUME OpenLock(p) \/ NewLink(p) \/ LinkBad(p) \/ UnlinkDec(p) \/ Close(p) \/
                \E n \in Name : LinkNew(p, n)
       PROVE  CallOK(p)'
  BY <1>9, <1>10, <1>11, OpenLockIs, NewLinkIs, LinkBadIs, UnlinkDecIs, CloseIs, LinkNewIs
<1>12. ASSUME Ialloc(p) /\ ~Stuck
       PROVE  CallOK(p)'
  <2>1. PICK i \in Inum :
           Move(p, "ialloc", "iget", Call(call[p].name, i, None, None, "user"), file[p])
    BY <1>12, IallocIs
  <2> QED
    BY <1>1, <1>6, <2>1, CallFields DEF Move, CallOK, WithIp, Creating, Putting
<1>13. ASSUME IallocGet(p) /\ ~Stuck
       PROVE  CallOK(p)'
  <2>1. PICK s \in Slot :
           Move(p, "iget", "newinode", Call(call[p].name, None, s, None, "user"), file[p])
    BY <1>13, IallocGetIs DEF Iget, Cached, EmptySlots
  <2> QED
    BY <1>1, <1>4, <2>1, CallFields DEF Move, CallOK, WithIp, Creating, Putting
<1>14. ASSUME NewInode(p) \/ LinkInc(p) \/ LinkNoParent(p) \/ UnlinkClear(p)
       PROVE  CallOK(p)'
  <2>1. \/ Move(p, "newinode", "newlink", call[p], file[p])
        \/ Move(p, "linkinc", "linkdir", call[p], file[p])
        \/ Move(p, "linkdir", "linkbad", call[p], file[p])
        \/ Move(p, "unlink", "unlinkdec", call[p], file[p])
    BY <1>14, NewInodeIs, LinkIncIs, LinkNoParentIs, UnlinkClearIs
  <2> QED
    BY <1>1, <2>1 DEF Move, CallOK, WithIp, Creating, Putting
<1>15. ASSUME (WriteAlloc(p) /\ ~Stuck) \/ WriteUpdate(p)
       PROVE  CallOK(p)'
  <2>1. \/ Move(p, "user", "wupdate", call[p], file[p]) /\ file[p] # None
        \/ Move(p, "wupdate", "user", call[p], file[p])
    BY <1>4, <1>15, WriteAllocIs, WriteUpdateIs
  <2> QED
    BY <1>1, <2>1 DEF Move, CallOK, WithIp, Creating, Putting
<1>16. ASSUME IputTest(p) \/ Itrunc(p) \/ ItruncUpdate(p) \/ Ifree(p)
       PROVE  CallOK(p)'
  <2>1. \/ Move(p, "iput", "itrunc", call[p], file[p])
        \/ Move(p, "iput", "iputdrop", call[p], file[p])
        \/ Move(p, "itrunc", "tupdate", call[p], file[p])
        \/ Move(p, "tupdate", "ifree", call[p], file[p])
        \/ Move(p, "ifree", "iputdrop", call[p], file[p])
    BY <1>16, IputTestIs, ItruncIs, ItruncUpdateIs, IfreeIs
  <2> QED
    BY <1>1, <2>1 DEF Move, CallOK, WithIp, Creating, Putting
<1>17. ASSUME IputDrop(p)
       PROVE  CallOK(p)'
  <2>1. Move(p, "iputdrop", call[p].next,
             Call(call[p].name, call[p].inum, call[p].ip, None, "user"), file[p])
    BY <1>17, IputDropIs
  <2> QED
    BY <1>1, <2>1, CallFields DEF Move, CallOK, WithIp, Creating, Putting
<1> QED
  BY <1>2, <1>3, <1>7, <1>8, <1>11, <1>12, <1>13, <1>14, <1>15, <1>16, <1>17
     DEF CallStep

\* The lock of one slot at most changes, from nobody to p or back.
LEMMA LockStep ==
  ASSUME IInv, NEW p \in Proc, CallStep(p),
         \A s \in Slot : /\ ilk'[s] = p <=> Holds(p, s)'
                         /\ ilk'[s] = ilk[s] \/ {ilk[s], ilk'[s]} = {None, p}
  PROVE  Locked'
<1> SUFFICES ASSUME NEW q \in Proc, NEW s \in Slot, q # p
             PROVE  ilk'[s] = q <=> Holds(q, s)'
  BY DEF Locked
<1>1. Holds(q, s)' <=> Holds(q, s)
  BY OthersStay, Basics DEF Holds
<1>2. ilk[s] = q <=> Holds(q, s)
  BY Basics DEF Locked
<1>3. q # None
  BY Nones
<1>4. ilk'[s] = q <=> ilk[s] = q
  BY <1>3
<1> QED
  BY <1>1, <1>2, <1>4

HoldLabels == {"newlink", "unlinkdec", "wupdate", "itrunc", "tupdate", "ifree"}

LEMMA QuietLocked ==
  ASSUME IInv, NEW p \in Proc, CallStep(p), ilk' = ilk,
         \A t \in Slot : Holds(p, t)' <=> Holds(p, t)
  PROVE  Locked'
<1>1. \A t \in Slot : ilk[t] = p <=> Holds(p, t)
  BY Basics DEF Locked
<1> QED
  BY <1>1, LockStep

LEMMA GrabLocked ==
  ASSUME IInv, NEW p \in Proc, CallStep(p), NEW s \in Slot, LockSet(s, p), ilk[s] = None,
         pc[p] \notin HoldLabels, \A t \in Slot : Holds(p, t)' <=> t = s
  PROVE  Locked'
<1>1. \A t \in Slot : ilk[t] # p
  BY Basics DEF Locked, Holds, HoldLabels
<1>2. ilk'[s] = p /\ \A t \in Slot : t # s => ilk'[t] = ilk[t]
  BY DEF LockSet
<1>3. \A t \in Slot : /\ ilk'[t] = p <=> Holds(p, t)'
                      /\ ilk'[t] = ilk[t] \/ {ilk[t], ilk'[t]} = {None, p}
  BY <1>1, <1>2
<1> QED
  BY <1>3, LockStep

LEMMA ReleaseLocked ==
  ASSUME IInv, NEW p \in Proc, CallStep(p), NEW s \in Slot, LockSet(s, None),
         \A t \in Slot : Holds(p, t) <=> t = s, pc'[p] \notin HoldLabels
  PROVE  Locked'
<1>1. \A t \in Slot : ilk[t] = p <=> t = s
  BY Basics DEF Locked
<1>2. ilk'[s] = None /\ \A t \in Slot : t # s => ilk'[t] = ilk[t]
  BY DEF LockSet
<1>3. \A t \in Slot : ~Holds(p, t)'
  BY DEF Holds, HoldLabels
<1>4. p # None
  BY Nones
<1>5. \A t \in Slot : /\ ilk'[t] = p <=> Holds(p, t)'
                      /\ ilk'[t] = ilk[t] \/ {ilk[t], ilk'[t]} = {None, p}
  BY <1>1, <1>2, <1>3, <1>4
<1> QED
  BY <1>5, LockStep

LEMMA NextLocked ==
  ASSUME IInv, NEW p \in Proc, CallStep(p)
  PROVE  Locked'
<1>1. CASE Stuck
  BY <1>1, QuietLocked DEF Stuck, Holds
<1>2. ASSUME ilk' = ilk, pc[p] \notin HoldLabels, pc'[p] \notin HoldLabels
      PROVE  Locked'
  <2>1. \A t \in Slot : ~Holds(p, t) /\ ~Holds(p, t)'
    BY <1>2 DEF Holds, HoldLabels
  <2> QED
    BY <1>2, <2>1, QuietLocked
<1>3. ASSUME NEW n \in Name, OpenName(p, n) \/ LinkOld(p, n) \/ LinkExists(p, n) \/
               Unlink(p, n), ~Stuck
      PROVE  Locked'
  <2>1. ilk' = ilk /\ pc[p] \in {"user", "linkdir"} /\
          pc'[p] \in {"ilock", "linkinc", "iput", "unlink"}
    BY <1>3, NameMoves DEF Move
  <2> QED
    BY <1>2, <2>1 DEF HoldLabels
<1>4. ASSUME NEW n \in Name, Create(p, n) \/ LinkNew(p, n)
      PROVE  Locked'
  <2>1. ilk' = ilk /\ pc[p] \in {"user", "linkdir"} /\ pc'[p] \in {"ialloc", "iput"}
    BY <1>4, CreateIs, LinkNewIs DEF Move
  <2> QED
    BY <1>2, <2>1 DEF HoldLabels
<1>5. CASE (Ialloc(p) \/ IallocGet(p)) /\ ~Stuck
  <2>1. ilk' = ilk /\ pc[p] \in {"ialloc", "iget"} /\ pc'[p] \in {"iget", "newinode"}
    BY <1>5, IallocIs, IallocGetIs DEF Move
  <2> QED
    BY <1>2, <2>1 DEF HoldLabels
<1>6. CASE OpenLock(p) \/ LinkInc(p) \/ LinkNoParent(p) \/ LinkBad(p) \/ Close(p)
  <2>1. /\ ilk' = ilk /\ pc[p] \in {"ilock", "linkinc", "linkdir", "linkbad", "user"}
        /\ pc'[p] \in {"user", "iput", "linkdir", "linkbad"}
    BY <1>6, OpenLockIs, LinkIncIs, LinkNoParentIs, LinkBadIs, CloseIs DEF Move
  <2> QED
    BY <1>2, <2>1 DEF HoldLabels
<1>7. CASE NewInode(p)
  <2>1. PICK s \in Slot : /\ s = call[p].ip /\ ilk[s] = None /\ LockSet(s, p)
                          /\ Move(p, "newinode", "newlink", call[p], file[p])
    BY <1>7, NewInodeIs
  <2>2. \A t \in Slot : Holds(p, t)' <=> t = s
    BY <2>1 DEF Move, Holds
  <2> QED
    BY <2>1, <2>2, GrabLocked DEF Move, HoldLabels
<1>8. CASE UnlinkClear(p)
  <2>1. PICK s \in Slot : /\ s = call[p].ip /\ ilk[s] = None /\ LockSet(s, p)
                          /\ Move(p, "unlink", "unlinkdec", call[p], file[p])
    BY <1>8, UnlinkClearIs
  <2>2. \A t \in Slot : Holds(p, t)' <=> t = s
    BY <2>1 DEF Move, Holds
  <2> QED
    BY <2>1, <2>2, GrabLocked DEF Move, HoldLabels
<1>9. CASE WriteAlloc(p) /\ ~Stuck
  <2>1. PICK s \in Slot : /\ s = file[p] /\ ilk[s] = None /\ LockSet(s, p)
                          /\ Move(p, "user", "wupdate", call[p], file[p])
    BY <1>9, WriteAllocIs
  <2>2. \A t \in Slot : Holds(p, t)' <=> t = s
    BY <2>1 DEF Move, Holds
  <2> QED
    BY <2>1, <2>2, GrabLocked DEF Move, HoldLabels
<1>10. CASE IputTest(p)
  <2>1. PICK s \in Slot :
            /\ s = call[p].put /\ ilk[s] = None
            /\ \/ LockSet(s, p) /\ Move(p, "iput", "itrunc", call[p], file[p])
               \/ ilk' = ilk /\ Move(p, "iput", "iputdrop", call[p], file[p])
    BY <1>10, IputTestIs
  <2>2. CASE LockSet(s, p) /\ Move(p, "iput", "itrunc", call[p], file[p])
    <3>1. \A t \in Slot : Holds(p, t)' <=> t = s
      BY <2>1, <2>2 DEF Move, Holds
    <3> QED
      BY <2>1, <2>2, <3>1, GrabLocked DEF Move, HoldLabels
  <2>3. CASE ilk' = ilk /\ Move(p, "iput", "iputdrop", call[p], file[p])
    BY <1>2, <2>3 DEF Move, HoldLabels
  <2> QED
    BY <2>1, <2>2, <2>3
<1>11. CASE NewLink(p)
  <2>1. PICK s \in Slot : /\ s = call[p].ip /\ LockSet(s, None)
                          /\ \/ Move(p, "newlink", "user", NoCall, s)
                             \/ Move(p, "newlink", "iput", WithPut(s), file[p])
    BY <1>11, NewLinkIs
  <2>2. \A t \in Slot : Holds(p, t) <=> t = s
    BY <2>1 DEF Move, Holds
  <2> QED
    BY <2>1, <2>2, ReleaseLocked DEF Move, HoldLabels
<1>12. CASE UnlinkDec(p)
  <2>1. PICK s \in Slot : /\ s = call[p].ip /\ LockSet(s, None)
                          /\ Move(p, "unlinkdec", "iput", WithPut(s), file[p])
    BY <1>12, UnlinkDecIs
  <2>2. \A t \in Slot : Holds(p, t) <=> t = s
    BY <2>1 DEF Move, Holds
  <2> QED
    BY <2>1, <2>2, ReleaseLocked DEF Move, HoldLabels
<1>13. CASE WriteUpdate(p)
  <2>1. PICK s \in Slot : /\ s = file[p] /\ LockSet(s, None)
                          /\ Move(p, "wupdate", "user", call[p], file[p])
    BY <1>13, WriteUpdateIs
  <2>2. \A t \in Slot : Holds(p, t) <=> t = s
    BY <2>1 DEF Move, Holds
  <2> QED
    BY <2>1, <2>2, ReleaseLocked DEF Move, HoldLabels
<1>14. CASE Itrunc(p) \/ ItruncUpdate(p)
  <2>1. /\ ilk' = ilk
        /\ \/ Move(p, "itrunc", "tupdate", call[p], file[p])
           \/ Move(p, "tupdate", "ifree", call[p], file[p])
    BY <1>14, ItruncIs, ItruncUpdateIs
  <2> QED
    BY <2>1, QuietLocked DEF Move, Holds
<1>15. CASE Ifree(p)
  <2>1. PICK s \in Slot : /\ s = call[p].put /\ LockSet(s, None)
                          /\ Move(p, "ifree", "iputdrop", call[p], file[p])
    BY <1>15, IfreeIs
  <2>2. \A t \in Slot : Holds(p, t) <=> t = s
    BY <2>1 DEF Move, Holds
  <2> QED
    BY <2>1, <2>2, ReleaseLocked DEF Move, HoldLabels
<1>16. CASE IputDrop(p)
  <2>1. ilk' = ilk /\ pc[p] = "iputdrop" /\ pc'[p] \in {"user", "linkbad"}
    BY <1>16, IputDropIs, Basics DEF Move, CallRec
  <2> QED
    BY <1>2, <2>1 DEF HoldLabels
<1> QED
  BY <1>1, <1>3, <1>4, <1>5, <1>6, <1>7, <1>8, <1>9, <1>10, <1>11, <1>12, <1>13, <1>14, <1>15, <1>16
     DEF CallStep

\* The same of the directory.
LEMMA DirStep ==
  ASSUME IInv, NEW p \in Proc, CallStep(p), dlk' = p <=> HasDir(p)',
         dlk' = dlk \/ {dlk, dlk'} = {None, p}
  PROVE  DirLocked'
<1> SUFFICES ASSUME NEW q \in Proc, q # p
             PROVE  dlk' = q <=> HasDir(q)'
  BY DEF DirLocked
<1>1. HasDir(q)' <=> HasDir(q)
  BY OthersStay, Basics DEF HasDir
<1>2. dlk = q <=> HasDir(q)
  BY Basics DEF DirLocked
<1>3. q # None
  BY Nones
<1> QED
  BY <1>1, <1>2, <1>3

LEMMA NextDirLocked ==
  ASSUME IInv, NEW p \in Proc, CallStep(p)
  PROVE  DirLocked'
<1>1. /\ dlk = p <=> HasDir(p)
      /\ pc[p] \notin Putting => call[p].next = "user"
      /\ p # None
  BY Basics, Here, Nones DEF DirLocked
<1>2. CASE Stuck
  BY <1>1, <1>2, DirStep DEF Stuck, HasDir
<1>3. ASSUME NEW n \in Name, OpenName(p, n) \/ LinkOld(p, n) \/ LinkExists(p, n) \/
               Unlink(p, n), ~Stuck
      PROVE  DirLocked'
  <2>1. PICK s \in Slot :
              /\ dlk = None
              /\ \/ /\ Move(p, "user", "ilock", Call(None, None, s, None, "user"), None)
                    /\ dlk' = dlk
                 \/ /\ Move(p, "user", "linkinc", Call(None, None, s, None, "user"), file[p])
                    /\ dlk' = dlk
                 \/ /\ Move(p, "linkdir", "iput", Call(None, None, call[p].ip, s, "linkbad"), file[p])
                    /\ dlk' = p
                 \/ /\ Move(p, "user", "unlink", Call(n, None, s, None, "user"), file[p])
                    /\ dlk' = p
    BY <1>3, NameMoves
  <2>2. dlk' = p <=> HasDir(p)'
    BY <1>1, <2>1, CallFields DEF Move, HasDir, Creating
  <2> QED
    BY <1>1, <2>1, <2>2, DirStep
<1>4. ASSUME NEW n \in Name, Create(p, n)
      PROVE  DirLocked'
  <2>1. pc'[p] = "ialloc" /\ dlk = None /\ dlk' = p
    BY <1>4, CreateIs DEF Move
  <2> QED
    BY <2>1, DirStep DEF HasDir, Creating
<1>5. CASE ((Ialloc(p) \/ IallocGet(p)) /\ ~Stuck) \/ NewInode(p)
  <2>1. dlk' = dlk /\ pc[p] \in {"ialloc", "iget", "newinode"} /\
          pc'[p] \in {"iget", "newinode", "newlink"}
    BY <1>5, IallocIs, IallocGetIs, NewInodeIs DEF Move
  <2> QED
    BY <1>1, <2>1, DirStep DEF HasDir, Creating
<1>6. CASE NewLink(p)
  <2>1. /\ pc[p] = "newlink" /\ dlk' = None /\ pc'[p] \in {"user", "iput"} /\ call'[p].next = "user"
    BY <1>6, NewLinkIs, CallFields DEF Move
  <2>2. ~HasDir(p)' /\ dlk = p
    BY <1>1, <2>1 DEF HasDir, Creating
  <2> QED
    BY <1>1, <2>1, <2>2, DirStep
<1>7. CASE UnlinkClear(p)
  <2>1. /\ pc[p] = "unlink" /\ dlk' = None /\ pc'[p] = "unlinkdec" /\ call'[p] = call[p]
    BY <1>7, UnlinkClearIs DEF Move
  <2>2. ~HasDir(p)' /\ dlk = p
    BY <1>1, <2>1 DEF HasDir, Creating, Putting
  <2> QED
    BY <1>1, <2>1, <2>2, DirStep
<1>8. CASE \/ \E n \in Name : LinkNew(p, n)
           \/ OpenLock(p) \/ LinkInc(p) \/ LinkNoParent(p) \/ LinkBad(p) \/ UnlinkDec(p)
           \/ (WriteAlloc(p) /\ ~Stuck) \/ WriteUpdate(p) \/ Close(p)
  <2>1. /\ dlk' = dlk
        /\ pc[p] \in {"ilock", "linkinc", "linkdir", "linkbad", "unlinkdec", "user", "wupdate"}
        /\ pc'[p] \in {"user", "iput", "linkdir", "linkbad", "wupdate"}
        /\ call'[p] = call[p] \/ call'[p].next = "user"
    BY <1>8, LinkNewIs, OpenLockIs, LinkIncIs, LinkNoParentIs, LinkBadIs, UnlinkDecIs, WriteAllocIs,
       WriteUpdateIs, CloseIs, CallFields DEF Move
  <2>2. ~HasDir(p)' /\ ~HasDir(p)
    BY <1>1, <2>1 DEF HasDir, Creating, Putting
  <2> QED
    BY <1>1, <2>1, <2>2, DirStep
<1>9. CASE IputTest(p) \/ Itrunc(p) \/ ItruncUpdate(p) \/ Ifree(p)
  <2>1. /\ dlk' = dlk /\ pc[p] \in {"iput", "itrunc", "tupdate", "ifree"}
        /\ pc'[p] \in {"itrunc", "tupdate", "ifree", "iputdrop"} /\ call'[p] = call[p]
    BY <1>9, IputTestIs, ItruncIs, ItruncUpdateIs, IfreeIs DEF Move
  <2>2. HasDir(p)' <=> HasDir(p)
    BY <2>1 DEF HasDir, Creating
  <2> QED
    BY <1>1, <2>1, <2>2, DirStep
<1>10. CASE IputDrop(p)
  <2>1. /\ dlk' = IF call[p].next = "linkbad" THEN None ELSE dlk
        /\ pc[p] = "iputdrop" /\ pc'[p] \in {"user", "linkbad"} /\ call'[p].next = "user"
    BY <1>10, IputDropIs, CallFields, Basics DEF Move, CallRec
  <2>2. ~HasDir(p)' /\ (HasDir(p) <=> call[p].next = "linkbad")
    BY <2>1 DEF HasDir, Creating
  <2> QED
    BY <1>1, <2>1, <2>2, DirStep
<1> QED
  BY <1>2, <1>3, <1>4, <1>5, <1>6, <1>7, <1>8, <1>9, <1>10 DEF CallStep

(***************************************************************************)
(* The invariant, part by part: names, copies and inodes.                  *)
(***************************************************************************)
\* The directory changes only under its lock.
LEMMA DirStays ==
  ASSUME IInv, NEW p \in Proc, CallStep(p)
  PROVE  dir' = dir \/ dlk \in {None, p}
<1>1. HasDir(p) => dlk = p
  BY Basics DEF DirLocked
<1>2. Stuck => dir' = dir
  BY DEF Stuck
<1>3. ASSUME NEW n \in Name, OpenName(p, n) \/ LinkOld(p, n) \/ LinkExists(p, n) \/ Unlink(p, n)
                             \/ Create(p, n) \/ LinkNew(p, n)
      PROVE  dir' = dir \/ dlk \in {None, p}
  BY <1>2, <1>3, NameMoves, CreateIs, LinkNewIs
<1>4. CASE NewLink(p) \/ UnlinkClear(p)
  <2>1. HasDir(p)
    BY <1>4 DEF NewLink, UnlinkClear, At, HasDir, Creating
  <2> QED
    BY <1>1, <2>1
<1>5. CASE Ialloc(p) \/ IallocGet(p) \/ OpenLock(p) \/ LinkInc(p) \/ LinkNoParent(p) \/ LinkBad(p)
           \/ Close(p) \/ Itrunc(p) \/ ItruncUpdate(p)
  BY <1>2, <1>5, IallocIs, IallocGetIs, OpenLockIs, LinkIncIs, LinkNoParentIs, LinkBadIs,
     CloseIs, ItruncIs, ItruncUpdateIs
<1>6. CASE NewInode(p) \/ UnlinkDec(p) \/ WriteAlloc(p) \/ WriteUpdate(p) \/ IputTest(p) \/ Ifree(p)
           \/ IputDrop(p)
  BY <1>2, <1>6, NewInodeIs, UnlinkDecIs, WriteAllocIs, WriteUpdateIs, IputTestIs, IfreeIs,
       IputDropIs
<1> QED
  BY <1>3, <1>4, <1>5, <1>6 DEF CallStep

LEMMA NextEntry ==
  ASSUME IInv, NEW p \in Proc, CallStep(p), NEW q \in Proc
  PROVE  Entry(q)'
<1>1. Entry(p) /\ Entry(q)
  BY DEF IInv, Calls
<1>2. CASE Stuck
  BY <1>1, <1>2 DEF Stuck, Entry
<1>3. CASE q # p /\ ~Stuck
  <2>1. pc'[q] = pc[q] /\ call'[q] = call[q]
    BY <1>3, OthersStay, Basics
  <2>2. pc[q] \in Creating \cup {"unlink"} => dir' = dir
    BY <1>3, DirStays, Basics, Nones DEF DirLocked, HasDir
  <2>3. pc[q] = "unlink" => icache'[call[q].ip].inum = icache[call[q].ip].inum
    BY <1>3, Here, DataSteps, NextData DEF WithIp
  <2> QED
    BY <1>1, <2>1, <2>2, <2>3 DEF Entry
<1>4. ASSUME pc'[p] \notin Creating \cup {"unlink"}
      PROVE  Entry(p)'
  BY <1>4 DEF Entry
<1>5. ASSUME pc[p] \in Creating, pc'[p] \in Creating, dir' = dir, call'[p].name = call[p].name
      PROVE  Entry(p)'
  BY <1>1, <1>5 DEF Entry, Creating
<1>6. ASSUME NEW n \in Name, OpenName(p, n) \/ LinkOld(p, n) \/ LinkExists(p, n) \/
               Unlink(p, n), ~Stuck
      PROVE  Entry(p)'
  <2>1. PICK s \in Slot :
              /\ dir[n] \in Inum /\ Iget(dir[n], s) /\ dir' = dir
              /\ \/ pc'[p] \in {"ilock", "linkinc", "iput"}
                 \/ Move(p, "user", "unlink", Call(n, None, s, None, "user"), file[p])
    BY <1>6, NameMoves DEF Move
  <2>2. icache'[s].inum = dir[n]
    BY <2>1, IgetIs, Basics
  <2>3. CASE Move(p, "user", "unlink", Call(n, None, s, None, "user"), file[p])
    BY <2>1, <2>2, <2>3, CallFields DEF Move, Entry, Creating
  <2>4. CASE pc'[p] \in {"ilock", "linkinc", "iput"}
    BY <1>4, <2>4 DEF Creating
  <2> QED
    BY <2>1, <2>3, <2>4
<1>7. ASSUME NEW n \in Name, Create(p, n)
      PROVE  Entry(p)'
  BY <1>7, CreateIs, CallFields DEF Move, Entry, Creating
<1>8. ASSUME ((Ialloc(p) \/ IallocGet(p)) /\ ~Stuck) \/ NewInode(p)
      PROVE  Entry(p)'
  <2>1. /\ dir' = dir /\ pc[p] \in {"ialloc", "iget", "newinode"} /\
             pc'[p] \in {"iget", "newinode", "newlink"}
        /\ call'[p].name = call[p].name
    BY <1>8, IallocIs, IallocGetIs, NewInodeIs, CallFields DEF Move
  <2> QED
    BY <1>5, <2>1 DEF Creating
<1>9. ASSUME \/ \E n \in Name : LinkNew(p, n)
             \/ OpenLock(p) \/ NewLink(p) \/ LinkInc(p) \/ LinkNoParent(p) \/ LinkBad(p) \/
                  UnlinkDec(p)
             \/ UnlinkClear(p) \/ (WriteAlloc(p) /\ ~Stuck) \/ WriteUpdate(p) \/ Close(p)
      PROVE  Entry(p)'
  <2>1. pc'[p] \in {"user", "iput", "linkdir", "linkbad", "wupdate", "unlinkdec"}
    BY <1>9, LinkNewIs, OpenLockIs, NewLinkIs, LinkIncIs, LinkNoParentIs, LinkBadIs, UnlinkDecIs,
       UnlinkClearIs, WriteAllocIs, WriteUpdateIs, CloseIs DEF Move
  <2> QED
    BY <1>4, <2>1 DEF Creating
<1>10. ASSUME IputTest(p) \/ Itrunc(p) \/ ItruncUpdate(p) \/ Ifree(p) \/ IputDrop(p)
       PROVE  Entry(p)'
  <2>1. pc'[p] \in {"itrunc", "tupdate", "ifree", "iputdrop", "user", "linkbad"}
    BY <1>10, IputTestIs, ItruncIs, ItruncUpdateIs, IfreeIs, IputDropIs, Basics
       DEF Move, CallRec
  <2> QED
    BY <1>4, <2>1 DEF Creating
<1> QED
  BY <1>2, <1>3, <1>6, <1>7, <1>8, <1>9, <1>10 DEF CallStep

\* A slot for which an iupdate of somebody else is due.
LEMMA UpdatingStep ==
  ASSUME IInv, NEW p \in Proc, CallStep(p), NEW t \in Slot, Updating(t), ~Updates(p, t)
  PROVE  Updating(t)'
<1>1. PICK q \in Proc : Updates(q, t)
  BY DEF Updating
<1>2. q # p
  BY <1>1
<1>3. pc'[q] = pc[q] /\ file'[q] = file[q] /\ call'[q] = call[q]
  BY <1>2, OthersStay, Basics
<1> QED
  BY <1>1, <1>3 DEF Updating, Updates

SyncedAt(s) == icache[s].ref > 0 /\ icache[s].copy # None =>
    /\ icache[s].copy.type = dinode[icache[s].inum].type
    /\ icache[s].copy.nlink = dinode[icache[s].inum].nlink
    /\ icache[s].copy.addr = dinode[icache[s].inum].addr \/ Updating(s)

\* The slots a step does not touch: their inodes stay too.
LEMMA OtherSynced ==
  ASSUME IInv, NEW p \in Proc, CallStep(p), NEW t \in Slot,
         icache'[t].copy = icache[t].copy, icache'[t].inum = icache[t].inum,
         icache'[t].ref > 0 /\ icache[t].copy # None => icache[t].ref > 0,
         icache[t].ref > 0 /\ icache[t].copy # None =>
            dinode'[icache[t].inum] = dinode[icache[t].inum],
         ~Updates(p, t)
  PROVE  SyncedAt(t)'
<1>1. SyncedAt(t)
  BY Basics DEF Synced, SyncedAt
<1>2. Updating(t) => Updating(t)'
  BY UpdatingStep
<1> HIDE DEF Updating
<1> QED
  BY <1>1, <1>2 DEF SyncedAt

LEMMA NextSynced ==
  ASSUME IInv, NEW p \in Proc, CallStep(p)
  PROVE  Synced'
<1>1. /\ OneSlot /\ TypeOK /\ Synced /\ FreeOK
      /\ \A t \in Slot : icache[t].ref \in Nat /\ SyncedAt(t)
  BY Basics, Types DEF SlotRec, IInv, Synced, SyncedAt
<1> SUFFICES ASSUME NEW t \in Slot
             PROVE  SyncedAt(t)'
  BY DEF Synced, SyncedAt
<1>2. CASE Stuck
  BY <1>1, <1>2 DEF Stuck, SyncedAt, Updating, Updates
<1> DEFINE Quiet == \A s \in Slot : ~Updates(p, s)
<1>3. NotUpdating(p) => Quiet
  BY DEF NotUpdating, Updates
<1> HIDE DEF Quiet
<1>4. CASE Keeps(p)
  BY <1>4, <1>3, OtherSynced DEF Keeps, Quiet
<1>5. ASSUME NEW i \in Inum, Allocates(p, i)
      PROVE  SyncedAt(t)'
  <2>1. icache[t].ref > 0 /\ icache[t].copy # None => icache[t].inum # i /\ icache[t].inum \in Inum
    BY <1>1, <1>5 DEF Allocates, FreeOK, Cached, OneSlot
  <2> QED
    BY <1>5, <1>3, <2>1, OtherSynced DEF Allocates, OnlyInode, Quiet
<1>6. ASSUME NEW i \in Inum, NEW s \in Slot, Takes(p, i, s)
      PROVE  SyncedAt(t)'
  <2>1. /\ OnlySlot(s) /\ icache'[s].inum = i /\ dinode' = dinode /\ Quiet
        /\ \/ icache[s].ref > 0 /\ icache[s].inum = i /\ icache'[s].copy = icache[s].copy
           \/ icache'[s].copy = None
    BY <1>1, <1>6, <1>3, IgetIs DEF Takes
  <2>2. CASE t = s /\ icache'[s].copy = None
    BY <2>2 DEF SyncedAt
  <2>3. CASE t # s
    BY <2>1, <2>3, OtherSynced DEF OnlySlot, Quiet
  <2>4. CASE t = s /\ icache[s].ref > 0 /\ icache[s].inum = i /\ icache'[s].copy = icache[s].copy
    BY <2>1, <2>4, OtherSynced DEF Quiet
  <2> QED
    BY <2>1, <2>2, <2>3, <2>4
<1>7. ASSUME NEW s \in Slot, Reads(p, s)
      PROVE  SyncedAt(t)'
  <2>1. /\ icache[s].inum \in Inum /\ Copy(s) = dinode[icache[s].inum]
        /\ OnlySlot(s) /\ icache'[s].inum = icache[s].inum /\ icache'[s].copy = Copy(s)
        /\ dinode' = dinode /\ Quiet
    BY <1>7, <1>3, Busy DEF Reads, CopySets
  <2>2. CASE t = s
    BY <2>1, <2>2 DEF SyncedAt
  <2>3. CASE t # s
    BY <2>1, <2>3, OtherSynced DEF OnlySlot, Quiet
  <2> QED
    BY <2>2, <2>3
<1>8. ASSUME NEW s \in Slot, NEW d \in Dinode, Changes(p, s, d)
      PROVE  SyncedAt(t)'
  <2>1. /\ OnlySlot(s) /\ icache'[s].inum = icache[s].inum /\ icache'[s].copy = d
        /\ OnlyInode(icache[s].inum) /\ dinode'[icache[s].inum] = d /\ icache[s].ref > 0
        /\ OnlyUpdates(p, s)
    BY <1>8 DEF Changes, Writes, CopySets
  <2>2. CASE t = s
    BY <2>1, <2>2 DEF SyncedAt
  <2>3. CASE t # s
    <3>1. icache[t].ref > 0 => icache[t].inum \in Inum /\ icache[t].inum # icache[s].inum
      BY <1>1, <2>1, <2>3 DEF OneSlot
    <3> QED
      BY <2>1, <2>3, <3>1, OtherSynced DEF OnlySlot, OnlyInode, OnlyUpdates
  <2> QED
    BY <2>2, <2>3
<1>9. ASSUME NEW s \in Slot, NEW d \in Dinode,
             Truncates(p, s, d) \/ \E b \in Block : Enters(p, s, b, d)
      PROVE  SyncedAt(t)'
  <2>1. /\ OnlySlot(s) /\ icache'[s].inum = icache[s].inum /\ icache'[s].copy = d
        /\ dinode' = dinode /\ icache[s].ref > 0 /\ Quiet
        /\ Copy(s) \in Dinode /\ \E b : d = [Copy(s) EXCEPT !.addr = b]
        /\ Copy(s).type = dinode[icache[s].inum].type
        /\ Copy(s).nlink = dinode[icache[s].inum].nlink
        /\ Updates(p, s)'
    <3>1. icache[s].ref > 0 /\ Works(p, s)
      BY <1>9 DEF Truncates, Enters
    <3>2. Truncates(p, s, d) => Copy(s) = icache[s].copy
      BY Nones DEF Truncates, Copy
    <3> QED
      BY <1>9, <1>3, <3>1, <3>2, Busy DEF Truncates, Enters, CopySets
  <2>2. CASE t = s
    <3>1. Updating(s)'
      BY <2>1 DEF Updating
    <3>2. d.type = Copy(s).type /\ d.nlink = Copy(s).nlink
      BY <2>1 DEF Dinode
    <3> QED
      BY <2>1, <2>2, <3>1, <3>2 DEF SyncedAt
  <2>3. CASE t # s
    BY <2>1, <2>3, OtherSynced DEF OnlySlot, Quiet
  <2> QED
    BY <2>2, <2>3
<1>10. ASSUME NEW s \in Slot, Frees(p, s)
      PROVE  SyncedAt(t)'
  <2>1. /\ OnlySlot(s) /\ icache'[s].inum = icache[s].inum /\ icache'[s].copy = None
        /\ OnlyInode(icache[s].inum) /\ icache[s].ref > 0 /\ Quiet
    BY <1>10, <1>3 DEF Frees, CopySets
  <2>2. CASE t = s
    BY <2>1, <2>2 DEF SyncedAt
  <2>3. CASE t # s
    <3>1. icache[t].ref > 0 => icache[t].inum \in Inum /\ icache[t].inum # icache[s].inum
      BY <1>1, <2>1, <2>3 DEF OneSlot
    <3> QED
      BY <2>1, <2>3, <3>1, OtherSynced DEF OnlySlot, OnlyInode, Quiet
  <2> QED
    BY <2>2, <2>3
<1>11. ASSUME NEW s \in Slot, Drops(p, s)
       PROVE  SyncedAt(t)'
  <2>1. /\ OnlySlot(s) /\ icache'[s].inum = icache[s].inum /\ icache'[s].copy = icache[s].copy
        /\ dinode' = dinode /\ icache[s].ref > 0 /\ Quiet
    BY <1>11, <1>3 DEF Drops
  <2> QED
    BY <2>1, OtherSynced DEF OnlySlot, Quiet
<1> QED
  BY <1>2, <1>4, <1>5, <1>6, <1>7, <1>8, <1>9, <1>10, <1>11, DataSteps DEF Data

\* What iget is called for is a file, and the slots of a file are worked on.
LEMMA TakesFile ==
  ASSUME IInv, NEW p \in Proc, NEW i \in Inum, NEW s \in Slot, Takes(p, i, s)
  PROVE  /\ dinode[i].type = "file"
         /\ OnlySlot(s) /\ icache'[s].inum = i /\ icache'[s].ref = icache[s].ref + 1
         /\ \/ icache[s].ref > 0 /\ icache[s].inum = i /\ icache'[s].copy = icache[s].copy
            \/ icache[s].ref = 0 /\ Cached(i) = {} /\ icache'[s].copy = None
<1>1. /\ OnlySlot(s) /\ icache'[s].inum = i /\ icache'[s].ref = icache[s].ref + 1
      /\ \/ icache[s].ref > 0 /\ icache[s].inum = i /\ icache'[s].copy = icache[s].copy
         \/ icache[s].ref = 0 /\ Cached(i) = {} /\ icache'[s].copy = None
  BY Basics, IgetIs DEF Takes
<1>2. dinode[i].type = "file"
  <2>1. CASE dinode[i].nlink >= 1
    <3>1. dinode[i] # FreeInode
      BY <2>1 DEF FreeInode
    <3>2. dinode[i] \in Dinode
      BY Basics, Types
    <3>3. dinode[i].type \in {"free", "file"} /\ (dinode[i].type = "free" => dinode[i] = FreeInode)
      BY <3>2, RecordTypes DEF IInv, FreeOK
    <3> QED
      BY <3>1, <3>3
  <2>2. CASE pc[p] = "iget" /\ i = call[p].inum
    <3>1. dinode[i] = Fresh
      BY <2>2 DEF IInv, Calls, NewOK
    <3>2. Fresh.type = "file"
      BY DEF Fresh, FreeInode
    <3> QED
      BY <3>1, <3>2
  <2> QED
    BY <2>1, <2>2 DEF Takes
<1> QED
  BY <1>1, <1>2

\* An inode that stays free.
LEMMA FreeStays ==
  ASSUME IInv, NEW p \in Proc, CallStep(p), NEW i \in Inum,
         dinode[i].type = "free", dinode'[i] = dinode[i],
         \A t \in Slot : icache'[t].ref > 0 /\ icache'[t].inum = i =>
            /\ icache[t].ref > 0 /\ icache[t].inum = i
            /\ icache'[t].copy = icache[t].copy
            /\ Works(p, t)' => Works(p, t)
  PROVE  /\ dinode'[i] = FreeInode
         /\ \A s \in Cached(i)' : icache'[s].copy = None /\ \A q \in Proc : ~Works(q, s)'
<1>1. /\ dinode[i] = FreeInode
      /\ \A s \in Cached(i) : icache[s].copy = None /\ \A q \in Proc : ~Works(q, s)
  BY DEF IInv, FreeOK
<1>2. ASSUME NEW s \in Cached(i)'
      PROVE  icache'[s].copy = None /\ \A q \in Proc : ~Works(q, s)'
  <2>1. s \in Slot /\ icache'[s].ref > 0 /\ icache'[s].inum = i
    BY <1>2 DEF Cached
  <2>2. s \in Cached(i) /\ icache'[s].copy = icache[s].copy /\ (Works(p, s)' => Works(p, s))
    BY <2>1 DEF Cached
  <2>3. ASSUME NEW q \in Proc, q # p PROVE Works(q, s)' => Works(q, s)
    BY <2>3, OthersStay, Basics DEF Works
  <2> QED
    BY <1>1, <2>2, <2>3
<1> QED
  BY <1>1, <1>2

LEMMA NextFreeOK ==
  ASSUME IInv, NEW p \in Proc, CallStep(p)
  PROVE  FreeOK'
<1>1. /\ OneSlot /\ TypeOK
      /\ \A t \in Slot : icache[t].ref \in Nat
  BY Basics, Types DEF SlotRec
<1> SUFFICES ASSUME NEW i \in Inum, dinode'[i].type = "free"
             PROVE  /\ dinode'[i] = FreeInode
                    /\ \A s \in Cached(i)' : icache'[s].copy = None /\ \A q \in Proc : ~Works(q, s)'
  BY DEF FreeOK
<1> DEFINE Done == /\ dinode'[i] = FreeInode
                   /\ \A s \in Cached(i)' : icache'[s].copy = None /\ \A q \in Proc : ~Works(q, s)'
<1>2. ASSUME \A t \in Slot : icache'[t].inum = icache[t].inum /\ icache'[t].copy = icache[t].copy
                                /\ (icache'[t].ref > 0 => icache[t].ref > 0),
             dinode' = dinode, NoMore(p)
      PROVE  Done
  BY <1>2, FreeStays DEF NoMore
<1>3. CASE Stuck
  BY <1>2, <1>3 DEF Stuck, NoMore, Works
<1>4. CASE Keeps(p)
  BY <1>2, <1>4 DEF Keeps
<1>5. ASSUME NEW j \in Inum, Allocates(p, j)
      PROVE  Done
  <2>1. i # j
    BY <1>5 DEF Allocates, Fresh, FreeInode
  <2> QED
    BY <1>5, <2>1, FreeStays DEF Allocates, OnlyInode, NoMore
<1>6. ASSUME NEW j \in Inum, NEW s \in Slot, Takes(p, j, s)
      PROVE  Done
  <2>1. i # j /\ OnlySlot(s) /\ icache'[s].inum = j /\ dinode' = dinode
    BY <1>6, TakesFile DEF Takes
  <2>2. \A t \in Slot : t # s => icache'[t] = icache[t] /\ (Works(p, t)' => Works(p, t))
    BY <1>6, <2>1 DEF OnlySlot, Takes
  <2> QED
    BY <2>1, <2>2, FreeStays
<1>7. ASSUME NEW s \in Slot, \/ Reads(p, s)
                             \/ \E d \in Dinode : \/ Truncates(p, s, d)
                                                  \/ \E b \in Block : Enters(p, s, b, d)
      PROVE  Done
  <2>1. /\ icache[s].ref > 0 /\ Works(p, s) /\ OnlySlot(s) /\ icache'[s].inum = icache[s].inum
        /\ dinode' = dinode /\ NoMore(p)
    BY <1>7 DEF Reads, Truncates, Enters, CopySets
  <2>2. icache[s].inum # i
    BY <2>1, Busy
  <2> QED
    BY <2>1, <2>2, FreeStays DEF OnlySlot, NoMore
<1>8. ASSUME NEW s \in Slot, NEW d \in Dinode, Changes(p, s, d)
      PROVE  Done
  <2>1. /\ icache[s].ref > 0 /\ Works(p, s) /\ OnlySlot(s) /\ icache'[s].inum = icache[s].inum
        /\ OnlyInode(icache[s].inum) /\ dinode'[icache[s].inum] = d /\ NoMore(p)
        /\ d.type = "file"
    BY <1>8 DEF Changes, Writes, CopySets
  <2>2. icache[s].inum # i
    BY <2>1
  <2> QED
    BY <2>1, <2>2, FreeStays DEF OnlySlot, OnlyInode, NoMore
<1>9. ASSUME NEW s \in Slot, Frees(p, s)
      PROVE  Done
  <2>1. /\ icache[s].ref = 1 /\ call[p].put = s /\ OnlySlot(s)
        /\ icache'[s].inum = icache[s].inum /\ icache'[s].copy = None
        /\ OnlyInode(icache[s].inum) /\ dinode'[icache[s].inum] = FreeInode
        /\ \A t \in Slot : Works(p, t)' => Works(p, t) /\ t # s
    BY <1>9 DEF Frees, CopySets
  <2>2. CASE icache[s].inum # i
    BY <2>1, <2>2, FreeStays DEF OnlySlot, OnlyInode
  <2>3. CASE icache[s].inum = i
    <3>1. \A t \in Cached(i)' : t = s
      BY <1>1, <2>1, <2>3 DEF Cached, OneSlot, OnlySlot
    <3>2. \A q \in Proc : ~Works(q, s)'
      <4>1. ~Works(p, s)'
        BY <2>1
      <4>2. ASSUME NEW q \in Proc, q # p PROVE ~Works(q, s)'
        <5>1. file[q] # s /\ call[q].ip # s /\ call[q].put # s
          BY <2>1, <4>2, Referred DEF IInv
        <5>2. file'[q] = file[q] /\ call'[q] = call[q]
          BY <4>2, OthersStay, Basics
        <5> QED
          BY <5>1, <5>2 DEF Works
      <4> QED
        BY <4>1, <4>2
    <3> QED
      BY <2>1, <2>3, <3>1, <3>2
  <2> QED
    BY <2>2, <2>3
<1>10. ASSUME NEW s \in Slot, Drops(p, s)
       PROVE  Done
  <2>1. /\ OnlySlot(s) /\ icache'[s].inum = icache[s].inum /\ icache'[s].copy = icache[s].copy
        /\ dinode' = dinode /\ icache[s].ref > 0 /\ NoMore(p)
    BY <1>10 DEF Drops
  <2> QED
    BY <1>2, <2>1 DEF OnlySlot
<1> QED
  BY <1>3, <1>4, <1>5, <1>6, <1>7, <1>8, <1>9, <1>10, DataSteps DEF Data

\* Whoever works on a slot has a reference, after a step as before it.
LEMMA NextReferred ==
  ASSUME IInv, NEW p \in Proc, CallStep(p), NEW q \in Proc, NEW s \in Slot
  PROVE  Works(q, s)' => icache'[s].ref > 0
<1>1. Counted'
  BY NextCounted
<1>2. icache'[s].ref =
         Cardinality(Opens(s)') + Cardinality(Uses(s)') + Cardinality(Puts(s)')
  BY <1>1 DEF Counted
<1>3. /\ Opens(s)' \subseteq Proc /\ Uses(s)' \subseteq Proc /\ Puts(s)' \subseteq Proc
  BY DEF Opens, Uses, Puts
<1>4. PICK a \in Nat : a = Cardinality(Opens(s)')
  BY <1>3, InodeAssumption, FS_Subset, FS_CardinalityType
<1>5. PICK b \in Nat : b = Cardinality(Uses(s)')
  BY <1>3, InodeAssumption, FS_Subset, FS_CardinalityType
<1>6. PICK c \in Nat : c = Cardinality(Puts(s)')
  BY <1>3, InodeAssumption, FS_Subset, FS_CardinalityType
<1>7. \A S : S \subseteq Proc /\ S # {} => Cardinality(S) >= 1
  BY CountMinus, InodeAssumption, FS_Subset
<1>8. Works(q, s)' => a >= 1 \/ b >= 1 \/ c >= 1
  <2>1. Works(q, s)' => Opens(s)' # {} \/ Uses(s)' # {} \/ Puts(s)' # {}
    BY DEF Works, Opens, Uses, Puts
  <2> QED
    BY <1>3, <1>4, <1>5, <1>6, <1>7, <2>1
<1> QED
  BY <1>2, <1>4, <1>5, <1>6, <1>8

\* While somebody has the directory, the others leave an inode alone that they do not work on.
LEMMA LeftAlone ==
  ASSUME IInv, NEW p \in Proc, Data(p), NEW q \in Proc, q # p, HasDir(q),
         NEW i \in Inum, \A t \in Cached(i) : ~Works(p, t)
  PROVE  /\ dinode'[i] = dinode[i]
         /\ \A t \in Slot : icache[t].ref > 0 /\ icache[t].inum = i =>
               icache'[t].copy = icache[t].copy /\ icache'[t].inum = i
         /\ \A t \in Slot : icache'[t].ref > 0 /\ icache'[t].inum = i =>
               icache[t].ref > 0 /\ icache[t].inum = i /\ ~Works(p, t)'
<1>1. OneSlot /\ dlk = q /\ ~HasDir(p) /\ q # None
  BY Basics, Nones DEF DirLocked
<1>2. CASE Keeps(p)
  BY <1>2 DEF Keeps, NoMore, Cached
<1>3. ASSUME NEW j \in Inum, Allocates(p, j)
      PROVE  FALSE
  BY <1>1, <1>3 DEF Allocates
<1>4. ASSUME NEW j \in Inum, NEW s \in Slot, Takes(p, j, s)
      PROVE  FALSE
  BY <1>1, <1>4 DEF Takes, HasDir, Creating
<1>5. ASSUME NEW s \in Slot, icache[s].ref > 0, Works(p, s), OnlySlot(s), NoMore(p),
             icache'[s].inum = icache[s].inum,
             dinode' = dinode \/ OnlyInode(icache[s].inum)
      PROVE  /\ dinode'[i] = dinode[i]
             /\ \A t \in Slot : icache[t].ref > 0 /\ icache[t].inum = i =>
                   icache'[t].copy = icache[t].copy /\ icache'[t].inum = i
             /\ \A t \in Slot : icache'[t].ref > 0 /\ icache'[t].inum = i =>
                   icache[t].ref > 0 /\ icache[t].inum = i /\ ~Works(p, t)'
  <2>1. icache[s].inum # i
    BY <1>5 DEF Cached
  <2> QED
    BY <1>5, <2>1 DEF OnlySlot, OnlyInode, NoMore, Cached
<1>6. ASSUME NEW s \in Slot, Drops(p, s)
      PROVE  /\ dinode'[i] = dinode[i]
             /\ \A t \in Slot : icache[t].ref > 0 /\ icache[t].inum = i =>
                   icache'[t].copy = icache[t].copy /\ icache'[t].inum = i
             /\ \A t \in Slot : icache'[t].ref > 0 /\ icache'[t].inum = i =>
                   icache[t].ref > 0 /\ icache[t].inum = i /\ ~Works(p, t)'
  BY <1>6 DEF Drops, OnlySlot, NoMore, Cached
<1>7. ASSUME NEW s \in Slot,
             \/ Reads(p, s) \/ Frees(p, s)
             \/ \E d \in Dinode : \/ Changes(p, s, d) \/ Truncates(p, s, d)
                                  \/ \E b \in Block : Enters(p, s, b, d)
      PROVE  /\ icache[s].ref > 0 /\ Works(p, s) /\ OnlySlot(s) /\ NoMore(p)
             /\ icache'[s].inum = icache[s].inum
             /\ dinode' = dinode \/ OnlyInode(icache[s].inum)
  BY <1>7 DEF Reads, Frees, Changes, Truncates, Enters, CopySets, Writes, NoMore
<1> QED
  BY <1>2, <1>3, <1>4, <1>5, <1>6, <1>7 DEF Data

LEMMA NewStays ==
  ASSUME IInv, NEW p \in Proc, CallStep(p), ~Stuck, NEW q \in Proc, q # p
  PROVE  NewOK(q)'
<1>1. /\ NewOK(q) /\ OneSlot /\ pc'[q] = pc[q] /\ call'[q] = call[q] /\ Data(p)
  BY OthersStay, Basics, DataSteps DEF IInv, Calls
<1>2. ASSUME NEW r \in Proc, r # p, NEW s \in Slot PROVE Works(r, s)' <=> Works(r, s)
  BY <1>2, OthersStay, Basics DEF Works
<1>3. ASSUME pc[q] = "iget"
      PROVE  /\ dinode'[call[q].inum] = Fresh
             /\ \A s \in Cached(call[q].inum)' :
                   icache'[s].copy = None /\ \A r \in Proc : ~Works(r, s)'
  <2>1. PICK i \in Inum : i = call[q].inum
    BY <1>3, Here
  <2>2. /\ dinode[i] = Fresh
        /\ \A s \in Cached(i) : icache[s].copy = None /\ \A r \in Proc : ~Works(r, s)
    BY <1>1, <1>3, <2>1 DEF NewOK
  <2>3. HasDir(q)
    BY <1>3 DEF HasDir, Creating
  <2>4. /\ dinode'[i] = dinode[i]
        /\ \A t \in Slot : icache[t].ref > 0 /\ icache[t].inum = i =>
               icache'[t].copy = icache[t].copy /\ icache'[t].inum = i
        /\ \A t \in Slot : icache'[t].ref > 0 /\ icache'[t].inum = i =>
               icache[t].ref > 0 /\ icache[t].inum = i /\ ~Works(p, t)'
    BY <1>1, <2>2, <2>3, LeftAlone
  <2>5. ASSUME NEW s \in Cached(i)'
        PROVE  icache'[s].copy = None /\ \A r \in Proc : ~Works(r, s)'
    <3>1. s \in Slot /\ icache'[s].ref > 0 /\ icache'[s].inum = i
      BY <2>5 DEF Cached
    <3>2. s \in Cached(i) /\ icache'[s].copy = icache[s].copy /\ ~Works(p, s)'
      BY <2>4, <3>1 DEF Cached
    <3> QED
      BY <1>2, <2>2, <3>1, <3>2
  <2>6. call'[q].inum = i
    BY <1>1, <2>1
  <2> QED
    BY <1>1, <2>1, <2>2, <2>4, <2>5, <2>6
<1>4. ASSUME pc[q] = "newinode"
      PROVE  /\ dinode'[icache'[call[q].ip].inum] = Fresh
             /\ icache'[call[q].ip].copy = None
             /\ \A r \in Proc : Works(r, call[q].ip)' => r = q
  <2>1. PICK s \in Slot : s = call[q].ip /\ icache[s].ref > 0
    BY <1>4, Here DEF WithIp
  <2>2. /\ dinode[icache[s].inum] = Fresh /\ icache[s].copy = None
        /\ \A r \in Proc : Works(r, s) => r = q
    BY <1>1, <1>4, <2>1 DEF NewOK
  <2>3. PICK i \in Inum : i = icache[s].inum
    BY <1>1, <2>1 DEF OneSlot
  <2>4. \A t \in Cached(i) : t = s
    BY <1>1, <2>1, <2>3 DEF OneSlot, Cached
  <2>5. HasDir(q)
    BY <1>4 DEF HasDir, Creating
  <2>6. dinode'[i] = dinode[i] /\ icache'[s].copy = icache[s].copy /\ icache'[s].inum = i
    BY <1>1, <2>1, <2>2, <2>3, <2>4, <2>5, LeftAlone
  <2>7. ~Works(p, s)'
    <3>1. icache'[s].ref > 0 => ~Works(p, s)'
      BY <1>1, <2>1, <2>2, <2>3, <2>4, <2>5, <2>6, LeftAlone
    <3>2. Works(p, s)' => icache'[s].ref > 0
      BY NextReferred
    <3> QED
      BY <3>1, <3>2
  <2>8. \A r \in Proc : Works(r, s)' => r = q
    BY <1>2, <2>2, <2>7
  <2>9. call'[q].ip = s
    BY <1>1, <2>1
  <2>10. \A r \in Proc : Works(r, call[q].ip)' => r = q
    BY <2>8, <2>9 DEF Works
  <2> QED
    BY <2>1, <2>2, <2>3, <2>6, <2>10
<1> QED
  BY <1>1, <1>3, <1>4 DEF NewOK

LEMMA NextNewOK ==
  ASSUME IInv, NEW p \in Proc, CallStep(p), NEW q \in Proc
  PROVE  NewOK(q)'
<1>1. CASE Stuck
  <2>1. NewOK(q) /\ UNCHANGED <<icache, dinode, file, pc, call>>
    BY <1>1 DEF Stuck, IInv, Calls
  <2> QED
    BY <2>1 DEF NewOK, Works, Cached
<1>2. CASE q # p /\ ~Stuck
  BY <1>2, NewStays
<1>3. ASSUME pc'[p] \notin {"iget", "newinode"}
      PROVE  NewOK(p)'
  BY <1>3 DEF NewOK
<1>4. ASSUME Ialloc(p), ~Stuck
      PROVE  NewOK(p)'
  <2>1. PICK i \in Inum :
              /\ dinode[i].type = "free" /\ dinode'[i] = Fresh
              /\ Move(p, "ialloc", "iget", Call(call[p].name, i, None, None, "user"), file[p])
              /\ icache' = icache
    BY <1>4, IallocIs
  <2>2. \A s \in Cached(i) : icache[s].copy = None /\ \A r \in Proc : ~Works(r, s)
    BY <2>1 DEF IInv, FreeOK
  <2>3. Cached(i)' = Cached(i) /\ \A s \in Cached(i) : s \in Slot
    BY <2>1 DEF Cached
  <2>4. \A s \in Slot, r \in Proc : Works(r, s)' => Works(r, s)
    <3>1. \A s \in Slot : Works(p, s)' => Works(p, s)
      BY <2>1, CallFields, Nones DEF Works, Move
    <3>2. \A r \in Proc, s \in Slot : r # p => (Works(r, s)' <=> Works(r, s))
      BY OthersStay, Basics DEF Works
    <3> QED
      BY <3>1, <3>2
  <2>5. pc'[p] = "iget" /\ call'[p].inum = i
    BY <2>1, CallFields DEF Move
  <2>6. \A s \in Cached(i)' : icache'[s].copy = None /\ \A r \in Proc : ~Works(r, s)'
    BY <2>1, <2>2, <2>3, <2>4
  <2> QED
    BY <2>1, <2>5, <2>6 DEF NewOK
<1>5. ASSUME IallocGet(p), ~Stuck
      PROVE  NewOK(p)'
  <2>1. PICK s :
              /\ call[p].inum \in Inum /\ Iget(call[p].inum, s)
              /\ Move(p, "iget", "newinode", Call(call[p].name, None, s, None, "user"), file[p])
              /\ dinode' = dinode
    BY <1>5, IallocGetIs
  <2>2. PICK i \in Inum : i = call[p].inum
    BY <2>1
  <2>3. /\ s \in Slot /\ icache'[s].inum = i
        /\ \/ icache[s].ref > 0 /\ icache[s].inum = i /\ icache'[s].copy = icache[s].copy
           \/ icache[s].ref = 0 /\ icache'[s].copy = None
    BY <2>1, <2>2, IgetIs, Basics
  <2>4. /\ dinode[i] = Fresh
        /\ \A t \in Cached(i) : icache[t].copy = None /\ \A r \in Proc : ~Works(r, t)
    BY <2>1, <2>2 DEF IInv, Calls, NewOK, Move
  <2>5. icache'[s].copy = None /\ \A r \in Proc : ~Works(r, s)
    <3>1. CASE icache[s].ref > 0 /\ icache[s].inum = i /\ icache'[s].copy = icache[s].copy
      BY <2>3, <2>4, <3>1 DEF Cached
    <3>2. CASE icache[s].ref = 0 /\ icache'[s].copy = None
      BY <2>3, <3>2, Referred DEF IInv, Works
    <3> QED
      BY <2>3, <3>1, <3>2
  <2>6. \A r \in Proc : Works(r, s)' => r = p
    <3>1. \A r \in Proc : r # p => (Works(r, s)' <=> Works(r, s))
      BY OthersStay, Basics DEF Works
    <3> QED
      BY <2>5, <3>1
  <2>7. pc'[p] = "newinode" /\ call'[p].ip = s
    BY <2>1, CallFields DEF Move
  <2> QED
    BY <2>1, <2>3, <2>4, <2>5, <2>6, <2>7 DEF NewOK
<1>6. ASSUME NEW n \in Name, OpenName(p, n) \/ LinkOld(p, n) \/ LinkExists(p, n) \/ Unlink(p, n)
                             \/ Create(p, n) \/ LinkNew(p, n), ~Stuck
      PROVE  NewOK(p)'
  BY <1>3, <1>6, NameMoves, CreateIs, LinkNewIs DEF Move
<1>7. ASSUME OpenLock(p) \/ NewLink(p) \/ LinkInc(p) \/ LinkNoParent(p) \/ LinkBad(p)
             \/ UnlinkDec(p) \/ UnlinkClear(p) \/ Close(p) \/ NewInode(p)
      PROVE  NewOK(p)'
  <2>1. pc'[p] \in {"user", "iput", "linkdir", "linkbad", "unlinkdec", "newlink"}
    BY <1>7, OpenLockIs, NewLinkIs, LinkIncIs, LinkNoParentIs, LinkBadIs, UnlinkDecIs,
       UnlinkClearIs, CloseIs, NewInodeIs DEF Move
  <2> QED
    BY <1>3, <2>1
<1>8. ASSUME (WriteAlloc(p) /\ ~Stuck) \/ WriteUpdate(p) \/ IputTest(p) \/ Itrunc(p)
             \/ ItruncUpdate(p) \/ Ifree(p) \/ IputDrop(p)
      PROVE  NewOK(p)'
  <2>1. pc'[p] \in {"wupdate", "itrunc", "tupdate", "ifree", "iputdrop", "user", "linkbad"}
    BY <1>8, WriteAllocIs, WriteUpdateIs, IputTestIs, ItruncIs, ItruncUpdateIs, IfreeIs,
       IputDropIs, Basics DEF Move, CallRec
  <2> QED
    BY <1>3, <2>1
<1> QED
  BY <1>1, <1>2, <1>4, <1>5, <1>6, <1>7, <1>8 DEF CallStep

\* A slot that q has locked: the others may take or drop a reference, no more.
LEMMA LockedAlone ==
  ASSUME IInv, NEW p \in Proc, Data(p), NEW q \in Proc, q # p, NEW s \in Slot, ilk[s] = q,
         icache[s].ref > 0
  PROVE  /\ icache'[s].copy = icache[s].copy
         /\ \/ icache'[s] = icache[s]
            \/ \E i \in Inum : Takes(p, i, s)
            \/ Drops(p, s)
<1>1. q # None
  BY Nones
<1>2. CASE Keeps(p) \/ \E i \in Inum : Allocates(p, i)
  BY <1>2 DEF Keeps, Allocates
<1>3. ASSUME NEW i \in Inum, NEW t \in Slot, Takes(p, i, t)
      PROVE  /\ icache'[s].copy = icache[s].copy
             /\ t # s => icache'[s] = icache[s]
  BY <1>3, TakesFile DEF OnlySlot
<1>4. ASSUME NEW t \in Slot, Drops(p, t)
      PROVE  /\ icache'[s].copy = icache[s].copy
             /\ t # s => icache'[s] = icache[s]
  BY <1>4 DEF Drops, OnlySlot
<1>5. ASSUME NEW t \in Slot,
             \/ Reads(p, t) \/ Frees(p, t)
             \/ \E d \in Dinode : \/ Changes(p, t, d) \/ Truncates(p, t, d)
                                  \/ \E b \in Block : Enters(p, t, b, d)
      PROVE  icache'[s] = icache[s]
  <2>1. ilk[t] \in {None, p} /\ OnlySlot(t)
    BY <1>5 DEF Reads, Frees, Changes, Truncates, Enters, CopySets, Writes
  <2> QED
    BY <1>1, <2>1 DEF OnlySlot
<1> QED
  BY <1>2, <1>3, <1>4, <1>5 DEF Data

\* Nobody takes a reference to an inode that is being freed, and nobody else drops one.
LEMMA FreeingAlone ==
  ASSUME IInv, NEW p \in Proc, Data(p), NEW q \in Proc, q # p, NEW s \in Slot, ilk[s] = q,
         call[q].put = s, icache[s].ref = 1, icache[s].copy # None, icache[s].copy.nlink = 0
  PROVE  icache'[s] = icache[s]
<1>1. ~Drops(p, s)
  BY Referred DEF Drops, IInv
<1>2. ASSUME NEW i \in Inum, Takes(p, i, s)
      PROVE  FALSE
  <2>1. icache[s].inum = i
    BY <1>2, TakesFile
  <2>2. dinode[i].nlink = 0
    BY <2>1, Basics DEF Synced
  <2>3. pc[p] = "iget" /\ i = call[p].inum
    BY <1>2, <2>2 DEF Takes
  <2>4. s \in Cached(i)
    BY <2>1 DEF Cached
  <2> QED
    BY <2>3, <2>4 DEF IInv, Calls, NewOK
<1>3. icache[s].ref > 0
  OBVIOUS
<1> QED
  BY <1>1, <1>2, <1>3, LockedAlone

LEMMA NextChangeOK ==
  ASSUME IInv, NEW p \in Proc, CallStep(p), NEW q \in Proc
  PROVE  ChangeOK(q)'
<1>1. ChangeOK(q) /\ ChangeOK(p)
  BY DEF IInv, Calls
<1>2. CASE Stuck
  BY <1>1, <1>2 DEF Stuck, ChangeOK
<1>3. ASSUME q # p, ~Stuck
      PROVE  ChangeOK(q)'
  <2>1. Data(p) /\ pc'[q] = pc[q] /\ call'[q] = call[q] /\ file'[q] = file[q]
    BY <1>3, DataSteps, OthersStay, Basics
  <2>2. ASSUME pc[q] = "wupdate"
        PROVE  icache'[file[q]].copy # None
    <3>1. PICK s \in Slot : s = file[q] /\ icache[s].ref > 0
      BY <2>2, Here
    <3>2. ilk[s] = q
      BY <2>2, <3>1, Basics DEF Locked, Holds
    <3>3. icache'[s].copy = icache[s].copy
      BY <1>3, <2>1, <3>1, <3>2, LockedAlone
    <3> QED
      BY <1>1, <2>2, <3>1, <3>3 DEF ChangeOK
  <2>3. ASSUME pc[q] \in {"itrunc", "tupdate", "ifree"}
        PROVE  icache'[call[q].put] = icache[call[q].put]
    <3>1. PICK s \in Slot : s = call[q].put /\ icache[s].ref > 0
      BY <2>3, Here DEF Putting
    <3>2. ilk[s] = q
      BY <2>3, <3>1, Basics DEF Locked, Holds
    <3>3. icache[s].ref = 1 /\ icache[s].copy # None /\ icache[s].copy.nlink = 0
      BY <1>1, <2>3, <3>1 DEF ChangeOK
    <3>4. icache'[s] = icache[s]
      BY <1>3, <2>1, <3>1, <3>2, <3>3, FreeingAlone
    <3> QED
      BY <3>1, <3>4
  <2> QED
    BY <1>1, <2>1, <2>2, <2>3 DEF ChangeOK
<1>4. ASSUME pc'[p] \notin {"wupdate", "itrunc", "tupdate", "ifree"}
      PROVE  ChangeOK(p)'
  BY <1>4 DEF ChangeOK
<1>5. ASSUME WriteAlloc(p), ~Stuck
      PROVE  ChangeOK(p)'
  <2>1. PICK s \in Slot, d \in Dinode :
           s = file[p] /\ CopySets(s, d) /\ Move(p, "user", "wupdate", call[p], file[p])
    BY <1>5, WriteAllocIs
  <2> QED
    BY <2>1, Nones DEF Move, CopySets, ChangeOK
<1>6. ASSUME IputTest(p)
      PROVE  ChangeOK(p)'
  <2>1. PICK s \in Slot :
           /\ s = call[p].put /\ icache' = icache
           /\ \/ LastReference(s) /\ Move(p, "iput", "itrunc", call[p], file[p])
              \/ Move(p, "iput", "iputdrop", call[p], file[p])
    BY <1>6, IputTestIs
  <2> QED
    BY <2>1 DEF Move, LastReference, ChangeOK
<1>7. ASSUME Itrunc(p)
      PROVE  ChangeOK(p)'
  <2>1. PICK s \in Slot, d \in Dinode :
            /\ s = call[p].put /\ icache[s].ref = 1
            /\ icache[s].copy \in Dinode /\ icache[s].copy.nlink = 0
            /\ d = [icache[s].copy EXCEPT !.addr = None] /\ CopySets(s, d)
            /\ Move(p, "itrunc", "tupdate", call[p], file[p])
    BY <1>7, ItruncIs
  <2>2. d.nlink = 0 /\ d.addr = None /\ d # None
    BY <2>1, Nones DEF Dinode
  <2>3. icache'[s].copy = d /\ icache'[s].ref = 1
    BY <2>1 DEF CopySets
  <2>4. pc'[p] = "tupdate" /\ call'[p].put = s
    BY <2>1 DEF Move
  <2> QED
    BY <2>2, <2>3, <2>4 DEF ChangeOK
<1>8. ASSUME ItruncUpdate(p)
      PROVE  ChangeOK(p)'
  <2>1. PICK s \in Slot :
            /\ s = call[p].put /\ icache[s].ref = 1
            /\ icache[s].copy \in Dinode /\ icache[s].copy.nlink = 0
            /\ icache[s].copy.addr = None
            /\ Writes(s, icache[s].copy)
            /\ Move(p, "tupdate", "ifree", call[p], file[p])
    BY <1>8, ItruncUpdateIs
  <2>2. icache'[s].copy = icache[s].copy /\ icache'[s].ref = 1 /\ icache[s].copy # None
    BY <2>1, Nones DEF Writes, CopySets
  <2>3. pc'[p] = "ifree" /\ call'[p].put = s
    BY <2>1 DEF Move
  <2> QED
    BY <2>1, <2>2, <2>3 DEF ChangeOK
<1>9. ASSUME NEW n \in Name, OpenName(p, n) \/ LinkOld(p, n) \/ LinkExists(p, n) \/ Unlink(p, n)
                             \/ Create(p, n) \/ LinkNew(p, n), ~Stuck
      PROVE  ChangeOK(p)'
  BY <1>4, <1>9, NameMoves, CreateIs, LinkNewIs DEF Move
<1>10. ASSUME \/ OpenLock(p) \/ NewLink(p) \/ LinkInc(p) \/ LinkNoParent(p) \/ LinkBad(p)
             \/ UnlinkDec(p) \/ UnlinkClear(p) \/ Close(p) \/ NewInode(p)
             \/ ((Ialloc(p) \/ IallocGet(p)) /\ ~Stuck)
      PROVE  ChangeOK(p)'
  <2>1. pc'[p] \in {"user", "iput", "linkdir", "linkbad", "unlinkdec", "newlink", "iget", "newinode"}
    BY <1>10, OpenLockIs, NewLinkIs, LinkIncIs, LinkNoParentIs, LinkBadIs, UnlinkDecIs,
       UnlinkClearIs, CloseIs, NewInodeIs, IallocIs, IallocGetIs DEF Move
  <2> QED
    BY <1>4, <2>1
<1>11. ASSUME WriteUpdate(p) \/ Ifree(p) \/ IputDrop(p)
       PROVE  ChangeOK(p)'
  <2>1. pc'[p] \in {"iputdrop", "user", "linkbad"}
    BY <1>11, WriteUpdateIs, IfreeIs, IputDropIs, Basics DEF Move, CallRec
  <2> QED
    BY <1>4, <2>1
<1> QED
  BY <1>2, <1>3, <1>5, <1>6, <1>7, <1>8, <1>9, <1>10, <1>11 DEF CallStep

(***************************************************************************)
(* The invariant, part by part: links.                                     *)
(***************************************************************************)
PendAt(p) == pc[p] \in {"newlink", "linkdir", "linkbad", "unlinkdec"} \/ call[p].next = "linkbad"

LEMMA PendingIs ==
  ASSUME NEW p \in Proc, NEW i
  PROVE  /\ p \in Pending(i) <=> PendAt(p) /\ icache[call[p].ip].inum = i
         /\ p \in Pending(i)' <=> PendAt(p)' /\ icache'[call'[p].ip].inum = i
BY DEF Pending, PendAt

LEMMA PendingOthers ==
  ASSUME IInv, NEW p \in Proc, CallStep(p), NEW i
  PROVE  /\ \A q : q # p => (q \in Pending(i) <=> q \in Pending(i)')
         /\ IsFiniteSet(Pending(i)') /\ IsFiniteSet(Names(i)')
<1>1. ASSUME NEW q \in Proc, q # p
      PROVE  q \in Pending(i) <=> q \in Pending(i)'
  <2>1. pc'[q] = pc[q] /\ call'[q] = call[q]
    BY <1>1, OthersStay, Basics
  <2>2. PendAt(q) <=> PendAt(q)'
    BY <2>1 DEF PendAt
  <2>3. PendAt(q) => icache'[call[q].ip].inum = icache[call[q].ip].inum
    <3>1. PendAt(q) => call[q].ip \in Slot /\ icache[call[q].ip].ref > 0
      BY Here DEF PendAt, WithIp
    <3>2. CASE Stuck
      BY <3>2 DEF Stuck
    <3>3. CASE Data(p)
      BY <3>1, <3>3, NextData
    <3> QED
      BY <3>2, <3>3, DataSteps
  <2> QED
    BY <2>1, <2>2, <2>3, PendingIs
<1>2. Pending(i) \subseteq Proc /\ Pending(i)' \subseteq Proc /\ Names(i)' \subseteq Name
  BY DEF Pending, Names
<1> QED
  BY <1>1, <1>2, InodeAssumption, FS_Subset

\* The names, the calls on their way and the count of an inode change together.
LEMMA LinkStep ==
  ASSUME IInv, NEW p \in Proc, CallStep(p), NEW i \in Inum, NEW x \in Int,
         Cardinality(Names(i)') = Cardinality(Names(i)) + x,
         dinode'[i].nlink + One(p \in Pending(i)) = dinode[i].nlink + x + One(p \in Pending(i)')
  PROVE  dinode'[i].nlink = Cardinality(Names(i)') + Cardinality(Pending(i)')
<1>1. Cardinality(Pending(i)') + One(p \in Pending(i)) = Cardinality(Pending(i)) + One(p \in Pending(i)')
  BY PendingOthers, LinkCounts, CountMove
<1>2. dinode[i].nlink = Cardinality(Names(i)) + Cardinality(Pending(i))
  BY DEF IInv, Links
<1>3. dinode'[i].nlink \in Nat
  BY NextType, RecordTypes DEF TypeOK
<1>4. PICK a \in Nat : a = Cardinality(Names(i))
  BY LinkCounts
<1>5. PICK b \in Nat : b = Cardinality(Pending(i))
  BY LinkCounts
<1>6. PICK c \in Nat : c = Cardinality(Pending(i)')
  BY PendingOthers, FS_CardinalityType
<1>7. PICK k \in Nat : k = dinode'[i].nlink
  BY <1>3
<1>8. PICK y \in {0, 1} : y = One(p \in Pending(i))
  BY DEF One
<1>9. PICK z \in {0, 1} : z = One(p \in Pending(i)')
  BY DEF One
<1>10. c + y = b + z
  BY <1>1, <1>5, <1>6, <1>8, <1>9
<1>11. k + y = (a + b) + x + z
  BY <1>2, <1>4, <1>5, <1>7, <1>8, <1>9
<1>12. k = (a + x) + c
  BY <1>10, <1>11
<1> QED
  BY <1>4, <1>6, <1>7, <1>12

LEMMA LinksSame ==
  ASSUME IInv, NEW p \in Proc, CallStep(p), NEW i \in Inum,
         Names(i)' = Names(i), dinode'[i].nlink = dinode[i].nlink,
         p \in Pending(i)' <=> p \in Pending(i)
  PROVE  dinode'[i].nlink = Cardinality(Names(i)') + Cardinality(Pending(i)')
<1>1. PICK y \in {0, 1} : y = One(p \in Pending(i)) /\ y = One(p \in Pending(i)')
  BY DEF One
<1>2. PICK k \in Nat : k = dinode[i].nlink
  BY Types, Basics, RecordTypes
<1>3. PICK a \in Nat : a = Cardinality(Names(i))
  BY LinkCounts
<1>4. k + y = k + 0 + y /\ a = a + 0
  OBVIOUS
<1> QED
  BY <1>1, <1>2, <1>3, <1>4, LinkStep

\* The names of an inode, when an entry of the directory is made or cleared.
LEMMA NamesIs ==
  ASSUME IInv, NEW n \in Name, NEW v \in Inum \cup {None}, NameSet(n, v), NEW i \in Inum
  PROVE  /\ v # i /\ dir[n] # i => Names(i)' = Names(i)
         /\ v = i /\ dir[n] # i => Cardinality(Names(i)') = Cardinality(Names(i)) + 1
         /\ v # i /\ dir[n] = i => Cardinality(Names(i)') = Cardinality(Names(i)) + (-1)
<1>1. \A m \in Name : /\ m \in Names(i) <=> dir[m] = i
                      /\ m \in Names(i)' <=> dir'[m] = i
  BY DEF Names
<1>2. Names(i) \subseteq Name /\ Names(i)' \subseteq Name
  BY DEF Names
<1>3. dir'[n] = v /\ \A m \in Name : m # n => dir'[m] = dir[m]
  BY DEF NameSet
<1>4. v # i /\ dir[n] # i => Names(i)' = Names(i)
  BY <1>1, <1>2, <1>3
<1>5. ASSUME v = i, dir[n] # i
      PROVE  Cardinality(Names(i)') = Cardinality(Names(i)) + 1
  <2>1. Names(i)' = Names(i) \cup {n} /\ n \notin Names(i)
    BY <1>1, <1>2, <1>3, <1>5
  <2> QED
    BY <2>1, LinkCounts, CountPlus
<1>6. ASSUME v # i, dir[n] = i
      PROVE  Cardinality(Names(i)') = Cardinality(Names(i)) + (-1)
  <2>1. Names(i)' = Names(i) \ {n} /\ n \in Names(i)
    BY <1>1, <1>2, <1>3, <1>6
  <2>2. Cardinality(Names(i) \ {n}) = Cardinality(Names(i)) - 1 /\ Cardinality(Names(i)) \in Nat
    BY <2>1, LinkCounts, CountMinus
  <2> QED
    BY <2>1, <2>2
<1> QED
  BY <1>4, <1>5, <1>6

\* A step that makes, breaks or counts no link.
LEMMA LinksQuiet ==
  ASSUME IInv, NEW p \in Proc, CallStep(p), dir' = dir,
         \A i \in Inum : dinode'[i].nlink = dinode[i].nlink,
         PendAt(p)' <=> PendAt(p), PendAt(p) => call'[p].ip = call[p].ip
  PROVE  Links'
<1> SUFFICES ASSUME NEW i \in Inum
             PROVE  dinode'[i].nlink = Cardinality(Names(i)') + Cardinality(Pending(i)')
  BY DEF Links
<1>1. Names(i)' = Names(i)
  BY DEF Names
<1>2. PendAt(p) => icache'[call[p].ip].inum = icache[call[p].ip].inum
  <2>1. PendAt(p) => call[p].ip \in Slot /\ icache[call[p].ip].ref > 0
    BY Here DEF PendAt, WithIp
  <2>2. CASE Stuck
    BY <2>2 DEF Stuck
  <2>3. CASE Data(p)
    BY <2>1, <2>3, NextData
  <2> QED
    BY <2>2, <2>3, DataSteps
<1>3. p \in Pending(i)' <=> p \in Pending(i)
  BY <1>2, PendingIs
<1> QED
  BY <1>1, <1>3, LinksSame

\* A step that counts one link more, or one less.
LEMMA LinksCount ==
  ASSUME IInv, NEW p \in Proc, CallStep(p), dir' = dir, NEW s \in Slot, s = call[p].ip,
         icache[s].ref > 0, NEW d \in Dinode, Writes(s, d),
         \/ /\ ~PendAt(p) /\ PendAt(p)' /\ call'[p].ip = s
            /\ d.nlink = dinode[icache[s].inum].nlink + 1
         \/ /\ PendAt(p) /\ ~PendAt(p)'
            /\ d.nlink = dinode[icache[s].inum].nlink - 1
  PROVE  Links'
<1> SUFFICES ASSUME NEW i \in Inum
             PROVE  dinode'[i].nlink = Cardinality(Names(i)') + Cardinality(Pending(i)')
  BY DEF Links
<1>1. Names(i)' = Names(i)
  BY DEF Names
<1>2. PICK j \in Inum : j = icache[s].inum
  BY Basics DEF OneSlot
<1>3. icache'[s].inum = j /\ OnlyInode(j) /\ dinode'[j] = d
  BY <1>2 DEF Writes, CopySets
<1>4. /\ p \in Pending(i) <=> PendAt(p) /\ i = j
      /\ call'[p].ip = s => (p \in Pending(i)' <=> PendAt(p)' /\ i = j)
      /\ ~PendAt(p)' => p \notin Pending(i)'
  BY <1>2, <1>3, PendingIs
<1>5. CASE i # j
  <2>1. p \notin Pending(i) /\ p \notin Pending(i)'
    BY <1>4, <1>5
  <2> QED
    BY <1>1, <1>3, <1>5, <2>1, LinksSame DEF OnlyInode
<1>6. CASE i = j
  <2>1. PICK k \in Nat : k = dinode[i].nlink
    BY Types, Basics, RecordTypes
  <2>2. PICK a \in Nat : a = Cardinality(Names(i))
    BY LinkCounts
  <2>3. CASE /\ ~PendAt(p) /\ PendAt(p)' /\ call'[p].ip = s
             /\ d.nlink = dinode[icache[s].inum].nlink + 1
    <3>1. One(p \in Pending(i)) = 0 /\ One(p \in Pending(i)') = 1
      BY <1>4, <1>6, <2>3 DEF One
    <3>2. dinode'[i].nlink = k + 1
      BY <1>2, <1>3, <1>6, <2>1, <2>3
    <3>3. (k + 1) + 0 = k + 0 + 1 /\ a = a + 0
      OBVIOUS
    <3> QED
      BY <1>1, <2>1, <2>2, <3>1, <3>2, <3>3, LinkStep
  <2>4. CASE /\ PendAt(p) /\ ~PendAt(p)'
             /\ d.nlink = dinode[icache[s].inum].nlink - 1
    <3>1. One(p \in Pending(i)) = 1 /\ One(p \in Pending(i)') = 0
      BY <1>4, <1>6, <2>4 DEF One
    <3>2. dinode'[i].nlink = k - 1
      BY <1>2, <1>3, <1>6, <2>1, <2>4
    <3>3. (k - 1) + 1 = k + 0 + 0 /\ a = a + 0
      OBVIOUS
    <3> QED
      BY <1>1, <2>1, <2>2, <3>1, <3>2, <3>3, LinkStep
  <2> QED
    BY <2>3, <2>4
<1> QED
  BY <1>5, <1>6

\* A step that makes an entry that is counted, or clears one that is still counted.
LEMMA LinksEntry ==
  ASSUME IInv, NEW p \in Proc, CallStep(p), NEW s \in Slot, s = call[p].ip,
         icache[s].ref > 0, icache'[s].inum = icache[s].inum, dinode' = dinode, NEW n \in Name,
         \/ /\ PendAt(p) /\ ~PendAt(p)'
            /\ dir[n] = None /\ NameSet(n, icache[s].inum)
         \/ /\ ~PendAt(p) /\ PendAt(p)' /\ call'[p].ip = s
            /\ dir[n] = icache[s].inum /\ NameSet(n, None)
  PROVE  Links'
<1> SUFFICES ASSUME NEW i \in Inum
             PROVE  dinode'[i].nlink = Cardinality(Names(i)') + Cardinality(Pending(i)')
  BY DEF Links
<1>1. PICK j \in Inum : j = icache[s].inum
  BY Basics DEF OneSlot
<1>2. i # None /\ j # None
  BY Nones
<1>3. PICK k \in Nat : k = dinode[i].nlink /\ k = dinode'[i].nlink
  BY Types, Basics, RecordTypes
<1>4. PICK a \in Nat : a = Cardinality(Names(i))
  BY LinkCounts
<1>5. CASE PendAt(p) /\ ~PendAt(p)' /\ dir[n] = None /\ NameSet(n, j)
  <2>1. /\ p \in Pending(i) <=> i = j
        /\ p \notin Pending(i)'
    BY <1>1, <1>5, PendingIs
  <2>2. CASE i # j
    BY <1>2, <1>3, <1>5, <2>1, <2>2, NamesIs, LinksSame
  <2>3. CASE i = j
    <3>1. One(p \in Pending(i)) = 1 /\ One(p \in Pending(i)') = 0
      BY <2>1, <2>3 DEF One
    <3>2. Cardinality(Names(i)') = a + 1
      BY <1>2, <1>4, <1>5, <2>3, NamesIs
    <3>3. k + 1 = k + 1 + 0
      OBVIOUS
    <3> QED
      BY <1>3, <1>4, <3>1, <3>2, <3>3, LinkStep
  <2> QED
    BY <2>2, <2>3
<1>6. CASE ~PendAt(p) /\ PendAt(p)' /\ call'[p].ip = s /\ dir[n] = j /\ NameSet(n, None)
  <2>1. /\ p \notin Pending(i)
        /\ p \in Pending(i)' <=> i = j
    BY <1>1, <1>6, PendingIs
  <2>2. CASE i # j
    BY <1>2, <1>3, <1>6, <2>1, <2>2, NamesIs, LinksSame
  <2>3. CASE i = j
    <3>1. One(p \in Pending(i)) = 0 /\ One(p \in Pending(i)') = 1
      BY <2>1, <2>3 DEF One
    <3>2. Cardinality(Names(i)') = a + (-1)
      BY <1>2, <1>4, <1>6, <2>3, NamesIs
    <3>3. k + 0 = k + (-1) + 1
      OBVIOUS
    <3> QED
      BY <1>3, <1>4, <3>1, <3>2, <3>3, LinkStep
  <2> QED
    BY <2>2, <2>3
<1> QED
  BY <1>1, <1>5, <1>6

PendLabels == {"newlink", "linkdir", "linkbad", "unlinkdec"}

LEMMA PendMove ==
  ASSUME NEW p, NEW l, NEW m, NEW c, NEW f, Move(p, l, m, c, f)
  PROVE  /\ PendAt(p) <=> l \in PendLabels \/ call[p].next = "linkbad"
         /\ PendAt(p)' <=> m \in PendLabels \/ c.next = "linkbad"
         /\ call'[p].ip = c.ip
BY DEF Move, PendAt, PendLabels

\* The steps that leave the count of every inode as it is.
LEMMA SameCount ==
  ASSUME IInv, NEW p \in Proc,
         \/ dinode' = dinode
         \/ Ialloc(p) \/ WriteUpdate(p) \/ ItruncUpdate(p) \/ Ifree(p)
  PROVE  \A i \in Inum : dinode'[i].nlink = dinode[i].nlink
<1>1. /\ TypeOK /\ OneSlot /\ Synced /\ FreeOK
  BY DEF IInv
<1>2. CASE dinode' = dinode \/ Stuck
  BY <1>2 DEF Stuck
<1>3. CASE Ialloc(p)
  <2>1. PICK i : /\ dinode[i].type = "free" /\ OnlyInode(i) /\ dinode'[i] = Fresh
        \/ Stuck
    BY <1>3, IallocIs
  <2>2. CASE ~Stuck
    <3>1. i \in Inum => dinode[i] = FreeInode
      BY <1>1, <2>1, <2>2 DEF FreeOK
    <3>2. Fresh.nlink = FreeInode.nlink
      BY DEF Fresh, FreeInode
    <3> QED
      BY <2>1, <2>2, <3>1, <3>2 DEF OnlyInode
  <2> QED
    BY <1>2, <2>2
<1>4. CASE WriteUpdate(p) \/ ItruncUpdate(p)
  <2>1. PICK s \in Slot : /\ icache[s].ref > 0 /\ icache[s].copy \in Dinode
                          /\ Writes(s, icache[s].copy)
    BY <1>4, WriteUpdateIs, ItruncUpdateIs
  <2>2. icache[s].copy.nlink = dinode[icache[s].inum].nlink
    BY <1>1, <2>1, Nones DEF Synced
  <2> QED
    BY <2>1, <2>2 DEF Writes, OnlyInode
<1>5. CASE Ifree(p)
  <2>1. PICK s \in Slot :
           /\ icache[s].ref = 1 /\ icache[s].copy \in Dinode /\ icache[s].copy.nlink = 0
           /\ OnlyInode(icache[s].inum) /\ dinode'[icache[s].inum] = FreeInode
    BY <1>5, IfreeIs
  <2>2. dinode[icache[s].inum].nlink = 0
    BY <1>1, <2>1, Nones DEF Synced
  <2>3. FreeInode.nlink = 0
    BY DEF FreeInode
  <2> QED
    BY <2>1, <2>2, <2>3 DEF OnlyInode
<1> QED
  BY <1>2, <1>3, <1>4, <1>5

LEMMA LinksStay ==
  ASSUME IInv, NEW p \in Proc, CallStep(p),
         \/ \E n \in Name : OpenName(p, n) \/ Create(p, n) \/ LinkOld(p, n) \/ LinkExists(p, n)
                            \/ Unlink(p, n)
         \/ OpenLock(p) \/ Ialloc(p) \/ IallocGet(p) \/ LinkNoParent(p)
         \/ WriteAlloc(p) \/ WriteUpdate(p) \/ Close(p)
         \/ IputTest(p) \/ Itrunc(p) \/ ItruncUpdate(p) \/ Ifree(p) \/ IputDrop(p)
  PROVE  Links'
<1>1. pc[p] \notin Putting => call[p].next = "user"
  BY Here
<1>2. Stuck => dir' = dir /\ dinode' = dinode /\ pc' = pc /\ call' = call
  BY DEF Stuck
<1>3. CASE Stuck
  <2>1. PendAt(p)' <=> PendAt(p)
    BY <1>2, <1>3 DEF PendAt
  <2> QED
    BY <1>2, <1>3, <2>1, LinksQuiet
<1>4. ASSUME NEW n \in Name, OpenName(p, n) \/ LinkOld(p, n) \/ LinkExists(p, n) \/ Unlink(p, n),
             ~Stuck
      PROVE  Links'
  <2>1. PICK s \in Slot :
           /\ UNCHANGED <<dinode, dir>>
           /\ \/ Move(p, "user", "ilock", Call(None, None, s, None, "user"), None)
              \/ Move(p, "user", "linkinc", Call(None, None, s, None, "user"), file[p])
              \/ Move(p, "linkdir", "iput", Call(None, None, call[p].ip, s, "linkbad"), file[p])
              \/ Move(p, "user", "unlink", Call(n, None, s, None, "user"), file[p])
    BY <1>4, NameMoves
  <2>2. (PendAt(p)' <=> PendAt(p)) /\ (PendAt(p) => call'[p].ip = call[p].ip)
    <3>1. CASE \/ Move(p, "user", "ilock", Call(None, None, s, None, "user"), None)
               \/ Move(p, "user", "linkinc", Call(None, None, s, None, "user"), file[p])
               \/ Move(p, "user", "unlink", Call(n, None, s, None, "user"), file[p])
      <4>1. pc[p] = "user"
        BY <3>1 DEF Move
      <4>2. ~PendAt(p) /\ ~PendAt(p)'
        BY <1>1, <3>1, <4>1, PendMove, CallFields DEF PendLabels, Putting
      <4> QED
        BY <4>2
    <3>2. CASE Move(p, "linkdir", "iput", Call(None, None, call[p].ip, s, "linkbad"), file[p])
      BY <3>2, PendMove, CallFields DEF PendLabels
    <3> QED
      BY <2>1, <3>1, <3>2
  <2> QED
    BY <2>1, <2>2, LinksQuiet
<1>5. ASSUME NEW n \in Name, Create(p, n)
      PROVE  Links'
  <2>1. /\ Move(p, "user", "ialloc", Call(n, None, None, None, "user"), None)
        /\ UNCHANGED <<dinode, dir>>
    BY <1>5, CreateIs
  <2>2. ~PendAt(p) /\ ~PendAt(p)'
    BY <1>1, <2>1, PendMove, CallFields DEF PendLabels, Putting, Move
  <2> QED
    BY <2>1, <2>2, LinksQuiet
<1>6. CASE OpenLock(p)
  <2>1. PICK s \in Slot : /\ UNCHANGED <<dinode, dir>>
                          /\ Move(p, "ilock", "user", NoCall, s) \/
                               Move(p, "ilock", "iput", WithPut(s), file[p])
    BY <1>6, OpenLockIs
  <2>2. pc[p] = "ilock"
    BY <2>1 DEF Move
  <2>3. ~PendAt(p) /\ ~PendAt(p)'
    BY <1>1, <2>1, <2>2, PendMove, CallFields DEF PendLabels, Putting
  <2> QED
    BY <2>1, <2>3, LinksQuiet
<1>7. CASE Ialloc(p) /\ ~Stuck
  <2>1. PICK i \in Inum :
           /\ Move(p, "ialloc", "iget", Call(call[p].name, i, None, None, "user"), file[p])
           /\ dir' = dir
    BY <1>7, IallocIs
  <2>2. ~PendAt(p) /\ ~PendAt(p)'
    BY <1>1, <2>1, PendMove, CallFields DEF PendLabels, Putting, Move
  <2> QED
    BY <1>7, <2>1, <2>2, SameCount, LinksQuiet
<1>8. CASE IallocGet(p) /\ ~Stuck
  <2>1. PICK s \in Slot :
           /\ Move(p, "iget", "newinode", Call(call[p].name, None, s, None, "user"), file[p])
           /\ UNCHANGED <<dinode, dir>>
    BY <1>8, IallocGetIs
  <2>2. ~PendAt(p) /\ ~PendAt(p)'
    BY <1>1, <2>1, PendMove, CallFields DEF PendLabels, Putting, Move
  <2> QED
    BY <2>1, <2>2, LinksQuiet
<1>9. CASE LinkNoParent(p)
  <2>1. /\ Move(p, "linkdir", "linkbad", call[p], file[p])
        /\ UNCHANGED <<dinode, dir>>
    BY <1>9, LinkNoParentIs
  <2>2. (PendAt(p)' <=> PendAt(p)) /\ (PendAt(p) => call'[p].ip = call[p].ip)
    BY <2>1, PendMove DEF PendLabels
  <2> QED
    BY <2>1, <2>2, LinksQuiet
<1>10. CASE WriteAlloc(p) /\ ~Stuck
  <2>1. /\ Move(p, "user", "wupdate", call[p], file[p])
        /\ UNCHANGED <<dinode, dir>>
    BY <1>10, WriteAllocIs
  <2>2. ~PendAt(p) /\ ~PendAt(p)'
    BY <1>1, <2>1, PendMove DEF PendLabels, Putting, Move
  <2> QED
    BY <2>1, <2>2, LinksQuiet
<1>11. CASE WriteUpdate(p)
  <2>1. Move(p, "wupdate", "user", call[p], file[p]) /\ dir' = dir
    BY <1>11, WriteUpdateIs
  <2>2. ~PendAt(p) /\ ~PendAt(p)'
    BY <1>1, <2>1, PendMove DEF PendLabels, Putting, Move
  <2> QED
    BY <1>11, <2>1, <2>2, SameCount, LinksQuiet
<1>12. CASE Close(p)
  <2>1. PICK s \in Slot : Move(p, "user", "iput", WithPut(s), None) /\ UNCHANGED <<dinode, dir>>
    BY <1>12, CloseIs
  <2>2. ~PendAt(p) /\ ~PendAt(p)'
    BY <1>1, <2>1, PendMove, CallFields DEF PendLabels, Putting, Move
  <2> QED
    BY <2>1, <2>2, LinksQuiet
<1>13. CASE IputTest(p)
  <2>1. /\ Move(p, "iput", "itrunc", call[p], file[p]) \/
             Move(p, "iput", "iputdrop", call[p], file[p])
        /\ UNCHANGED <<dinode, dir>>
    BY <1>13, IputTestIs
  <2>2. (PendAt(p)' <=> PendAt(p)) /\ (PendAt(p) => call'[p].ip = call[p].ip)
    BY <2>1, PendMove DEF PendLabels
  <2> QED
    BY <2>1, <2>2, LinksQuiet
<1>14. CASE Itrunc(p) \/ ItruncUpdate(p)
  <2>1. /\ \/ Move(p, "itrunc", "tupdate", call[p], file[p]) /\ dinode' = dinode
           \/ Move(p, "tupdate", "ifree", call[p], file[p]) /\ ItruncUpdate(p)
        /\ dir' = dir
    BY <1>14, ItruncIs, ItruncUpdateIs
  <2>2. (PendAt(p)' <=> PendAt(p)) /\ (PendAt(p) => call'[p].ip = call[p].ip)
    BY <2>1, PendMove DEF PendLabels
  <2> QED
    BY <1>14, <2>1, <2>2, SameCount, LinksQuiet
<1>15. CASE Ifree(p)
  <2>1. Move(p, "ifree", "iputdrop", call[p], file[p]) /\ dir' = dir
    BY <1>15, IfreeIs
  <2>2. (PendAt(p)' <=> PendAt(p)) /\ (PendAt(p) => call'[p].ip = call[p].ip)
    BY <2>1, PendMove DEF PendLabels
  <2> QED
    BY <1>15, <2>1, <2>2, SameCount, LinksQuiet
<1>16. CASE IputDrop(p)
  <2>1. /\ Move(p, "iputdrop", call[p].next,
                Call(call[p].name, call[p].inum, call[p].ip, None, "user"), file[p])
        /\ UNCHANGED <<dinode, dir>>
    BY <1>16, IputDropIs
  <2>2. call[p].next \in {"user", "linkbad"}
    BY Basics DEF CallRec
  <2>3. (PendAt(p)' <=> PendAt(p)) /\ (PendAt(p) => call'[p].ip = call[p].ip)
    BY <2>1, <2>2, PendMove, CallFields DEF PendLabels
  <2> QED
    BY <2>1, <2>3, LinksQuiet
<1> QED
  BY <1>3, <1>4, <1>5, <1>6, <1>7, <1>8, <1>9, <1>10, <1>11, <1>12, <1>13, <1>14, <1>15, <1>16

\* Every link is counted, before it is made and until it is cleared.
LEMMA NextLinks ==
  ASSUME IInv, NEW p \in Proc, CallStep(p)
  PROVE  Links'
<1>1. pc[p] \notin Putting => call[p].next = "user"
  BY Here
<1>2. CASE NewInode(p)
  <2>1. PICK s \in Slot, d \in Dinode :
           /\ s = call[p].ip /\ icache[s].ref > 0 /\ Works(p, s) /\ ilk[s] = None
           /\ d = [Copy(s) EXCEPT !.nlink = 1] /\ Writes(s, d)
           /\ Move(p, "newinode", "newlink", call[p], file[p])
           /\ dir' = dir
    BY <1>2, NewInodeIs
  <2>2. pc[p] = "newinode"
    BY <2>1 DEF Move
  <2>3. dinode[icache[s].inum].nlink = 0
    BY <2>1, <2>2 DEF IInv, Calls, NewOK, Fresh, FreeInode
  <2>4. d.nlink = dinode[icache[s].inum].nlink + 1
    BY <2>1, <2>3, Busy, LinkSet
  <2>5. ~PendAt(p) /\ PendAt(p)' /\ call'[p].ip = s
    BY <1>1, <2>1, <2>2, PendMove DEF PendLabels, Putting
  <2> QED
    BY <2>1, <2>4, <2>5, LinksCount
<1>3. CASE LinkInc(p)
  <2>1. PICK s \in Slot, d \in Dinode :
           /\ s = call[p].ip /\ icache[s].ref > 0 /\ Works(p, s) /\ ilk[s] = None
           /\ d = [Copy(s) EXCEPT !.nlink = Copy(s).nlink + 1] /\ Writes(s, d)
           /\ Move(p, "linkinc", "linkdir", call[p], file[p])
           /\ dir' = dir
    BY <1>3, LinkIncIs
  <2>2. d.nlink = dinode[icache[s].inum].nlink + 1
    BY <2>1, Busy, LinkSet
  <2>3. ~PendAt(p) /\ PendAt(p)' /\ call'[p].ip = s
    BY <1>1, <2>1, PendMove DEF PendLabels, Putting, Move
  <2> QED
    BY <2>1, <2>2, <2>3, LinksCount
<1>4. CASE LinkBad(p) \/ UnlinkDec(p)
  <2>1. PICK s \in Slot, d \in Dinode :
           /\ s = call[p].ip /\ icache[s].ref > 0 /\ Works(p, s)
           /\ d = [Copy(s) EXCEPT !.nlink = Copy(s).nlink - 1] /\ Writes(s, d)
           /\ \/ Move(p, "linkbad", "iput", WithPut(s), file[p])
              \/ Move(p, "unlinkdec", "iput", WithPut(s), file[p])
           /\ dir' = dir
    BY <1>4, LinkBadIs, UnlinkDecIs
  <2>2. d.nlink = dinode[icache[s].inum].nlink - 1
    BY <2>1, Busy, LinkSet
  <2>3. PendAt(p) /\ ~PendAt(p)'
    BY <2>1, PendMove, CallFields DEF PendLabels
  <2> QED
    BY <2>1, <2>2, <2>3, LinksCount
<1>5. CASE NewLink(p)
  <2>1. PICK s \in Slot :
           /\ s = call[p].ip /\ icache[s].ref > 0
           /\ call[p].name \in Name /\ NameSet(call[p].name, icache[s].inum)
           /\ UNCHANGED <<icache, dinode>>
           /\ \/ Move(p, "newlink", "user", NoCall, s)
              \/ Move(p, "newlink", "iput", WithPut(s), file[p])
    BY <1>5, NewLinkIs
  <2>2. pc[p] = "newlink"
    BY <2>1 DEF Move
  <2>3. dir[call[p].name] = None
    BY <2>2 DEF IInv, Calls, Entry, Creating
  <2>4. PendAt(p) /\ ~PendAt(p)'
    BY <2>1, PendMove, CallFields DEF PendLabels
  <2> QED
    BY <2>1, <2>3, <2>4, LinksEntry
<1>6. ASSUME NEW n \in Name, LinkNew(p, n)
      PROVE  Links'
  <2>1. PICK s \in Slot :
           /\ s = call[p].ip /\ icache[s].ref > 0 /\ dir[n] = None
           /\ NameSet(n, icache[s].inum)
           /\ Move(p, "linkdir", "iput", WithPut(s), file[p])
           /\ UNCHANGED <<icache, dinode>>
    BY <1>6, LinkNewIs
  <2>2. PendAt(p) /\ ~PendAt(p)'
    BY <2>1, PendMove, CallFields DEF PendLabels
  <2> QED
    BY <2>1, <2>2, LinksEntry
<1>7. CASE UnlinkClear(p)
  <2>1. PICK s \in Slot :
           /\ s = call[p].ip /\ icache[s].ref > 0 /\ CopySets(s, Copy(s))
           /\ call[p].name \in Name /\ dir[call[p].name] = icache[s].inum
           /\ NameSet(call[p].name, None)
           /\ Move(p, "unlink", "unlinkdec", call[p], file[p])
           /\ dinode' = dinode
    BY <1>7, UnlinkClearIs
  <2>2. ~PendAt(p) /\ PendAt(p)' /\ call'[p].ip = s
    BY <1>1, <2>1, PendMove DEF PendLabels, Putting, Move
  <2>3. icache'[s].inum = icache[s].inum
    BY <2>1 DEF CopySets
  <2> QED
    BY <2>1, <2>2, <2>3, LinksEntry
<1> QED
  BY <1>2, <1>3, <1>4, <1>5, <1>6, <1>7, LinksStay DEF CallStep

(***************************************************************************)
(* Blocks.                                                                 *)
(***************************************************************************)
SlotOf(ic, i, s) == ic[s].ref > 0 /\ ic[s].inum = i
AddrOf(ic, dn, i) ==
    IF \E s \in {t \in Slot : SlotOf(ic, i, t)} : ic[s].copy # None
    THEN (CHOOSE c \in {ic[s].copy : s \in {t \in Slot : SlotOf(ic, i, t)}} : TRUE).addr
    ELSE dn[i].addr

\* Addr(i) is that of the inode's slot, if it has one.
LEMMA AddrOfIs ==
  ASSUME NEW ic \in [Slot -> SlotRec], NEW dn \in [Inum -> Dinode], NEW i \in Inum,
         \A s, t \in Slot : SlotOf(ic, i, s) /\ SlotOf(ic, i, t) => s = t
  PROVE  /\ \A s \in Slot : SlotOf(ic, i, s) =>
               AddrOf(ic, dn, i) = (IF ic[s].copy # None THEN ic[s].copy ELSE dn[i]).addr
         /\ (\A s \in Slot : ~SlotOf(ic, i, s)) => AddrOf(ic, dn, i) = dn[i].addr
<1> DEFINE C == {t \in Slot : SlotOf(ic, i, t)}
<1>1. ASSUME NEW s \in Slot, SlotOf(ic, i, s)
      PROVE  AddrOf(ic, dn, i) = (IF ic[s].copy # None THEN ic[s].copy ELSE dn[i]).addr
  <2>1. C = {s}
    BY <1>1
  <2>2. CASE ic[s].copy = None
    BY <2>1, <2>2 DEF AddrOf
  <2>3. CASE ic[s].copy # None
    <3>1. {ic[t].copy : t \in C} = {ic[s].copy}
      BY <2>1
    <3>2. (CHOOSE c \in {ic[s].copy} : TRUE) = ic[s].copy
      OBVIOUS
    <3>3. \E t \in C : ic[t].copy # None
      BY <2>1, <2>3
    <3> QED
      BY <2>3, <3>1, <3>2, <3>3 DEF AddrOf
  <2> QED
    BY <2>2, <2>3
<1>2. ASSUME \A s \in Slot : ~SlotOf(ic, i, s)
      PROVE  AddrOf(ic, dn, i) = dn[i].addr
  BY <1>2 DEF AddrOf
<1> QED
  BY <1>1, <1>2

LEMMA AddrNext ==
  ASSUME IInv, NEW p \in Proc, CallStep(p), NEW i \in Inum
  PROVE  /\ \A s \in Slot : icache'[s].ref > 0 /\ icache'[s].inum = i => Addr(i)' = Copy(s)'.addr
         /\ (\A s \in Slot : ~(icache'[s].ref > 0 /\ icache'[s].inum = i)) =>
               Addr(i)' = dinode'[i].addr
<1>1. icache' \in [Slot -> SlotRec] /\ dinode' \in [Inum -> Dinode]
  BY NextType DEF TypeOK, SlotRec
<1>2. \A s, t \in Slot : SlotOf(icache', i, s) /\ SlotOf(icache', i, t) => s = t
  BY NextOneSlot DEF OneSlot, SlotOf
<1>3. Addr(i)' = AddrOf(icache', dinode', i)
  BY DEF Addr, AddrOf, Cached, SlotOf
<1>4. \A s \in Slot : icache'[s].inum = i =>
         Copy(s)' = IF icache'[s].copy # None THEN icache'[s].copy ELSE dinode'[i]
  BY DEF Copy
<1> QED
  BY <1>1, <1>2, <1>3, <1>4, AddrOfIs DEF SlotOf

\* An inode whose slot and whose block stay.
LEMMA AddrStays ==
  ASSUME IInv, NEW p \in Proc, CallStep(p), NEW i \in Inum,
         \A t \in Slot : icache'[t].ref > 0 /\ icache'[t].inum = i <=>
                            icache[t].ref > 0 /\ icache[t].inum = i,
         \A t \in Slot : icache[t].ref > 0 /\ icache[t].inum = i =>
            Copy(t)'.addr = Copy(t).addr,
         (\A t \in Slot : ~(icache[t].ref > 0 /\ icache[t].inum = i)) =>
            dinode'[i].addr = dinode[i].addr
  PROVE  Addr(i)' = Addr(i)
<1>1. CASE \E t \in Slot : icache[t].ref > 0 /\ icache[t].inum = i
  BY <1>1, AddrIs, AddrNext
<1>2. CASE \A t \in Slot : ~(icache[t].ref > 0 /\ icache[t].inum = i)
  BY <1>2, AddrIs, AddrNext
<1> QED
  BY <1>1, <1>2

\* A step that touches slot s only, and no inode on the disk but that of s.
LEMMA OtherAddrs ==
  ASSUME IInv, NEW p \in Proc, CallStep(p), NEW s \in Slot, icache[s].ref > 0,
         OnlySlot(s), icache'[s].inum = icache[s].inum,
         dinode' = dinode \/ OnlyInode(icache[s].inum), NEW i \in Inum, i # icache[s].inum
  PROVE  Addr(i)' = Addr(i)
<1>1. dinode'[i] = dinode[i]
  BY DEF OnlyInode
<1>2. \A t \in Slot : icache[t].ref > 0 /\ icache[t].inum = i => t # s
  OBVIOUS
<1>3. \A t \in Slot : icache'[t].ref > 0 /\ icache'[t].inum = i => t # s
  OBVIOUS
<1>4. \A t \in Slot : t # s => icache'[t] = icache[t]
  BY DEF OnlySlot
<1>5. \A t \in Slot : icache[t].ref > 0 /\ icache[t].inum = i => Copy(t)' = Copy(t)
  BY <1>1, <1>2, <1>4 DEF Copy
<1> QED
  BY <1>1, <1>2, <1>3, <1>4, <1>5, AddrStays

\* The block of the inode of the slot that a step touches.
LEMMA ThisAddr ==
  ASSUME IInv, NEW p \in Proc, CallStep(p), NEW s \in Slot, icache[s].ref > 0,
         NEW d \in Dinode \cup {None}, CopySets(s, d), NEW i \in Inum, i = icache[s].inum
  PROVE  /\ Addr(i) = Copy(s).addr
         /\ d \in Dinode => Addr(i)' = d.addr
         /\ d = None => Addr(i)' = dinode'[i].addr
<1>1. icache'[s].ref > 0 /\ icache'[s].inum = i /\ icache'[s].copy = d
  BY DEF CopySets
<1>2. Copy(s)' = IF d # None THEN d ELSE dinode'[i]
  BY <1>1 DEF Copy
<1> QED
  BY <1>1, <1>2, AddrIs, AddrNext, Nones

\* What a step does to the blocks of the files.
LEMMA AddrsStay ==
  ASSUME IInv, NEW p \in Proc, CallStep(p),
         \/ Stuck \/ Keeps(p)
         \/ \E i \in Inum : Allocates(p, i) \/ \E s \in Slot : Takes(p, i, s)
         \/ \E s \in Slot : \/ Reads(p, s) \/ Frees(p, s) \/ Drops(p, s)
                            \/ \E d \in Dinode : Changes(p, s, d),
         NEW i \in Inum
  PROVE  Addr(i)' = Addr(i)
<1>1. TypeOK /\ OneSlot /\ Synced /\ Locked /\ FreeOK /\ Counted
      /\ \A t \in Slot : icache[t].ref \in Nat
  BY Types DEF IInv, SlotRec
<1>2. CASE Stuck \/ Keeps(p)
  <2>1. icache' = icache /\ dinode' = dinode
    BY <1>2 DEF Stuck, Keeps
  <2>2. Addr(i)' = AddrOf(icache', dinode', i) /\ Addr(i) = AddrOf(icache, dinode, i)
    BY DEF Addr, AddrOf, Cached, SlotOf
  <2> QED
    BY <2>1, <2>2
<1>3. ASSUME NEW j \in Inum, Allocates(p, j)
      PROVE  Addr(i)' = Addr(i)
  <2>1. icache' = icache /\ OnlyInode(j) /\ dinode'[j] = Fresh /\ dinode[j] = FreeInode
        /\ \A t \in Slot : icache[t].ref > 0 /\ icache[t].inum = j => icache[t].copy = None
    BY <1>1, <1>3 DEF Allocates, FreeOK, Cached
  <2>2. Fresh.addr = FreeInode.addr
    BY DEF Fresh, FreeInode
  <2>3. dinode'[i].addr = dinode[i].addr
    BY <2>1, <2>2 DEF OnlyInode
  <2>4. \A t \in Slot : icache[t].ref > 0 /\ icache[t].inum = i => Copy(t)'.addr = Copy(t).addr
    BY <2>1, <2>2, <2>3 DEF Copy, OnlyInode
  <2> QED
    BY <2>1, <2>3, <2>4, AddrStays
<1>4. ASSUME NEW j \in Inum, NEW s \in Slot, Takes(p, j, s)
      PROVE  Addr(i)' = Addr(i)
  <2>1. /\ OnlySlot(s) /\ icache'[s].inum = j /\ icache'[s].ref = icache[s].ref + 1
        /\ \/ icache[s].ref > 0 /\ icache[s].inum = j /\ icache'[s].copy = icache[s].copy
           \/ icache[s].ref = 0 /\ Cached(j) = {} /\ icache'[s].copy = None
        /\ dinode' = dinode
    BY <1>4, TakesFile DEF Takes
  <2>2. icache'[s].ref > 0
    BY <1>1, <2>1
  <2>3. CASE icache[s].ref > 0 /\ icache[s].inum = j /\ icache'[s].copy = icache[s].copy
    <3>1. CASE i # j
      BY <2>1, <2>3, <3>1, OtherAddrs
    <3>2. CASE i = j
      <4>1. Copy(s)' = Copy(s)
        BY <2>1, <2>3 DEF Copy
      <4> QED
        BY <2>1, <2>2, <2>3, <3>2, <4>1, AddrIs, AddrNext
    <3> QED
      BY <3>1, <3>2
  <2>4. CASE icache[s].ref = 0 /\ Cached(j) = {} /\ icache'[s].copy = None
    <3>1. \A t \in Slot : t # s => icache'[t] = icache[t]
      BY <2>1 DEF OnlySlot
    <3>2. CASE i # j
      <4>1. \A t \in Slot : icache[t].ref > 0 /\ icache[t].inum = i => t # s
        BY <2>4
      <4>2. \A t \in Slot : icache'[t].ref > 0 /\ icache'[t].inum = i => t # s
        BY <2>1, <3>2
      <4>3. \A t \in Slot : icache[t].ref > 0 /\ icache[t].inum = i => Copy(t)' = Copy(t)
        BY <2>1, <3>1, <4>1 DEF Copy
      <4> QED
        BY <2>1, <3>1, <4>1, <4>2, <4>3, AddrStays
    <3>3. CASE i = j
      <4>1. \A t \in Slot : ~(icache[t].ref > 0 /\ icache[t].inum = i)
        BY <2>4, <3>3 DEF Cached
      <4>2. Copy(s)' = dinode'[i]
        BY <2>1, <2>4, <3>3 DEF Copy
      <4> QED
        BY <2>1, <2>2, <3>3, <4>1, <4>2, AddrIs, AddrNext
    <3> QED
      BY <3>2, <3>3
  <2> QED
    BY <2>1, <2>3, <2>4
<1>5. ASSUME NEW s \in Slot, Reads(p, s)
      PROVE  Addr(i)' = Addr(i)
  <2>1. /\ icache[s].ref > 0 /\ CopySets(s, Copy(s)) /\ dinode' = dinode
        /\ Copy(s) \in Dinode
    BY <1>5, Busy DEF Reads
  <2>2. i = icache[s].inum => Addr(i)' = Addr(i)
    BY <2>1, ThisAddr
  <2> QED
    BY <2>1, <2>2, OtherAddrs DEF CopySets
<1>6. ASSUME NEW s \in Slot, Frees(p, s)
      PROVE  Addr(i)' = Addr(i)
  <2>1. /\ icache[s].ref > 0 /\ icache[s].copy \in Dinode /\ icache[s].copy.addr = None
        /\ CopySets(s, None)
        /\ OnlyInode(icache[s].inum) /\ dinode'[icache[s].inum] = FreeInode
    BY <1>6 DEF Frees
  <2>2. Copy(s).addr = None
    BY <2>1, Nones DEF Copy
  <2>3. FreeInode.addr = None
    BY DEF FreeInode
  <2>4. i = icache[s].inum => Addr(i)' = Addr(i)
    BY <2>1, <2>2, <2>3, ThisAddr
  <2> QED
    BY <2>1, <2>4, OtherAddrs DEF CopySets
<1>7. ASSUME NEW s \in Slot, Drops(p, s)
      PROVE  Addr(i)' = Addr(i)
  <2>1. /\ icache[s].ref > 0 /\ call[p].put = s /\ OnlySlot(s)
        /\ icache'[s].copy = icache[s].copy /\ icache'[s].inum = icache[s].inum
        /\ icache'[s].ref = icache[s].ref - 1 /\ dinode' = dinode
    BY <1>7 DEF Drops
  <2>2. Copy(s)' = Copy(s)
    BY <2>1 DEF Copy
  <2>3. CASE i # icache[s].inum
    BY <2>1, <2>3, OtherAddrs
  <2>4. CASE i = icache[s].inum /\ icache[s].ref # 1
    <3>1. icache'[s].ref > 0
      BY <1>1, <2>1, <2>4
    <3> QED
      BY <2>1, <2>2, <2>4, <3>1, AddrIs, AddrNext
  <2>5. CASE i = icache[s].inum /\ icache[s].ref = 1
    <3>1. ~(icache'[s].ref > 0)
      BY <2>1, <2>5
    <3>2. \A t \in Slot : t # s => ~(icache'[t].ref > 0 /\ icache'[t].inum = i)
      BY <1>1, <2>1, <2>5 DEF OneSlot, OnlySlot
    <3>3. ~Updating(s)
      BY <1>1, <1>7, <2>1, <2>5, Referred DEF Updating, Updates, Drops, NotUpdating
    <3>4. Copy(s) = dinode[i]
      BY <1>1, <2>1, <2>5, <3>3, CopyIs
    <3> QED
      BY <2>1, <2>5, <3>1, <3>2, <3>4, AddrIs, AddrNext
  <2> QED
    BY <2>3, <2>4, <2>5
<1>8. ASSUME NEW s \in Slot, NEW d \in Dinode, Changes(p, s, d)
      PROVE  Addr(i)' = Addr(i)
  <2>1. /\ icache[s].ref > 0 /\ CopySets(s, d) /\ OnlyInode(icache[s].inum)
        /\ d.addr = Copy(s).addr
    BY <1>8 DEF Changes, Writes
  <2>2. i = icache[s].inum => Addr(i)' = Addr(i)
    BY <2>1, ThisAddr
  <2> QED
    BY <2>1, <2>2, OtherAddrs DEF CopySets
<1> QED
  BY <1>2, <1>3, <1>4, <1>5, <1>6, <1>7, <1>8

\* One inode gets a block that was not in use, or gives its block back.
LEMMA OwnedStep ==
  ASSUME NEW f \in [Inum -> Block \cup {None}], NEW g \in [Inum -> Block \cup {None}],
         NEW B, NEW C, NEW j \in Inum,
         B = {f[i] : i \in Inum} \ {None},
         \A h, i \in Inum : f[h] = f[i] => h = i \/ f[h] = None,
         \A i \in Inum : i # j => g[i] = f[i],
         \/ f[j] = None /\ g[j] \notin B /\ g[j] # None /\ C = B \cup {g[j]}
         \/ g[j] = None /\ C = B \ {f[j]}
  PROVE  /\ C = {g[i] : i \in Inum} \ {None}
         /\ \A h, i \in Inum : g[h] = g[i] => h = i \/ g[h] = None
<1>1. CASE f[j] = None /\ g[j] \notin B /\ g[j] # None /\ C = B \cup {g[j]}
  <2>1. \A i \in Inum : i # j => f[i] # g[j]
    BY <1>1
  <2>2. \A x : x \in C <=> x \in {g[i] : i \in Inum} \ {None}
    BY <1>1
  <2> QED
    BY <1>1, <2>1, <2>2
<1>2. CASE g[j] = None /\ C = B \ {f[j]}
  <2>1. \A x : x \in C <=> x \in {g[i] : i \in Inum} \ {None}
    BY <1>2
  <2> QED
    BY <1>2, <2>1
<1> QED
  BY <1>1, <1>2

LEMMA BlocksMove ==
  ASSUME IInv, NEW p \in Proc, CallStep(p), NEW j \in Inum, Addr(j)' \in Block \cup {None},
         \A i \in Inum : i # j => Addr(i)' = Addr(i),
         \/ Addr(j) = None /\ Addr(j)' \notin bitmap /\ Addr(j)' # None
            /\ bitmap' = bitmap \cup {Addr(j)'}
         \/ Addr(j)' = None /\ bitmap' = bitmap \ {Addr(j)}
  PROVE  BlocksOwned'
<1> DEFINE f == [i \in Inum |-> Addr(i)]
           g == [i \in Inum |-> Addr(i)']
<1>1. f \in [Inum -> Block \cup {None}] /\ g \in [Inum -> Block \cup {None}]
  BY AddrIs
<1>2. \A i \in Inum : f[i] = Addr(i) /\ g[i] = Addr(i)'
  OBVIOUS
<1>3. {f[i] : i \in Inum} = {Addr(i) : i \in Inum} /\ {g[i] : i \in Inum} = {Addr(i)' : i \in Inum}
  OBVIOUS
<1> HIDE DEF f, g
<1>4. /\ bitmap = {f[i] : i \in Inum} \ {None}
      /\ \A h, i \in Inum : f[h] = f[i] => h = i \/ f[h] = None
  BY <1>2, <1>3 DEF IInv, BlocksOwned
<1>5. /\ bitmap' = {g[i] : i \in Inum} \ {None}
      /\ \A h, i \in Inum : g[h] = g[i] => h = i \/ g[h] = None
  BY <1>1, <1>2, <1>4, OwnedStep
<1> QED
  BY <1>2, <1>3, <1>5 DEF BlocksOwned

\* A block in use is that of one file, while others allocate and free.
LEMMA NextBlocksOwned ==
  ASSUME IInv, NEW p \in Proc, CallStep(p)
  PROVE  BlocksOwned'
<1>1. ASSUME bitmap' = bitmap, \A i \in Inum : Addr(i)' = Addr(i)
      PROVE  BlocksOwned'
  <2>1. {Addr(i)' : i \in Inum} = {Addr(i) : i \in Inum}
    BY <1>1
  <2> QED
    BY <1>1, <2>1 DEF IInv, BlocksOwned
<1>2. CASE \/ Stuck \/ Keeps(p)
           \/ \E i \in Inum : Allocates(p, i) \/ \E s \in Slot : Takes(p, i, s)
           \/ \E s \in Slot : \/ Reads(p, s) \/ Frees(p, s) \/ Drops(p, s)
                              \/ \E d \in Dinode : Changes(p, s, d)
  <2>1. bitmap' = bitmap
    BY <1>2 DEF Stuck, Keeps, Allocates, Takes, Reads, Frees, Drops, Changes
  <2> QED
    BY <1>1, <1>2, <2>1, AddrsStay
<1>3. ASSUME NEW s \in Slot, NEW d \in Dinode, NEW b \in Block, Enters(p, s, b, d)
      PROVE  BlocksOwned'
  <2>1. /\ icache[s].ref > 0 /\ Copy(s).addr = None /\ b \notin bitmap
        /\ bitmap' = bitmap \cup {b} /\ CopySets(s, d) /\ dinode' = dinode
        /\ Copy(s) \in Dinode /\ d = [Copy(s) EXCEPT !.addr = b]
    BY <1>3, Busy DEF Enters
  <2>2. PICK j \in Inum : j = icache[s].inum
    BY <2>1, Basics DEF OneSlot
  <2>3. d.addr = b
    BY <2>1 DEF Dinode
  <2>4. Addr(j) = None /\ Addr(j)' = b
    <3>1. icache[s].ref > 0 /\ CopySets(s, d)
      BY <2>1
    <3>2. Addr(j) = Copy(s).addr /\ Addr(j)' = d.addr
      BY <2>2, <3>1, ThisAddr
    <3> QED
      BY <2>1, <2>3, <3>2
  <2>5. \A i \in Inum : i # j => Addr(i)' = Addr(i)
    BY <2>1, <2>2, OtherAddrs DEF CopySets
  <2> QED
    BY <2>1, <2>4, <2>5, BlocksMove, Nones
<1>4. ASSUME NEW s \in Slot, NEW d \in Dinode, Truncates(p, s, d)
      PROVE  BlocksOwned'
  <2>1. /\ icache[s].ref > 0 /\ icache[s].copy \in Dinode
        /\ d = [icache[s].copy EXCEPT !.addr = None]
        /\ CopySets(s, d) /\ dinode' = dinode
        /\ bitmap' = bitmap \ {icache[s].copy.addr}
    BY <1>4 DEF Truncates
  <2>2. PICK j \in Inum : j = icache[s].inum
    BY <2>1, Basics DEF OneSlot
  <2>3. d.addr = None /\ Copy(s) = icache[s].copy
    BY <2>1, Nones DEF Dinode, Copy
  <2>4. Addr(j) = icache[s].copy.addr /\ Addr(j)' = None
    <3>1. Addr(j) = Copy(s).addr /\ Addr(j)' = d.addr
      BY <2>1, <2>2, ThisAddr
    <3> QED
      BY <2>3, <3>1
  <2>5. \A i \in Inum : i # j => Addr(i)' = Addr(i)
    BY <2>1, <2>2, OtherAddrs DEF CopySets
  <2> QED
    BY <2>1, <2>4, <2>5, BlocksMove
<1> QED
  BY <1>2, <1>3, <1>4, DataSteps DEF Data

(***************************************************************************)
(* The theorems.                                                           *)
(***************************************************************************)
LEMMA InitIInv ==
  ASSUME Init
  PROVE  IInv
<1>1. /\ icache = [s \in Slot |-> [inum |-> None, ref |-> 0, copy |-> None]]
      /\ ilk = [s \in Slot |-> None] /\ dinode = [i \in Inum |-> FreeInode]
      /\ bitmap = {} /\ dir = [n \in Name |-> None] /\ dlk = None
      /\ file = [p \in Proc |-> None] /\ pc = [p \in Proc |-> "user"]
      /\ call = [p \in Proc |-> NoCall] /\ panicked = "no"
  BY DEF Init
<1>2. FreeInode \in Dinode /\ NoCall \in CallRec
  BY NoCallForm DEF FreeInode, Dinode
<1>3. /\ FreeInode.addr = None /\ FreeInode.nlink = 0
      /\ NoCall.name = None /\ NoCall.inum = None /\ NoCall.ip = None /\ NoCall.put = None
      /\ NoCall.next = "user"
  BY DEF FreeInode, NoCall
<1>4. TypeOK
  BY <1>1, <1>2 DEF TypeOK, CallRec, Labels
<1>5. /\ \A s \in Slot : icache[s].ref = 0 /\ icache[s].copy = None /\ ilk[s] = None
      /\ \A p \in Proc : pc[p] = "user" /\ call[p] = NoCall /\ file[p] = None
      /\ \A i \in Inum : dinode[i] = FreeInode
      /\ \A n \in Name : dir[n] = None
  BY <1>1
<1>6. Counted
  <2> SUFFICES ASSUME NEW s \in Slot
               PROVE  icache[s].ref =
                        Cardinality(Opens(s)) + Cardinality(Uses(s)) + Cardinality(Puts(s))
    BY DEF Counted
  <2>1. Opens(s) = {} /\ Uses(s) = {} /\ Puts(s) = {}
    BY <1>3, <1>5, Nones DEF Opens, Uses, Puts
  <2>2. Cardinality({}) = 0
    BY FS_EmptySet
  <2>3. icache[s].ref = 0
    BY <1>5
  <2> QED
    BY <2>1, <2>2, <2>3
<1>7. OneSlot
  BY <1>5 DEF OneSlot
<1>8. Calls
  BY <1>3, <1>5 DEF Calls, CallOK, Entry, NewOK, ChangeOK, Creating, Putting, WithIp
<1>9. Locked
  BY <1>5, Nones DEF Locked, Holds
<1>10. DirLocked
  BY <1>1, <1>3, <1>5, Nones DEF DirLocked, HasDir, Creating
<1>11. Synced /\ FreeOK
  BY <1>5 DEF Synced, FreeOK, Cached
<1>12. Links
  <2> SUFFICES ASSUME NEW i \in Inum
               PROVE  dinode[i].nlink = Cardinality(Names(i)) + Cardinality(Pending(i))
    BY DEF Links
  <2>1. Names(i) = {}
    BY <1>5, Nones DEF Names
  <2>2. Pending(i) = {}
    BY <1>3, <1>5 DEF Pending
  <2>3. Cardinality({}) = 0
    BY FS_EmptySet
  <2>4. dinode[i].nlink = 0
    BY <1>3, <1>5
  <2> QED
    BY <2>1, <2>2, <2>3, <2>4
<1>13. BlocksOwned
  <2>1. \A i \in Inum : Addr(i) = None
    <3> SUFFICES ASSUME NEW i \in Inum
                 PROVE  Addr(i) = None
      OBVIOUS
    <3>1. Cached(i) = {}
      BY <1>5 DEF Cached
    <3> QED
      BY <1>3, <1>5, <3>1 DEF Addr
  <2>2. {Addr(i) : i \in Inum} \ {None} = {}
    BY <2>1
  <2> QED
    BY <1>1, <2>1, <2>2 DEF BlocksOwned
<1>14. NoPanic
  BY <1>1 DEF NoPanic
<1> QED
  BY <1>4, <1>6, <1>7, <1>8, <1>9, <1>10, <1>11, <1>12, <1>13, <1>14 DEF IInv

LEMMA Stutter ==
  ASSUME IInv, UNCHANGED vars
  PROVE  IInv'
<1>1. UNCHANGED <<icache, ilk, dinode, bitmap, dir, dlk, file, pc, call, panicked>>
  BY DEF vars, cache, disk, root
<1>2. TypeOK' /\ NoPanic'
  BY <1>1 DEF IInv, TypeOK, NoPanic
<1>3. Counted'
  BY <1>1 DEF IInv, Counted, Opens, Uses, Puts
<1>4. OneSlot' /\ Locked' /\ DirLocked' /\ Synced'
  BY <1>1 DEF IInv, OneSlot, Locked, Holds, DirLocked, HasDir, Synced, Updating, Updates
<1>5. Calls'
  BY <1>1 DEF IInv, Calls, CallOK, Entry, NewOK, ChangeOK, Cached, Works
<1>6. FreeOK'
  BY <1>1 DEF IInv, FreeOK, Cached, Works
<1>7. Links'
  BY <1>1 DEF IInv, Links, Names, Pending
<1>8. BlocksOwned'
  <2>1. \A i : Addr(i)' = AddrOf(icache', dinode', i) /\ Addr(i) = AddrOf(icache, dinode, i)
    BY DEF Addr, AddrOf, Cached, SlotOf
  <2>2. \A i : Addr(i)' = Addr(i)
    BY <1>1, <2>1
  <2> QED
    BY <1>1, <2>2 DEF IInv, BlocksOwned
<1> QED
  BY <1>2, <1>3, <1>4, <1>5, <1>6, <1>7, <1>8 DEF IInv

LEMMA NextIInv ==
  ASSUME IInv, [Next]_vars
  PROVE  IInv'
<1>1. ASSUME NEW p \in Proc, CallStep(p)
      PROVE  IInv'
  <2>1. TypeOK' /\ Counted' /\ OneSlot'
    BY <1>1, NextType, NextCounted, NextOneSlot
  <2>2. Calls'
    BY <1>1, NextCallOK, NextEntry, NextNewOK, NextChangeOK DEF Calls
  <2>3. Locked' /\ DirLocked' /\ Synced' /\ FreeOK'
    BY <1>1, NextLocked, NextDirLocked, NextSynced, NextFreeOK
  <2>4. Links' /\ BlocksOwned' /\ NoPanic'
    BY <1>1, NextLinks, NextBlocksOwned, NextNoPanic
  <2> QED
    BY <2>1, <2>2, <2>3, <2>4 DEF IInv
<1>2. CASE Frozen \/ UNCHANGED vars
  BY <1>2, Stutter DEF Frozen
<1> QED
  BY <1>1, <1>2 DEF Next

\* The inductive invariant: with the references counted and one slot for an
\* inode, who holds which lock, what create, unlink and iput have found and
\* nobody changes until they use it, and links and blocks that agree.
THEOREM InodeInvariant == Spec => []IInv
<1>1. Init => IInv
  BY InitIInv
<1>2. IInv /\ [Next]_vars => IInv'
  BY NextIInv
<1> QED
  BY <1>1, <1>2, PTL DEF Spec

\* The variables keep their types.
THEOREM InodeType == Spec => []TypeOK
<1>1. IInv => TypeOK
  BY DEF IInv
<1> QED
  BY <1>1, InodeInvariant, PTL

\* The count of a slot is the number of open files and calls that hold it, and
\* no inode is in two slots: what iget, idup and iput keep in fs.c.
THEOREM InodeReferencesCounted == Spec => []ReferencesCounted
<1>1. ASSUME IInv
      PROVE  ReferencesCounted
  <2>1. ASSUME NEW i \in Inum
        PROVE  Cardinality(Cached(i)) <= 1
    <3>1. CASE Cached(i) = {}
      BY <3>1, FS_EmptySet
    <3>2. CASE Cached(i) # {}
      <4>1. PICK s : s \in Cached(i)
        BY <3>2
      <4>2. Cached(i) = {s}
        BY <1>1, <4>1 DEF IInv, OneSlot, Cached
      <4> QED
        BY <4>2, FS_Singleton
    <3> QED
      BY <3>1, <3>2
  <2> QED
    BY <1>1, <2>1 DEF IInv, Counted, Opens, Uses, Puts, ReferencesCounted
<1>2. IInv => ReferencesCounted
  BY <1>1
<1> QED
  BY <1>2, InodeInvariant, PTL

\* "i-node cache is write-through": a valid inode that nobody has locked is what
\* is on the disk (fs.c:218).
THEOREM InodeWriteThrough == Spec => []WriteThrough
<1>1. IInv => WriteThrough
  BY CopyIs DEF IInv, WriteThrough
<1> QED
  BY <1>1, InodeInvariant, PTL

\* Names, links and blocks agree at every moment, and no call panics for a
\* corrupt disk: what create, link, unlink, writei and iput keep together.
THEOREM InodeDiskConsistent == Spec => []DiskConsistent
<1>1. ASSUME IInv
      PROVE  DiskConsistent
  <2>1. LinksCounted
    BY <1>1, Named DEF IInv, Links, Names, LinksCounted
  <2> QED
    BY <1>1, <2>1 DEF IInv, NoPanic, DiskConsistent
<1>2. IInv => DiskConsistent
  BY <1>1
<1> QED
  BY <1>2, InodeInvariant, PTL

=============================================================================
