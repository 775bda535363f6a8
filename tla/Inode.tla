------------------------------- MODULE Inode -------------------------------
(***************************************************************************)
(* Inodes (LAB4/fs.c) and the system calls that make, find, link, unlink   *)
(* and close files (LAB4/sysfile.c), for the files of one directory.       *)
(*                                                                         *)
(* What a process does under the sleep lock of an inode or of the          *)
(* directory is one action unless something other processes can see        *)
(* changes in between: the disk inodes, which ialloc reads, the bitmap,    *)
(* the directory, and the reference counts, which icache.lock protects.    *)
(* Sleeping for a lock is a guard here; Bcache models sleep locks.  An     *)
(* argument of a call is chosen when the call first uses it, and a call    *)
(* that finds no such file returns with nothing changed.                   *)
(***************************************************************************)
EXTENDS Integers, FiniteSets, FiniteSetsExt

CONSTANTS Proc,    \* the processes
          Name,    \* the names a file can have in the directory
          None,    \* nobody, nothing
          NINODE,  \* slots of the inode cache (param.h)
          ninodes, \* inodes on the disk, without the directory's
          nblocks  \* data blocks on the disk, one for a file at most

Slot == 1 .. NINODE
Inum == 1 .. ninodes
Block == 1 .. nblocks

Dinode == [type : {"free", "file"}, nlink : Nat, addr : Block \cup {None}]

ASSUME InodeAssumption == /\ NINODE \in Nat \ {0}
                          /\ ninodes \in Nat \ {0}
                          /\ nblocks \in Nat
                          /\ IsFiniteSet(Proc) /\ IsFiniteSet(Name)
                          /\ None \notin Proc \cup Name \cup Nat \cup Dinode

VARIABLES icache,  \* inum, ref, and copy: the disk inode read by ilock, None if not valid
          ilk,     \* the holder of each slot's sleep lock, or None
          dinode,  \* the disk inodes: type (0 or T_FILE), nlink, addr
          bitmap,  \* the blocks in use
          dir,     \* the directory: the inode of each name, or None
          dlk,     \* the holder of the directory's sleep lock, or None
          file,    \* the inode each process has open, or None
          pc,      \* the next statement of each process
          call,    \* local variables: name; inum, from ialloc; ip, the inode of the
                   \* call; put, the inode iput is called for; next, what follows
          panicked \* the message of panic(), which freezes the machine

disk == <<dinode, bitmap>>
cache == <<icache, ilk>>
root == <<dir, dlk>>
vars == <<cache, disk, root, file, pc, call, panicked>>

FreeInode == [type |-> "free", nlink |-> 0, addr |-> None]
NoCall == [name |-> None, inum |-> None, ip |-> None, put |-> None, next |-> "user"]

Labels == {"user", "ialloc", "iget", "newinode", "newlink", "ilock", "linkinc",
           "linkdir", "linkbad", "unlink", "unlinkdec", "wupdate", "iput", "itrunc",
           "tupdate", "ifree", "iputdrop"}

TypeOK == /\ icache \in [Slot -> [inum : Inum \cup {None}, ref : Nat,
                                  copy : Dinode \cup {None}]]
          /\ ilk \in [Slot -> Proc \cup {None}]
          /\ dinode \in [Inum -> Dinode]
          /\ bitmap \in SUBSET Block
          /\ dir \in [Name -> Inum \cup {None}]
          /\ dlk \in Proc \cup {None}
          /\ file \in [Proc -> Slot \cup {None}]
          /\ pc \in [Proc -> Labels]
          /\ call \in [Proc -> [name : Name \cup {None}, inum : Inum \cup {None},
                                ip : Slot \cup {None}, put : Slot \cup {None},
                                next : {"user", "linkbad"}]]
          /\ panicked \in {"no", "ialloc: no inodes", "iget: no inodes", "balloc: out of blocks",
                           "ilock: no type", "unlink: nlink < 1", "freeing free block"}

Init == /\ icache = [s \in Slot |-> [inum |-> None, ref |-> 0, copy |-> None]]
        /\ ilk = [s \in Slot |-> None]
        /\ dinode = [i \in Inum |-> FreeInode]
        /\ bitmap = {}
        /\ dir = [n \in Name |-> None]
        /\ dlk = None
        /\ file = [p \in Proc |-> None]
        /\ pc = [p \in Proc |-> "user"]
        /\ call = [p \in Proc |-> NoCall]
        /\ panicked = "no"

At(p, l) == pc[p] = l /\ panicked = "no"
Goto(p, l) == pc' = [pc EXCEPT ![p] = l]

Panic(msg) == /\ panicked' = msg
              /\ UNCHANGED <<cache, disk, root, file, pc, call>>

(***************************************************************************)
(* The inode cache.                                                        *)
(***************************************************************************)
Cached(i) == {s \in Slot : icache[s].ref > 0 /\ icache[s].inum = i}
EmptySlots == {s \in Slot : icache[s].ref = 0}

\* Mutant of Iget: a recycled slot keeps the copy of its last inode.
IgetValid(i, s) ==
    IF Cached(i) # {}
    THEN s \in Cached(i) /\ icache' = [icache EXCEPT ![s].ref = @ + 1]
    ELSE /\ s \in EmptySlots
         /\ \A t \in EmptySlots : s <= t
         /\ icache' = [icache EXCEPT ![s] = [@ EXCEPT !.inum = i, !.ref = 1]]

\* iget(): the slot of inode i, or else the first empty one.
Iget(i, s) ==
    IF Cached(i) # {}
    THEN s \in Cached(i) /\ icache' = [icache EXCEPT ![s].ref = @ + 1]
    ELSE /\ s \in EmptySlots
         /\ \A t \in EmptySlots : s <= t
         /\ icache' = [icache EXCEPT ![s] = [inum |-> i, ref |-> 1, copy |-> None]]

NoSlot(i) == Cached(i) = {} /\ EmptySlots = {}

\* ilock reads the inode from disk if the slot is not valid.
Copy(s) == IF icache[s].copy # None THEN icache[s].copy ELSE dinode[icache[s].inum]

\* The slot's inode is changed in memory and by iupdate on the disk.
Iupdate(s, d) == /\ icache' = [icache EXCEPT ![s].copy = d]
                 /\ dinode' = [dinode EXCEPT ![icache[s].inum] = d]

(***************************************************************************)
(* open(), with O_CREATE or without.                                       *)
(***************************************************************************)
\* The name exists: dirlookup under the directory's lock.
OpenName(p, n) == /\ At(p, "user")
                  /\ file[p] = None
                  /\ dlk = None /\ dir[n] # None
                  /\ IF NoSlot(dir[n]) THEN Panic("iget: no inodes")
                     ELSE \E s \in Slot :
                          /\ Iget(dir[n], s)
                          /\ call' = [call EXCEPT ![p].ip = s]
                          /\ Goto(p, "ilock")
                          /\ UNCHANGED <<ilk, disk, root, file, panicked>>

\* Mutant of OpenDone: the inode is not put back when there is no file for it.
OpenDoneLeaks(p, s) == \/ /\ file' = [file EXCEPT ![p] = s]
                          /\ call' = [call EXCEPT ![p] = NoCall]
                          /\ Goto(p, "user")
                       \/ /\ call' = [call EXCEPT ![p] = NoCall]
                          /\ Goto(p, "user")
                          /\ UNCHANGED file

\* sys_open has the inode and gets a file structure and a descriptor, or not.
OpenDone(p, s) == \/ /\ file' = [file EXCEPT ![p] = s]
                     /\ call' = [call EXCEPT ![p] = NoCall]
                     /\ Goto(p, "user")
                  \/ /\ call' = [call EXCEPT ![p] = [NoCall EXCEPT !.put = s]]
                     /\ Goto(p, "iput")
                     /\ UNCHANGED file

OpenLock(p) == LET s == call[p].ip IN
    /\ At(p, "ilock")
    /\ ilk[s] = None
    /\ IF Copy(s).type = "free" THEN Panic("ilock: no type")
       ELSE /\ icache' = [icache EXCEPT ![s].copy = Copy(s)]
            /\ OpenDone(p, s)
            /\ UNCHANGED <<ilk, disk, root, panicked>>

\* create(): the name is new; the directory stays locked.
Create(p, n) == /\ At(p, "user")
                /\ file[p] = None
                /\ dlk = None /\ dir[n] = None
                /\ dlk' = p
                /\ call' = [call EXCEPT ![p].name = n]
                /\ Goto(p, "ialloc")
                /\ UNCHANGED <<cache, disk, dir, file, panicked>>

\* ialloc(): the first free inode on the disk.
Ialloc(p) == LET free == {i \in Inum : dinode[i].type = "free"} IN
    /\ At(p, "ialloc")
    /\ IF free = {} THEN Panic("ialloc: no inodes")
       ELSE /\ dinode' = [dinode EXCEPT ![Min(free)] = [FreeInode EXCEPT !.type = "file"]]
            /\ call' = [call EXCEPT ![p].inum = Min(free)]
            /\ Goto(p, "iget")
            /\ UNCHANGED <<cache, bitmap, root, file, panicked>>

IallocGet(p) == /\ At(p, "iget")
                /\ IF NoSlot(call[p].inum) THEN Panic("iget: no inodes")
                   ELSE \E s \in Slot :
                        /\ Iget(call[p].inum, s)
                        /\ call' = [call EXCEPT ![p].ip = s, ![p].inum = None]
                        /\ Goto(p, "newinode")
                        /\ UNCHANGED <<ilk, disk, root, file, panicked>>

\* create(): lock the new inode and give it its first link.
NewInode(p) == LET s == call[p].ip IN
    /\ At(p, "newinode")
    /\ ilk[s] = None
    /\ IF Copy(s).type = "free" THEN Panic("ilock: no type")
       ELSE /\ ilk' = [ilk EXCEPT ![s] = p]
            /\ Iupdate(s, [Copy(s) EXCEPT !.nlink = 1])
            /\ Goto(p, "newlink")
            /\ UNCHANGED <<bitmap, root, file, call, panicked>>

\* create(): enter it in the directory, release both locks.
NewLink(p) == LET s == call[p].ip IN
    /\ At(p, "newlink")
    /\ dir' = [dir EXCEPT ![call[p].name] = icache[s].inum]
    /\ dlk' = None
    /\ ilk' = [ilk EXCEPT ![s] = None]
    /\ OpenDone(p, s)
    /\ UNCHANGED <<icache, disk, panicked>>

(***************************************************************************)
(* link().                                                                 *)
(***************************************************************************)
LinkOld(p, n) == /\ At(p, "user")
                 /\ dlk = None /\ dir[n] # None
                 /\ IF NoSlot(dir[n]) THEN Panic("iget: no inodes")
                    ELSE \E s \in Slot :
                         /\ Iget(dir[n], s)
                         /\ call' = [call EXCEPT ![p].ip = s]
                         /\ Goto(p, "linkinc")
                         /\ UNCHANGED <<ilk, disk, root, file, panicked>>

\* The link is counted before it is made.
LinkInc(p) == LET s == call[p].ip IN
    /\ At(p, "linkinc")
    /\ ilk[s] = None
    /\ IF Copy(s).type = "free" THEN Panic("ilock: no type")
       ELSE /\ Iupdate(s, [Copy(s) EXCEPT !.nlink = @ + 1])
            /\ Goto(p, "linkdir")
            /\ UNCHANGED <<ilk, bitmap, root, file, call, panicked>>

\* dirlink() makes the new entry; iput follows.
LinkNew(p, n) == LET s == call[p].ip IN
    /\ At(p, "linkdir")
    /\ dlk = None /\ dir[n] = None
    /\ dir' = [dir EXCEPT ![n] = icache[s].inum]
    /\ call' = [call EXCEPT ![p] = [NoCall EXCEPT !.put = s]]
    /\ Goto(p, "iput")
    /\ UNCHANGED <<cache, disk, dlk, file, panicked>>

\* dirlink() finds the name: it puts the inode it found back, with the
\* directory locked.
LinkExists(p, n) ==
    /\ At(p, "linkdir")
    /\ dlk = None /\ dir[n] # None
    /\ IF NoSlot(dir[n]) THEN Panic("iget: no inodes")
       ELSE \E s \in Slot :
            /\ Iget(dir[n], s)
            /\ dlk' = p
            /\ call' = [call EXCEPT ![p].put = s, ![p].next = "linkbad"]
            /\ Goto(p, "iput")
            /\ UNCHANGED <<ilk, disk, dir, file, panicked>>

\* The new name is in no directory.
LinkNoParent(p) == /\ At(p, "linkdir")
                   /\ Goto(p, "linkbad")
                   /\ UNCHANGED <<cache, disk, root, file, call, panicked>>

\* bad: the count is taken back.
LinkBad(p) == LET s == call[p].ip IN
    /\ At(p, "linkbad")
    /\ ilk[s] = None
    /\ IF Copy(s).type = "free" THEN Panic("ilock: no type")
       ELSE /\ Iupdate(s, [Copy(s) EXCEPT !.nlink = @ - 1])
            /\ call' = [call EXCEPT ![p] = [NoCall EXCEPT !.put = s]]
            /\ Goto(p, "iput")
            /\ UNCHANGED <<ilk, bitmap, root, file, panicked>>

(***************************************************************************)
(* unlink().                                                               *)
(***************************************************************************)
Unlink(p, n) == /\ At(p, "user")
                /\ dlk = None /\ dir[n] # None
                /\ IF NoSlot(dir[n]) THEN Panic("iget: no inodes")
                   ELSE \E s \in Slot :
                        /\ Iget(dir[n], s)
                        /\ dlk' = p
                        /\ call' = [call EXCEPT ![p].ip = s, ![p].name = n]
                        /\ Goto(p, "unlink")
                        /\ UNCHANGED <<ilk, disk, dir, file, panicked>>

\* The inode is locked, the entry cleared, the directory released.
UnlinkClear(p) == LET s == call[p].ip IN
    /\ At(p, "unlink")
    /\ ilk[s] = None
    /\ CASE Copy(s).type = "free" -> Panic("ilock: no type")
         [] Copy(s).nlink < 1 -> Panic("unlink: nlink < 1")
         [] OTHER -> /\ icache' = [icache EXCEPT ![s].copy = Copy(s)]
                     /\ ilk' = [ilk EXCEPT ![s] = p]
                     /\ dir' = [dir EXCEPT ![call[p].name] = None]
                     /\ dlk' = None
                     /\ Goto(p, "unlinkdec")
                     /\ UNCHANGED <<disk, file, call, panicked>>

UnlinkDec(p) == LET s == call[p].ip IN
    /\ At(p, "unlinkdec")
    /\ Iupdate(s, [Copy(s) EXCEPT !.nlink = @ - 1])
    /\ ilk' = [ilk EXCEPT ![s] = None]
    /\ call' = [call EXCEPT ![p] = [NoCall EXCEPT !.put = s]]
    /\ Goto(p, "iput")
    /\ UNCHANGED <<bitmap, root, file, panicked>>

(***************************************************************************)
(* write() that needs a block, and close().                                *)
(***************************************************************************)
\* bmap() and balloc(): the first free block, for a file that has none.
WriteAlloc(p) == LET s == file[p] IN
    /\ At(p, "user")
    /\ s # None
    /\ ilk[s] = None
    /\ Copy(s).addr = None
    /\ CASE Copy(s).type = "free" -> Panic("ilock: no type")
         [] bitmap = Block -> Panic("balloc: out of blocks")
         [] OTHER ->
            LET b == Min(Block \ bitmap) IN
            /\ bitmap' = bitmap \cup {b}
            /\ icache' = [icache EXCEPT ![s].copy = [Copy(s) EXCEPT !.addr = b]]
            /\ ilk' = [ilk EXCEPT ![s] = p]
            /\ Goto(p, "wupdate")
            /\ UNCHANGED <<dinode, root, file, call, panicked>>

\* writei() ends with iupdate.
WriteUpdate(p) == LET s == file[p] IN
    /\ At(p, "wupdate")
    /\ Iupdate(s, icache[s].copy)
    /\ ilk' = [ilk EXCEPT ![s] = None]
    /\ Goto(p, "user")
    /\ UNCHANGED <<bitmap, root, file, call, panicked>>

Close(p) == /\ At(p, "user")
            /\ file[p] # None
            /\ file' = [file EXCEPT ![p] = None]
            /\ call' = [call EXCEPT ![p].put = file[p]]
            /\ Goto(p, "iput")
            /\ UNCHANGED <<cache, disk, root, panicked>>

(***************************************************************************)
(* iput().                                                                 *)
(***************************************************************************)
\* Mutant of LastReference: the count of references is not looked at.
NoLinks(s) == icache[s].copy # None /\ icache[s].copy.nlink = 0

\* No links, and no reference but the caller's.
LastReference(s) == /\ icache[s].copy # None /\ icache[s].copy.nlink = 0
                    /\ icache[s].ref = 1

\* The test is made under the inode's lock, the count read under icache.lock.
IputTest(p) == LET s == call[p].put IN
    /\ At(p, "iput")
    /\ ilk[s] = None
    /\ IF LastReference(s)
       THEN ilk' = [ilk EXCEPT ![s] = p] /\ Goto(p, "itrunc")
       ELSE Goto(p, "iputdrop") /\ UNCHANGED ilk
    /\ UNCHANGED <<icache, disk, root, file, call, panicked>>

\* itrunc(): the blocks go back to the bitmap.
Itrunc(p) == LET s == call[p].put
                 b == icache[s].copy.addr IN
    /\ At(p, "itrunc")
    /\ IF b \notin bitmap \cup {None} THEN Panic("freeing free block")
       ELSE /\ bitmap' = bitmap \ {b}
            /\ icache' = [icache EXCEPT ![s].copy.addr = None]
            /\ Goto(p, "tupdate")
            /\ UNCHANGED <<ilk, dinode, root, file, call, panicked>>

\* itrunc() ends with iupdate.
ItruncUpdate(p) == LET s == call[p].put IN
    /\ At(p, "tupdate")
    /\ Iupdate(s, icache[s].copy)
    /\ Goto(p, "ifree")
    /\ UNCHANGED <<ilk, bitmap, root, file, call, panicked>>

\* The inode is free on the disk, the slot not valid any more.
Ifree(p) == LET s == call[p].put IN
    /\ At(p, "ifree")
    /\ dinode' = [dinode EXCEPT ![icache[s].inum] = FreeInode]
    /\ icache' = [icache EXCEPT ![s].copy = None]
    /\ ilk' = [ilk EXCEPT ![s] = None]
    /\ Goto(p, "iputdrop")
    /\ UNCHANGED <<bitmap, root, file, call, panicked>>

\* ip->ref--, and the call goes on; linkbad first releases the directory.
IputDrop(p) ==
    /\ At(p, "iputdrop")
    /\ icache' = [icache EXCEPT ![call[p].put].ref = @ - 1]
    /\ dlk' = IF call[p].next = "linkbad" THEN None ELSE dlk
    /\ call' = [call EXCEPT ![p].put = None, ![p].next = "user"]
    /\ Goto(p, call[p].next)
    /\ UNCHANGED <<ilk, disk, dir, file, panicked>>

-----------------------------------------------------------------------------
CallStep(p) == \/ \E n \in Name : \/ OpenName(p, n) \/ Create(p, n)
                                  \/ LinkOld(p, n)  \/ LinkNew(p, n) \/ LinkExists(p, n)
                                  \/ Unlink(p, n)
               \/ OpenLock(p) \/ Ialloc(p) \/ IallocGet(p) \/ NewInode(p) \/ NewLink(p)
               \/ LinkInc(p) \/ LinkNoParent(p) \/ LinkBad(p)
               \/ UnlinkClear(p) \/ UnlinkDec(p)
               \/ WriteAlloc(p) \/ WriteUpdate(p) \/ Close(p)
               \/ IputTest(p) \/ Itrunc(p) \/ ItruncUpdate(p) \/ Ifree(p) \/ IputDrop(p)

\* After a panic nothing moves.
Frozen == panicked # "no" /\ UNCHANGED vars

Next == (\E p \in Proc : CallStep(p)) \/ Frozen

Spec == Init /\ [][Next]_vars

(***************************************************************************)
(* Properties.                                                             *)
(***************************************************************************)
\* The count of a slot is the number of open files and calls that hold it,
\* and no inode is in two slots (fs.c:241-282, 346-351): two would be locked
\* and changed independently.
ReferencesCounted ==
    /\ \A s \in Slot : icache[s].ref =
           Cardinality({p \in Proc : file[p] = s}) + Cardinality({p \in Proc : call[p].ip = s})
           + Cardinality({p \in Proc : call[p].put = s})
    /\ \A i \in Inum : Cardinality(Cached(i)) <= 1

\* "i-node cache is write-through" (fs.c:218): a valid inode that nobody has
\* locked is what is on the disk, also when its number was freed and given to
\* a new file meanwhile.
WriteThrough ==
    \A s \in Slot : icache[s].ref > 0 /\ icache[s].copy # None /\ ilk[s] = None =>
                       icache[s].copy = dinode[icache[s].inum]

\* The calls that have counted a link and not made it, or have cleared an
\* entry and not uncounted it.
Pending(i) == {p \in Proc : /\ \/ pc[p] \in {"newlink", "linkdir", "linkbad", "unlinkdec"}
                               \/ call[p].next = "linkbad"
                            /\ icache[call[p].ip].inum = i}

\* The count of links is the number of names of the inode, but for the calls
\* on their way, and every name is that of a file (sysfile.c:136-163, 218-229,
\* 263-281).
LinksCounted ==
    /\ \A i \in Inum : dinode[i].nlink =
           Cardinality({n \in Name : dir[n] = i}) + Cardinality(Pending(i))
    /\ \A n \in Name : dir[n] # None => dinode[dir[n]].type = "file"

\* The block of a file: in memory while the inode is valid.
Addr(i) == IF \E s \in Cached(i) : icache[s].copy # None
           THEN (CHOOSE c \in {icache[s].copy : s \in Cached(i)} : TRUE).addr
           ELSE dinode[i].addr

\* A block in use is that of one file, and only such blocks are in use
\* (fs.c:54-100, 372-435), while other calls allocate and free.
BlocksOwned ==
    /\ bitmap = {Addr(i) : i \in Inum} \ {None}
    /\ \A i, j \in Inum : Addr(i) = Addr(j) => i = j \/ Addr(i) = None

\* What fsck would look for, at every moment: names, links and blocks agree,
\* and none of the panics for a corrupt disk is reached.
DiskConsistent ==
    /\ LinksCounted
    /\ BlocksOwned
    /\ panicked \notin {"ilock: no type", "unlink: nlink < 1", "freeing free block"}

\* "If that was the last reference and the inode has no links to it, free the
\* inode (and its content) on disk" (fs.c:328-330): a file with no name and no
\* reference is not left on the disk.
UnlinkedIsFreed ==
    \A i \in Inum : dinode[i].type = "file" /\ dinode[i].nlink = 0 =>
                       Cached(i) # {} \/ \E p \in Proc : call[p].inum = i
=============================================================================
