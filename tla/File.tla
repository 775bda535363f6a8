-------------------------------- MODULE File --------------------------------
(***************************************************************************)
(* Open files: the table of file structures (LAB4/file.c) and the          *)
(* descriptors of the processes (LAB4/sysfile.c), for files that are the   *)
(* ends of pipes.  ftable.lock is held for one operation at a time, so an  *)
(* operation on the table is one step of the module that uses it (Pipe).   *)
(***************************************************************************)
EXTENDS Integers, Sequences, FiniteSets, FiniteSetsExt

CONSTANTS Proc,    \* the processes
          None,    \* no file
          NFILE,   \* file structures in ftable (param.h)
          NOFILE   \* descriptors of a process (param.h)

ASSUME FileAssumption == /\ NFILE \in Nat \ {0}
                         /\ NOFILE \in Nat \ {0}
                         /\ IsFiniteSet(Proc)
                         /\ None \notin Nat

VARIABLES ftable,  \* ftable.file: ref, type, and writable
          ofile    \* p->ofile of each process

Slot == 1 .. NFILE
Fd == 0 .. NOFILE - 1

Closed == [ref |-> 0, type |-> "NONE", writable |-> FALSE]
NoFiles == [d \in Fd |-> None]

FileTypeOK == /\ ftable \in [Slot -> [ref : Nat, type : {"NONE", "PIPE", "INODE"},
                                      writable : BOOLEAN]]
              /\ ofile \in [Proc -> [Fd -> Slot \cup {None}]]

\* The first process has opened the console.
Console == [ref |-> 1, type |-> "INODE", writable |-> TRUE]
FileInit(first) ==
    /\ ftable = [f \in Slot |-> IF f = 1 THEN Console ELSE Closed]
    /\ ofile = [p \in Proc |-> IF p = first THEN [NoFiles EXCEPT ![0] = 1] ELSE NoFiles]

\* filealloc(): the first structure with no references.
Free == {f \in Slot : ftable[f].ref = 0}
Filealloc(f) == /\ f \in Free
                /\ \A g \in Free : f <= g
                /\ ftable' = [ftable EXCEPT ![f].ref = 1]

\* fdalloc(): the first unused descriptors, for the files of the sequence fs.
Unused(p) == {d \in Fd : ofile[p][d] = None}
FdFor(p, i) == CHOOSE d \in Unused(p) : Cardinality({e \in Unused(p) : e <= d}) = i
WithFds(p, fs) ==
    [d \in Fd |-> IF \E i \in DOMAIN fs : FdFor(p, i) = d
                  THEN fs[CHOOSE i \in DOMAIN fs : FdFor(p, i) = d]
                  ELSE ofile[p][d]]

\* Mutant of ForkFiles: the child's descriptors are copied without filedup.
ForkFilesUncounted(p, c) == /\ ofile' = [ofile EXCEPT ![c] = ofile[p]]
                            /\ UNCHANGED ftable

\* fork(): the child gets the parent's files, each counted by filedup.
ForkFiles(p, c) ==
    /\ ofile' = [ofile EXCEPT ![c] = ofile[p]]
    /\ ftable' = [f \in Slot |-> [ftable[f] EXCEPT
                      !.ref = @ + Cardinality({d \in Fd : ofile[p][d] = f})]]

\* sys_dup(): a second descriptor for the file.
DupFile(p, f) == /\ Unused(p) # {}
                 /\ ofile' = [ofile EXCEPT ![p] = WithFds(p, <<f>>)]
                 /\ ftable' = [ftable EXCEPT ![f].ref = @ + 1]

\* fileclose(): one reference less; the last one frees the structure.
DropFile(f) ==
    ftable' = IF ftable[f].ref = 1 THEN [ftable EXCEPT ![f] = Closed]
              ELSE [ftable EXCEPT ![f].ref = @ - 1]

\* The descriptors that refer to f, over all processes.
Descriptors(f) == {x \in Proc \X Fd : ofile[x[1]][x[2]] = f}

\* The processes with a descriptor for a pipe end.
Holders(writable) == {p \in Proc : \E d \in Fd :
    /\ ofile[p][d] # None
    /\ ftable[ofile[p][d]].type = "PIPE"
    /\ ftable[ofile[p][d]].writable = writable}
=============================================================================
