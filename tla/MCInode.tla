------------------------------ MODULE MCInode ------------------------------
\* The files of one directory; processes and names are interchangeable.
EXTENDS Inode, TLC

Symmetry == Permutations(Proc) \cup Permutations(Name)
=============================================================================
