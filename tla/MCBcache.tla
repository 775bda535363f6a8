------------------------------ MODULE MCBcache ------------------------------
\* The buffer cache with interchangeable processes and blocks.
EXTENDS Bcache, TLC

Symmetry == Permutations(Proc) \cup Permutations(Block)
=============================================================================
