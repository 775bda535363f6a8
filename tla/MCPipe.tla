------------------------------- MODULE MCPipe -------------------------------
\* One pipe; processes and bytes are interchangeable where no liveness is checked.
EXTENDS Pipe, TLC

Symmetry == Permutations(Proc) \cup Permutations(Data)
=============================================================================
