------------------------------ MODULE MCMemory ------------------------------
(***************************************************************************)
(* Instances of Memory with the classes of the real constructor.           *)
(***************************************************************************)
EXTENDS Memory, TLC

\* Memory.cpp, lines 14, 26 and 38.
CodeBands == <<[step |-> 32, last |-> 1024], [step |-> 128, last |-> 2048],
               [step |-> 256, last |-> 4096]>>

\* The third loop goes on from 2080, where the second left `size', by 256: its
\* last class is 3872, and no class holds 3873 to 4096 bytes, which Allocate
\* still looks up in the table.  Memory.h:14 has the classes go on up to 4096.
ASSUME CodeTable == Max(PoolsOf(CodeBands)) = 3872

Symmetry == Permutations(Threads)
=============================================================================
