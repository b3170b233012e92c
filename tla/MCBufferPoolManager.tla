------------------------- MODULE MCBufferPoolManager -------------------------
(* Model-checking instance of BufferPoolManager: threads, guard objects   *)
(* and page values are model values, and interchangeable.                 *)
EXTENDS BufferPoolManager, TLC

Symmetry == Permutations(Threads) \cup Permutations(Guards) \cup Permutations(Values)
=============================================================================
