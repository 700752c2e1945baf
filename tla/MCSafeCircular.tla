--------------------------- MODULE MCSafeCircular ---------------------------
(* Model-checking instance of the ring buffer. *)
EXTENDS CircularRefinement, TLC

\* Threads are interchangeable, and so are elements.
Symmetry == Permutations(Thread) \cup Permutations(Value)
=============================================================================
