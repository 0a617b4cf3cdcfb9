------------------------------ MODULE MCQueue ------------------------------
(* Model checking EfQueue: threads are interchangeable, and so are slots.  *)
EXTENDS EfQueue, TLC

Symmetry == Permutations(Threads) \cup Permutations(Slots)
=============================================================================
