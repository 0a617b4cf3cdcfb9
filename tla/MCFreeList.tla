----------------------------- MODULE MCFreeList -----------------------------
(* Model checking EfFreeList: two threads, three slots.  The run checks a  *)
(* liveness property, so that threads are not declared interchangeable.    *)
EXTENDS EfFreeList
=============================================================================
