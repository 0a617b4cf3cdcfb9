----------------------------- MODULE MCSeqlock -----------------------------
(* Model checking EfSeqlock: one handle for all threads.                   *)
EXTENDS EfSeqlock

(* A slot for each key, and for two of them also the slot of another one.  *)
SomePairs == {<<3, 1>>, <<7, 2>>, <<4, 3>>, <<3, 3>>, <<7, 1>>}

OneHandle == [t \in Threads |-> 1]
=============================================================================
