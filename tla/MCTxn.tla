------------------------------- MODULE MCTxn -------------------------------
(* Model checking EfTxn: a few slots, one that ef_grow can add, a short    *)
(* log, and one key that callers put to either of two slots.               *)
EXTENDS EfTxn

OneKey == {<<1, 1>>, <<1, 2>>}
=============================================================================
