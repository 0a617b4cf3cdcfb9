------------------------------ MODULE MCIndex ------------------------------
(* Model checking EfIndex: threads are interchangeable.  Keys are not,     *)
(* since their numbers decide where entries live.                          *)
EXTENDS EfIndex, TLC

CONSTANTS s1, s2

Symmetry == Permutations(Threads)

(* One key is put with either slot and with none.                          *)
SomePairs == {<<2, s1>>, <<2, s2>>, <<2, 0>>, <<3, s2>>, <<4, s1>>, <<6, s2>>, <<7, s1>>}

EveryPair == Keys \X Slots

(* No step depends on last or owed: where they are not part of an          *)
(* invariant, states that differ only in them count as one.                *)
View == <<opened, table, count, callVars, counted>>

=============================================================================
