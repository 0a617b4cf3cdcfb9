-------------------------- MODULE EfSeqlockProofs --------------------------
(***************************************************************************)
(* Proofs about EfSeqlock, for every number of threads, keys, slots,       *)
(* capacities, sections and attempts, when the threads share one handle    *)
(* (index_seq is a field of the handle).                                   *)
(***************************************************************************)
EXTENDS EfSeqlock, EfTableProofs

LOCAL INSTANCE FiniteSetsExt    \* Min, Max

-----------------------------------------------------------------------------
(* Numbers.                                                                *)

(* A capacity is a positive number, and there is a largest one.            *)
LEMMA LargestCap ==
  /\ Max(Caps) \in Caps /\ \A c \in Caps : c <= Max(Caps)
  /\ \A c \in Caps : c \in Nat /\ c # 0
<1>1. \A c \in Caps : c \in Nat /\ c # 0
  BY SeqCaps
<1>2. PICK m \in Caps : \A c \in Caps : c <= m
  BY SeqLargest
<1>3. \E x \in Caps : \A y \in Caps : x >= y
  BY <1>1, <1>2
<1>4. Max(Caps) \in Caps /\ \A y \in Caps : Max(Caps) >= y
  BY <1>3 DEF Max
<1> QED BY <1>1, <1>4

(* A position is a number below the capacity.                              *)
LEMMA PosBelow ==
  ASSUME NEW x \in Int, NEW c \in Nat, c # 0
  PROVE x % c \in 0..(c - 1)
OBVIOUS

(* ef_index_slots_base is a number of slots.                               *)
LEMMA BaseNat ==
  ASSUME NEW c \in Nat
  PROVE SlotsBase(c) \in Nat
BY SeqCaps DEF SlotsBase

-----------------------------------------------------------------------------
(* Entries, tables and stores that fit a layout: an entry of a table of    *)
(* capacity c is empty, or it has the offset of a slot that contains the   *)
(* record of its key.                                                      *)
Word == [key : Int, off : Int]
FineEntry(c, pay) ==
  {e \in [key : Nat, off : Nat] :
     IF e.off = 0 THEN e.key = 0
     ELSE SlotId(c, e.off) \in Slots /\ pay[SlotId(c, e.off)] = e.key}
FineTable(c, pay) == [0..(c - 1) -> FineEntry(c, pay)]
FineStore(c, pay) == [at : 0..(c - 1), entry : FineEntry(c, pay)]

(* An empty entry fits every layout.                                       *)
LEMMA EmptyFine ==
  ASSUME NEW c, NEW pay
  PROVE Empty \in FineEntry(c, pay)
BY DEF Empty, FineEntry

(* So does an empty table.                                                 *)
LEMMA EmptyTableFine ==
  ASSUME NEW c, NEW pay
  PROVE EmptyTable(c) \in FineTable(c, pay)
BY EmptyFine DEF EmptyTable, FineTable

(* The state of the loop of ef_index_put_entry.                            *)
PutState(c, pay) ==
  [table : FineTable(c, pay), incoming : FineEntry(c, pay), home : Int, added : BOOLEAN,
   err : {"LOOP", "OK", "INDEX_FULL"}]

(* The loop starts in such a state.                                        *)
LEMMA PutStartFine ==
  ASSUME NEW c \in Nat, c # 0, NEW pay, NEW T \in FineTable(c, pay),
         NEW k, NEW s, [key |-> k, off |-> s] \in FineEntry(c, pay)
  PROVE PutStart(T, k, s) \in PutState(c, pay)
<1>1. Capacity(T) = c
  BY CapacityIs DEF FineTable
<1>2. k \in Nat
  <2>1. [key |-> k, off |-> s] \in [key : Nat, off : Nat]
    BY DEF FineEntry
  <2> QED BY <2>1
<1>3. Home(Capacity(T), k) \in Int
  BY <1>1, <1>2 DEF Home
<1> QED BY <1>3 DEF PutStart, PutState

(* A turn moves entries that fit, and keeps them that way.                 *)
LEMMA PutStepFine ==
  ASSUME NEW c \in Nat, c # 0, NEW pay,
         NEW k, NEW s, [key |-> k, off |-> s] \in FineEntry(c, pay),
         NEW st \in PutState(c, pay), NEW n \in Int
  PROVE PutStep(k, s, st, n) \in PutState(c, pay)
<1> DEFINE pos == n % c
           old == st.table[pos]
           r1 == [st EXCEPT !.err = "INDEX_FULL"]
           r2 == [st EXCEPT !.table[pos] = st.incoming, !.added = TRUE, !.err = "OK"]
           r3 == [st EXCEPT !.table[pos] = [key |-> k, off |-> s], !.err = "OK"]
           r4 == [st EXCEPT !.table[pos] = st.incoming, !.incoming = old, !.home = Home(c, old.key)]
<1>1. st.table \in FineTable(c, pay) /\ st.incoming \in FineEntry(c, pay)
  BY DEF PutState
<1>2. Capacity(st.table) = c
  BY <1>1, CapacityIs DEF FineTable
<1>3. pos \in 0..(c - 1)
  BY PosBelow
<1>4. PutStep(k, s, st, n) \in {st, r1, r2, r3, r4}
  BY <1>2 DEF PutStep
<1> HIDE DEF pos
<1>5. old \in FineEntry(c, pay)
  BY <1>1, <1>3 DEF FineTable
<1>6. old.key \in Nat
  BY <1>5 DEF FineEntry
<1>7. Home(c, old.key) \in Int
  BY <1>6 DEF Home
<1> HIDE DEF old
<1>8. \A e \in FineEntry(c, pay) : [st.table EXCEPT ![pos] = e] \in FineTable(c, pay)
  BY <1>1, <1>3 DEF FineTable
<1>9. r1 \in PutState(c, pay)
  BY DEF PutState
<1>10. r2 \in PutState(c, pay)
  BY <1>1, <1>8 DEF PutState
<1>11. r3 \in PutState(c, pay)
  BY <1>1, <1>8 DEF PutState
<1>12. r4 \in PutState(c, pay)
  BY <1>1, <1>5, <1>7, <1>8 DEF PutState
<1> HIDE DEF r1, r2, r3, r4
<1> QED BY <1>4, <1>9, <1>10, <1>11, <1>12

-----------------------------------------------------------------------------
(* The loops.  A recursive function on 0..n is what its turns make of it,  *)
(* and what each turn keeps, the loop keeps.                               *)

(* ef_index_put_entry leaves a table whose entries fit.                    *)
LEMMA PutEntryFine ==
  ASSUME NEW c \in Nat, c # 0, NEW pay, NEW T \in FineTable(c, pay),
         NEW k, NEW s, [key |-> k, off |-> s] \in FineEntry(c, pay)
  PROVE PutEntry(T, k, s) \in PutState(c, pay)
<1> DEFINE f == CHOOSE g : IsPut(g, T, k, s, 2 * c)
           S == {m \in 0..(2 * c) : f[m] \in PutState(c, pay)}
<1>1. Capacity(T) = c
  BY CapacityIs DEF FineTable
<1>2. PutEntry(T, k, s) = f[2 * c]
  BY <1>1 DEF PutEntry, IsPut
<1>3. 2 * c \in Nat
  OBVIOUS
<1>4. IsPut(f, T, k, s, 2 * c)
  BY <1>3, PutExists
<1> HIDE DEF f
<1>5. k \in Nat
  <2>1. [key |-> k, off |-> s] \in [key : Nat, off : Nat]
    BY DEF FineEntry
  <2> QED BY <2>1
<1>6. 0 \in S
  BY <1>4, PutStartFine DEF IsPut
<1>7. ASSUME NEW m \in 1..(2 * c), m - 1 \in S PROVE m \in S
  <2>1. f[m] = PutStep(k, s, f[m - 1], Home(c, k) + m - 1)
    BY <1>1, <1>4 DEF IsPut
  <2>2. Home(c, k) + m - 1 \in Int
    BY <1>5 DEF Home
  <2>3. f[m] \in PutState(c, pay)
    BY <1>7, <2>1, <2>2, PutStepFine
  <2> QED BY <2>3
<1> HIDE DEF S
<1>8. 2 * c \in S
  BY <1>3, <1>6, <1>7, BoundedInduction
<1> QED BY <1>2, <1>8 DEF S

(* The turns of ef_index_put_entry with the stores they make.              *)
PutFirst(T, k, off) == [st |-> PutStart(T, k, off), stores |-> <<>>]
IsTurns(f, T, k, off, n) ==
  f = [m \in 0..n |->
         IF m = 0 THEN PutFirst(T, k, off)
         ELSE PutTurn(k, off, f[m - 1], Home(Capacity(T), k) + m - 1)]

(* There is such a function.                                               *)
LEMMA TurnsExist ==
  ASSUME NEW T, NEW k, NEW off
  PROVE \A n \in Nat : \E f : IsTurns(f, T, k, off, n)
<1> DEFINE S == {n \in Nat : \E f : IsTurns(f, T, k, off, n)}
           h == Home(Capacity(T), k)
<1>1. 0 \in S
  <2> DEFINE f == [m \in 0..0 |-> PutFirst(T, k, off)]
  <2>1. f = [m \in 0..0 |-> IF m = 0 THEN PutFirst(T, k, off) ELSE PutTurn(k, off, f[m - 1], h + m - 1)]
    OBVIOUS
  <2> QED BY <2>1 DEF IsTurns
<1>2. ASSUME NEW n \in Nat, n \in S PROVE n + 1 \in S
  <2>1. PICK f : IsTurns(f, T, k, off, n)
    BY <1>2
  <2> DEFINE g == [m \in 0..n + 1 |->
                     IF m = 0 THEN PutFirst(T, k, off) ELSE PutTurn(k, off, f[m - 1], h + m - 1)]
  <2>2. \A m \in 0..n : g[m] = f[m]
    BY <2>1 DEF IsTurns
  <2>3. \A m \in 0..n + 1 : m # 0 => m - 1 \in 0..n
    OBVIOUS
  <2>4. g = [m \in 0..n + 1 |->
               IF m = 0 THEN PutFirst(T, k, off) ELSE PutTurn(k, off, g[m - 1], h + m - 1)]
    BY <2>2, <2>3
  <2>5. IsTurns(g, T, k, off, n + 1)
    BY <2>4 DEF IsTurns
  <2> HIDE DEF g
  <2> QED BY <2>5
<1> HIDE DEF S
<1>3. \A n \in Nat : n \in S
  BY <1>1, <1>2, SetInduction
<1> QED BY <1>3 DEF S

FineTurn(c, pay) == [st : PutState(c, pay), stores : Seq(FineStore(c, pay))]

(* A turn stores an entry that fits at a position of the table.            *)
LEMMA PutTurnFine ==
  ASSUME NEW c \in Nat, c # 0, NEW pay,
         NEW k, NEW off, [key |-> k, off |-> off] \in FineEntry(c, pay),
         NEW x \in FineTurn(c, pay), NEW n \in Int
  PROVE PutTurn(k, off, x, n) \in FineTurn(c, pay)
<1> DEFINE after == PutStep(k, off, x.st, n)
           pos == n % c
<1>1. x.st \in PutState(c, pay) /\ x.stores \in Seq(FineStore(c, pay))
  BY DEF FineTurn
<1>2. Capacity(x.st.table) = c
  BY <1>1, CapacityIs DEF PutState, FineTable
<1>3. pos \in 0..(c - 1)
  BY PosBelow
<1>4. after \in PutState(c, pay)
  BY <1>1, PutStepFine
<1>5. PutTurn(k, off, x, n) =
        [st |-> after,
         stores |-> IF after.table[pos] = x.st.table[pos] THEN x.stores
                    ELSE Append(x.stores, Store(pos, after.table[pos]))]
  BY <1>2 DEF PutTurn
<1> HIDE DEF after, pos
<1>6. after.table[pos] \in FineEntry(c, pay)
  BY <1>3, <1>4 DEF PutState, FineTable
<1>7. Store(pos, after.table[pos]) \in FineStore(c, pay)
  BY <1>3, <1>6 DEF Store, FineStore
<1>8. Append(x.stores, Store(pos, after.table[pos])) \in Seq(FineStore(c, pay))
  BY <1>1, <1>7
<1> QED BY <1>1, <1>4, <1>5, <1>8 DEF FineTurn

(* The stores of ef_index_put_entry are of entries that fit.               *)
LEMMA PutStoresFine ==
  ASSUME NEW c \in Nat, c # 0, NEW pay, NEW T \in FineTable(c, pay),
         NEW k, NEW off, [key |-> k, off |-> off] \in FineEntry(c, pay)
  PROVE PutStores(T, k, off) \in Seq(FineStore(c, pay))
<1> DEFINE f == CHOOSE g : IsTurns(g, T, k, off, 2 * c)
           S == {m \in 0..(2 * c) : f[m] \in FineTurn(c, pay)}
<1>1. Capacity(T) = c
  BY CapacityIs DEF FineTable
<1>2. PutStores(T, k, off) = f[2 * c].stores
  BY <1>1 DEF PutStores, IsTurns, PutFirst
<1>3. 2 * c \in Nat
  OBVIOUS
<1>4. IsTurns(f, T, k, off, 2 * c)
  BY <1>3, TurnsExist
<1> HIDE DEF f
<1>5. k \in Nat
  <2>1. [key |-> k, off |-> off] \in [key : Nat, off : Nat]
    BY DEF FineEntry
  <2> QED BY <2>1
<1>6. 0 \in S
  <2>1. PutFirst(T, k, off) \in FineTurn(c, pay)
    BY PutStartFine DEF PutFirst, FineTurn
  <2>2. f[0] = PutFirst(T, k, off)
    BY <1>4 DEF IsTurns
  <2> QED BY <2>1, <2>2
<1>7. ASSUME NEW m \in 1..(2 * c), m - 1 \in S PROVE m \in S
  <2>1. f[m] = PutTurn(k, off, f[m - 1], Home(c, k) + m - 1)
    BY <1>1, <1>4 DEF IsTurns
  <2>2. Home(c, k) + m - 1 \in Int
    BY <1>5 DEF Home
  <2>3. f[m] \in FineTurn(c, pay)
    BY <1>7, <2>1, <2>2, PutTurnFine
  <2> QED BY <2>3
<1> HIDE DEF S
<1>8. 2 * c \in S
  BY <1>3, <1>6, <1>7, BoundedInduction
<1>9. f[2 * c] \in FineTurn(c, pay)
  BY <1>8 DEF S
<1> QED BY <1>2, <1>9 DEF FineTurn

-----------------------------------------------------------------------------
(* The copy of the entries that a rehash makes.                            *)

(* Every entry of the copy is an entry of the table.                       *)
LEMMA BackupFine ==
  ASSUME NEW c \in Nat, c # 0, NEW pay, NEW T \in FineTable(c, pay)
  PROVE /\ Entries(T) \in Nat
        /\ DOMAIN Backup(T) = 1..Entries(T)
        /\ \A n \in 1..Entries(T) : Backup(T)[n] \in FineEntry(c, pay) /\ Backup(T)[n].off # 0
<1> DEFINE S == Occupied(T)
<1>1. S \in SUBSET (0..(c - 1))
  BY DEF Occupied, FineTable
<1>2. IsFiniteSet(S)
  BY <1>1, FinitePositions
<1>3. Entries(T) \in Nat
  BY <1>2, FS_CardinalityType DEF Entries
<1>4. DOMAIN Backup(T) = 1..Entries(T)
  BY DEF Backup
<1>5. ASSUME NEW n \in 1..Entries(T)
      PROVE Backup(T)[n] \in FineEntry(c, pay) /\ Backup(T)[n].off # 0
  <2> DEFINE p == CHOOSE q \in Occupied(T) : Cardinality(Below(Occupied(T), q)) = n - 1
  <2>1. \E q \in S : Cardinality(Below(S, q)) = n - 1
    BY <1>1, <1>3, NthPosition DEF Entries
  <2>2. p \in Occupied(T)
    BY <2>1
  <2>3. Backup(T)[n] = T[p]
    BY DEF Backup, Below
  <2> HIDE DEF p
  <2>4. p \in 0..(c - 1) /\ T[p].off # 0
    BY <2>2 DEF Occupied, FineTable
  <2>5. T[p] \in FineEntry(c, pay)
    BY <2>4 DEF FineTable
  <2> QED BY <2>3, <2>4, <2>5
<1> QED BY <1>3, <1>4, <1>5

(* ef_index_fixup_offset: an entry that fits the old layout fits the new   *)
(* one once its offset is adjusted.                                        *)
LEMMA FixupFine ==
  ASSUME NEW c \in Nat, c # 0, NEW d \in Nat, d # 0, NEW pay, NEW T \in FineTable(c, pay)
  PROVE /\ Len(Fixup(T, d)) = Entries(T) /\ Entries(T) \in Nat
        /\ \A n \in 1..Entries(T) : Fixup(T, d)[n] \in FineEntry(d, pay) /\ Fixup(T, d)[n].off # 0
<1>1. Capacity(T) = c
  BY CapacityIs DEF FineTable
<1>2. Entries(T) \in Nat
  BY BackupFine
<1>3. Len(Fixup(T, d)) = Entries(T)
  BY <1>2 DEF Fixup
<1>4. ASSUME NEW n \in 1..Entries(T)
      PROVE Fixup(T, d)[n] \in FineEntry(d, pay) /\ Fixup(T, d)[n].off # 0
  <2> DEFINE e == Backup(T)[n]
             g == [e EXCEPT !.off = @ + (SlotsBase(d) - SlotsBase(c))]
  <2>1. e \in FineEntry(c, pay) /\ e.off # 0
    BY BackupFine
  <2>2. Fixup(T, d)[n] = g
    BY <1>1 DEF Fixup
  <2> HIDE DEF e
  <2>3. e \in [key : Nat, off : Nat] /\ SlotId(c, e.off) \in Slots /\ pay[SlotId(c, e.off)] = e.key
    BY <2>1 DEF FineEntry
  <2>4. SlotsBase(c) \in Nat /\ SlotsBase(d) \in Nat
    BY BaseNat
  <2>5. SlotId(c, e.off) \in Nat /\ SlotId(c, e.off) # 0
    BY <2>3, SeqKeys
  <2>6. g = [key |-> e.key, off |-> e.off + (SlotsBase(d) - SlotsBase(c))]
    BY <2>3
  <2> HIDE DEF g
  <2>7. g.key = e.key /\ g.off = e.off + (SlotsBase(d) - SlotsBase(c))
    BY <2>6
  <2>8. g.off = SlotId(c, e.off) + SlotsBase(d) /\ SlotId(d, g.off) = SlotId(c, e.off)
    BY <2>3, <2>4, <2>7 DEF SlotId
  <2>9. g.off \in Nat /\ g.off # 0
    BY <2>4, <2>5, <2>8
  <2>10. g \in [key : Nat, off : Nat]
    BY <2>3, <2>6, <2>7, <2>9
  <2>11. g \in FineEntry(d, pay)
    BY <2>3, <2>7, <2>8, <2>9, <2>10 DEF FineEntry
  <2> QED BY <2>2, <2>9, <2>11
<1> QED BY <1>2, <1>3, <1>4

(* The loop that fills the new table.                                      *)
RefillFirst(c) == [table |-> EmptyTable(c), err |-> "OK", stores |-> <<>>]
IsRefill(f, entries, c, n) ==
  f = [m \in 0..n |-> IF m = 0 THEN RefillFirst(c) ELSE RefillTurn(f[m - 1], entries[m])]

(* There is such a function.                                               *)
LEMMA RefillExists ==
  ASSUME NEW entries, NEW c
  PROVE \A n \in Nat : \E f : IsRefill(f, entries, c, n)
<1> DEFINE S == {n \in Nat : \E f : IsRefill(f, entries, c, n)}
<1>1. 0 \in S
  <2> DEFINE f == [m \in 0..0 |-> RefillFirst(c)]
  <2>1. f = [m \in 0..0 |-> IF m = 0 THEN RefillFirst(c) ELSE RefillTurn(f[m - 1], entries[m])]
    OBVIOUS
  <2> QED BY <2>1 DEF IsRefill
<1>2. ASSUME NEW n \in Nat, n \in S PROVE n + 1 \in S
  <2>1. PICK f : IsRefill(f, entries, c, n)
    BY <1>2
  <2> DEFINE g == [m \in 0..n + 1 |-> IF m = 0 THEN RefillFirst(c) ELSE RefillTurn(f[m - 1], entries[m])]
  <2>2. \A m \in 0..n : g[m] = f[m]
    BY <2>1 DEF IsRefill
  <2>3. \A m \in 0..n + 1 : m # 0 => m - 1 \in 0..n
    OBVIOUS
  <2>4. g = [m \in 0..n + 1 |-> IF m = 0 THEN RefillFirst(c) ELSE RefillTurn(g[m - 1], entries[m])]
    BY <2>2, <2>3
  <2>5. IsRefill(g, entries, c, n + 1)
    BY <2>4 DEF IsRefill
  <2> HIDE DEF g
  <2> QED BY <2>5
<1> HIDE DEF S
<1>3. \A n \in Nat : n \in S
  BY <1>1, <1>2, SetInduction
<1> QED BY <1>3 DEF S

FineRefill(c, pay) ==
  [table : FineTable(c, pay), err : {"LOOP", "OK", "INDEX_FULL"}, stores : Seq(FineStore(c, pay))]

(* Each entry is put with stores that fit.                                 *)
LEMMA RefillTurnFine ==
  ASSUME NEW c \in Nat, c # 0, NEW pay, NEW r \in FineRefill(c, pay), NEW e \in FineEntry(c, pay)
  PROVE RefillTurn(r, e) \in FineRefill(c, pay)
<1> DEFINE put == PutEntry(r.table, e.key, e.off)
           more == PutStores(r.table, e.key, e.off)
<1>1. r.table \in FineTable(c, pay) /\ r.stores \in Seq(FineStore(c, pay))
  BY DEF FineRefill
<1>2. e = [key |-> e.key, off |-> e.off]
  BY DEF FineEntry
<1>3. put \in PutState(c, pay)
  BY <1>1, <1>2, PutEntryFine
<1>4. more \in Seq(FineStore(c, pay))
  BY <1>1, <1>2, PutStoresFine
<1>5. RefillTurn(r, e) = IF r.err # "OK" THEN r
                         ELSE [table |-> put.table, err |-> put.err, stores |-> r.stores \o more]
  BY DEF RefillTurn
<1> HIDE DEF put, more
<1>6. r.stores \o more \in Seq(FineStore(c, pay))
  BY <1>1, <1>4
<1>7. put.table \in FineTable(c, pay) /\ put.err \in {"LOOP", "OK", "INDEX_FULL"}
  BY <1>3 DEF PutState
<1> QED BY <1>5, <1>6, <1>7 DEF FineRefill

(* The stores of the whole loop, from an empty table.                      *)
LEMMA RefillFine ==
  ASSUME NEW c \in Nat, c # 0, NEW pay, NEW n \in Nat, NEW entries,
         \A m \in 1..n : entries[m] \in FineEntry(c, pay),
         NEW f, IsRefill(f, entries, c, n)
  PROVE f[n].stores \in Seq(FineStore(c, pay))
<1> DEFINE S == {m \in 0..n : f[m] \in FineRefill(c, pay)}
<1>1. 0 \in S
  <2>1. RefillFirst(c) \in FineRefill(c, pay)
    BY EmptyTableFine DEF RefillFirst, FineRefill
  <2>2. f[0] = RefillFirst(c)
    BY DEF IsRefill
  <2> QED BY <2>1, <2>2
<1>2. ASSUME NEW m \in 1..n, m - 1 \in S PROVE m \in S
  <2>1. f[m] = RefillTurn(f[m - 1], entries[m])
    BY DEF IsRefill
  <2>2. f[m] \in FineRefill(c, pay)
    BY <1>2, <2>1, RefillTurnFine
  <2> QED BY <2>2
<1> HIDE DEF S
<1>3. n \in S
  BY <1>1, <1>2, BoundedInduction
<1>4. f[n] \in FineRefill(c, pay)
  BY <1>3 DEF S
<1> QED BY <1>4 DEF FineRefill

-----------------------------------------------------------------------------
(* Plans: what the stores q that are still to come make of the words W.    *)
(* Either the table stays where it is, and each position fits or will be   *)
(* stored to; or the slots move first, then the capacity changes to d, and *)
(* every position of the new table is stored to after that.                *)
AnyStore == [at : Int, entry : Word]
Largest == Max(Caps)
Words == [0..(Largest - 1) -> Word]

StaysPlan(q, W, c, pay) ==
  /\ q \in Seq(FineStore(c, pay))
  /\ \A p \in 0..(c - 1) : W[p] \in FineEntry(c, pay) \/ \E j \in 1..Len(q) : q[j].at = p

MovesAt(q, b, d, pay) ==
  /\ q[b] = Bind(d)
  /\ \A j \in 1..Len(q) : j < b => q[j].at \in 0..(Largest - 1)
  /\ \A j \in 1..Len(q) : j > b => q[j] \in FineStore(d, pay)
  /\ \A p \in 0..(d - 1) : \E j \in 1..Len(q) : j > b /\ q[j].at = p

MovesPlan(q, pay) == \E b \in 1..Len(q) : \E d \in Caps : MovesAt(q, b, d, pay)

Planned(q, W, c, pay) ==
  /\ q \in Seq(AnyStore)
  /\ StaysPlan(q, W, c, pay) \/ MovesPlan(q, pay)

(* What fits is a word of the mapping, and a store of it is a store.       *)
LEMMA FineWords ==
  ASSUME NEW c \in Nat, NEW pay
  PROVE /\ FineEntry(c, pay) \subseteq Word
        /\ FineStore(c, pay) \subseteq AnyStore
        /\ \A x \in FineStore(c, pay) : x.at \in 0..(c - 1) /\ x.entry \in FineEntry(c, pay)
<1>1. FineEntry(c, pay) \subseteq Word
  BY DEF FineEntry, Word
<1>2. \A x \in FineStore(c, pay) : x.at \in 0..(c - 1) /\ x.entry \in FineEntry(c, pay)
  BY DEF FineStore
<1>3. ASSUME NEW x \in FineStore(c, pay) PROVE x \in AnyStore
  <2>1. x = [at |-> x.at, entry |-> x.entry]
    BY DEF FineStore
  <2>2. x.at \in Int /\ x.entry \in Word
    BY <1>1, <1>2
  <2> QED BY <2>1, <2>2 DEF AnyStore
<1> QED BY <1>1, <1>2, <1>3

(* A plan for a table that fits.                                           *)
LEMMA StaysPlanned ==
  ASSUME NEW c \in Nat, NEW pay, NEW W, NEW q \in Seq(FineStore(c, pay)),
         \A p \in 0..(c - 1) : W[p] \in FineEntry(c, pay)
  PROVE Planned(q, W, c, pay)
<1>1. FineStore(c, pay) \subseteq AnyStore
  BY FineWords
<1>2. q \in Seq(AnyStore)
  BY <1>1
<1> QED BY <1>2 DEF Planned, StaysPlan

(* Without stores there is nothing to wait for.                            *)
LEMMA PlanDone ==
  ASSUME NEW c \in Nat, NEW pay, NEW W, Planned(<<>>, W, c, pay)
  PROVE \A p \in 0..(c - 1) : W[p] \in FineEntry(c, pay)
<1>1. Len(<<>>) = 0
  OBVIOUS
<1>2. ~MovesPlan(<<>>, pay)
  BY <1>1 DEF MovesPlan
<1> QED BY <1>1, <1>2 DEF Planned, StaysPlan

(* ef_index_bind_layout is a step of its own.                              *)
LEMMA PlanBinds ==
  ASSUME NEW c \in Nat, NEW pay, NEW W, NEW q, Planned(q, W, c, pay), q # <<>>, Head(q).at = -1
  PROVE /\ Head(q).entry.off \in Caps /\ Head(q) = Bind(Head(q).entry.off)
        /\ Planned(Tail(q), W, Head(q).entry.off, pay)
<1>1. q \in Seq(AnyStore) /\ Len(q) \in Nat /\ Len(q) >= 1 /\ Head(q) = q[1]
  BY DEF Planned
<1>2. ~StaysPlan(q, W, c, pay)
  <2> SUFFICES ASSUME StaysPlan(q, W, c, pay) PROVE FALSE
    OBVIOUS
  <2>1. q[1] \in FineStore(c, pay)
    BY <1>1 DEF StaysPlan
  <2> QED BY <1>1, <2>1, FineWords
<1>3. PICK b \in 1..Len(q), d \in Caps : MovesAt(q, b, d, pay)
  BY <1>2 DEF Planned, MovesPlan
<1>4. b = 1
  <2> SUFFICES ASSUME 1 < b PROVE FALSE
    BY <1>1
  <2>1. q[1].at \in 0..(Largest - 1)
    BY <1>1, <1>3 DEF MovesAt
  <2> QED BY <1>1, <2>1
<1>5. Head(q).entry.off = d /\ Head(q) = Bind(d)
  BY <1>1, <1>3, <1>4 DEF MovesAt, Bind
<1> DEFINE r == Tail(q)
<1>6. r \in Seq(AnyStore) /\ Len(r) = Len(q) - 1 /\ \A j \in 1..Len(r) : r[j] = q[j + 1]
  BY <1>1
<1> HIDE DEF r
<1>7. \A j \in 1..Len(r) : r[j] \in FineStore(d, pay)
  BY <1>1, <1>3, <1>4, <1>6 DEF MovesAt
<1>8. r \in Seq(FineStore(d, pay))
  BY <1>6, <1>7
<1>9. ASSUME NEW p \in 0..(d - 1) PROVE \E j \in 1..Len(r) : r[j].at = p
  <2>1. PICK j \in 1..Len(q) : j > 1 /\ q[j].at = p
    BY <1>3, <1>4 DEF MovesAt
  <2>2. j - 1 \in 1..Len(r) /\ r[j - 1] = q[j]
    BY <1>1, <1>6, <2>1
  <2> QED BY <2>1, <2>2
<1>10. StaysPlan(r, W, d, pay)
  BY <1>8, <1>9 DEF StaysPlan
<1> QED BY <1>5, <1>6, <1>10 DEF Planned, r

(* A store that is next is to a word of the mapping.                       *)
LEMMA PlanAt ==
  ASSUME NEW c \in Caps, NEW pay, NEW W, NEW q, Planned(q, W, c, pay), q # <<>>, Head(q).at # -1
  PROVE Head(q).at \in 0..(Largest - 1) /\ Head(q).entry \in Word
<1>1. q \in Seq(AnyStore) /\ Len(q) \in Nat /\ Len(q) >= 1 /\ Head(q) = q[1] /\ q[1] \in AnyStore
  BY DEF Planned
<1>2. q[1].entry \in Word
  BY <1>1 DEF AnyStore
<1>3. c \in Nat /\ Largest \in Nat /\ c <= Largest
  BY LargestCap DEF Largest
<1>4. CASE StaysPlan(q, W, c, pay)
  <2>1. q[1] \in FineStore(c, pay)
    BY <1>1, <1>4 DEF StaysPlan
  <2>2. q[1].at \in 0..(c - 1)
    BY <1>3, <2>1, FineWords
  <2> QED BY <1>1, <1>2, <1>3, <2>2
<1>5. CASE MovesPlan(q, pay)
  <2>1. PICK b \in 1..Len(q), d \in Caps : MovesAt(q, b, d, pay)
    BY <1>5 DEF MovesPlan
  <2>2. b # 1
    BY <1>1, <2>1 DEF MovesAt, Bind
  <2>3. 1 < b /\ 1 \in 1..Len(q)
    BY <1>1, <2>2
  <2>4. q[1].at \in 0..(Largest - 1)
    BY <2>1, <2>3 DEF MovesAt
  <2> QED BY <1>1, <1>2, <2>4
<1> QED BY <1>4, <1>5 DEF Planned

(* The first half of ef_hash_entry_store_atomic: the second is to come.    *)
LEMMA PlanHalf ==
  ASSUME NEW c \in Caps, NEW pay, NEW W \in Words, NEW q, Planned(q, W, c, pay), q # <<>>,
         NEW x
  PROVE Planned(q, [W EXCEPT ![Head(q).at] = x], c, pay)
<1> DEFINE V == [W EXCEPT ![Head(q).at] = x]
<1>1. q \in Seq(AnyStore) /\ Len(q) \in Nat /\ Len(q) >= 1 /\ Head(q) = q[1]
  BY DEF Planned
<1>2. c \in Nat /\ Largest \in Nat /\ c <= Largest
  BY LargestCap DEF Largest
<1>3. \A p \in 0..(c - 1) : p # q[1].at => V[p] = W[p]
  BY <1>1, <1>2 DEF Words
<1> HIDE DEF V
<1>4. ASSUME StaysPlan(q, W, c, pay) PROVE StaysPlan(q, V, c, pay)
  BY <1>1, <1>3, <1>4 DEF StaysPlan
<1> QED BY <1>1, <1>4 DEF Planned, V

(* The second half: the store is done.                                     *)
LEMMA PlanStored ==
  ASSUME NEW c \in Caps, NEW pay, NEW W \in Words, NEW q, Planned(q, W, c, pay), q # <<>>,
         Head(q).at # -1
  PROVE Planned(Tail(q), [W EXCEPT ![Head(q).at] = Head(q).entry], c, pay)
<1> DEFINE V == [W EXCEPT ![Head(q).at] = Head(q).entry]
           r == Tail(q)
<1>1. q \in Seq(AnyStore) /\ Len(q) \in Nat /\ Len(q) >= 1 /\ Head(q) = q[1]
  BY DEF Planned
<1>2. c \in Nat /\ Largest \in Nat /\ c <= Largest
  BY LargestCap DEF Largest
<1>3. r \in Seq(AnyStore) /\ Len(r) = Len(q) - 1 /\ \A j \in 1..Len(r) : r[j] = q[j + 1]
  BY <1>1
<1>4. \A p \in 0..(c - 1) : V[p] = IF p = q[1].at THEN q[1].entry ELSE W[p]
  BY <1>1, <1>2 DEF Words
<1> HIDE DEF V, r
<1>5. \A j \in 1..Len(q) : j # 1 => j - 1 \in 1..Len(r) /\ r[j - 1] = q[j]
  BY <1>1, <1>3
<1>6. ASSUME StaysPlan(q, W, c, pay) PROVE StaysPlan(r, V, c, pay)
  <2>1. \A j \in 1..Len(q) : q[j] \in FineStore(c, pay)
    BY <1>6 DEF StaysPlan
  <2>2. \A j \in 1..Len(r) : r[j] \in FineStore(c, pay)
    BY <1>1, <1>3, <2>1
  <2>3. r \in Seq(FineStore(c, pay))
    BY <1>3, <2>2
  <2>4. q[1].entry \in FineEntry(c, pay)
    BY <1>1, <1>2, <2>1, FineWords
  <2>5. ASSUME NEW p \in 0..(c - 1)
        PROVE V[p] \in FineEntry(c, pay) \/ \E j \in 1..Len(r) : r[j].at = p
    <3>1. CASE p = q[1].at
      BY <1>4, <2>4, <3>1
    <3>2. CASE p # q[1].at /\ W[p] \in FineEntry(c, pay)
      BY <1>4, <3>2
    <3>3. CASE p # q[1].at /\ \E j \in 1..Len(q) : q[j].at = p
      BY <1>5, <3>3
    <3> QED BY <1>6, <3>1, <3>2, <3>3 DEF StaysPlan
  <2> QED BY <2>3, <2>5 DEF StaysPlan
<1>7. ASSUME MovesPlan(q, pay) PROVE MovesPlan(r, pay)
  <2>1. PICK b \in 1..Len(q), d \in Caps : MovesAt(q, b, d, pay)
    BY <1>7 DEF MovesPlan
  <2>2. b # 1
    BY <1>1, <2>1 DEF MovesAt, Bind
  <2>3. b - 1 \in 1..Len(r) /\ r[b - 1] = q[b]
    BY <1>5, <2>2
  <2>4. \A j \in 1..Len(r) : j < b - 1 => r[j].at \in 0..(Largest - 1)
    BY <1>1, <1>3, <2>1 DEF MovesAt
  <2>5. \A j \in 1..Len(r) : j > b - 1 => r[j] \in FineStore(d, pay)
    BY <1>1, <1>3, <2>1 DEF MovesAt
  <2>6. ASSUME NEW p \in 0..(d - 1) PROVE \E j \in 1..Len(r) : j > b - 1 /\ r[j].at = p
    <3>1. PICK j \in 1..Len(q) : j > b /\ q[j].at = p
      BY <2>1 DEF MovesAt
    <3>2. j # 1 /\ j - 1 > b - 1
      BY <3>1
    <3> QED BY <1>5, <3>1, <3>2
  <2>7. MovesAt(r, b - 1, d, pay)
    BY <2>1, <2>3, <2>4, <2>5, <2>6 DEF MovesAt
  <2> QED BY <2>3, <2>7 DEF MovesPlan
<1> QED BY <1>3, <1>6, <1>7 DEF Planned, V, r

-----------------------------------------------------------------------------
(* Lookups in a table, and the stores that the calls plan.                 *)

(* The position of the first stop, as ef_index_find_entry_unlocked meets   *)
(* it: none of the n positions before it is empty or holds the key.        *)
LEMMA FoundAt ==
  ASSUME NEW c \in Nat, c # 0, NEW T, DOMAIN T = 0..(c - 1), NEW k \in Nat, NEW n \in 0..(c - 1),
         \A m \in 0..(n - 1) : T[Probe(c, k, m)].off # 0 /\ T[Probe(c, k, m)].key # k,
         T[Probe(c, k, n)].off = 0 \/ T[Probe(c, k, n)].key = k
  PROVE Find(T, k) = T[Probe(c, k, n)]
<1> DEFINE stops == {m \in 0..(c - 1) : T[Probe(c, k, m)].off = 0 \/ T[Probe(c, k, m)].key = k}
<1>1. Capacity(T) = c
  BY CapacityIs
<1>2. FindPos(T, k) = IF stops = {} THEN -1 ELSE (Home(c, k) + Min(stops)) % c
  BY <1>1 DEF FindPos, Probe
<1>3. n \in stops
  OBVIOUS
<1>4. \A m \in stops : m \in Nat /\ ~(m \in 0..(n - 1))
  OBVIOUS
<1>5. stops \subseteq Nat /\ stops # {}
  BY <1>3
<1> HIDE DEF stops
<1>6. Min(stops) \in stops /\ Min(stops) <= n
  BY <1>3, <1>5, LeastOf
<1>7. Min(stops) \in Nat /\ ~(Min(stops) \in 0..(n - 1))
  BY <1>4, <1>6
<1>8. Min(stops) = n
  BY <1>6, <1>7
<1>9. FindPos(T, k) = Probe(c, k, n)
  BY <1>2, <1>5, <1>8 DEF Probe
<1>10. Probe(c, k, n) \in 0..(c - 1)
  BY PosBelow DEF Probe, Home
<1>11. Probe(c, k, n) # -1
  BY <1>10
<1> QED BY <1>9, <1>11 DEF Find

(* A key that no position of its probe sequence holds is not found.        *)
LEMMA NotFoundAt ==
  ASSUME NEW c \in Nat, c # 0, NEW T, DOMAIN T = 0..(c - 1), NEW k \in Nat,
         \A m \in 0..(c - 1) : T[Probe(c, k, m)].off # 0 /\ T[Probe(c, k, m)].key # k
  PROVE Find(T, k) = Empty
<1>1. Capacity(T) = c
  BY CapacityIs
<1>2. FindPos(T, k) = -1
  BY <1>1 DEF FindPos, Probe
<1> QED BY <1>2 DEF Find

(* What a lookup finds is an entry of the table with the key.              *)
LEMMA FoundEntry ==
  ASSUME NEW c \in Nat, c # 0, NEW T, DOMAIN T = 0..(c - 1), NEW k \in Nat, Found(T, k)
  PROVE /\ FindPos(T, k) \in 0..(c - 1)
        /\ Find(T, k) = T[FindPos(T, k)]
        /\ Find(T, k).key = k
<1> DEFINE stops == {m \in 0..(c - 1) : T[Probe(c, k, m)].off = 0 \/ T[Probe(c, k, m)].key = k}
<1>1. Capacity(T) = c
  BY CapacityIs
<1>2. FindPos(T, k) = IF stops = {} THEN -1 ELSE (Home(c, k) + Min(stops)) % c
  BY <1>1 DEF FindPos, Probe
<1>3. FindPos(T, k) # -1
  BY DEF Found, Find, Empty
<1>4. stops # {} /\ stops \subseteq Nat
  BY <1>2, <1>3
<1>5. \A m \in stops : m \in Nat /\ (T[Probe(c, k, m)].off = 0 \/ T[Probe(c, k, m)].key = k)
  OBVIOUS
<1> HIDE DEF stops
<1>6. Min(stops) \in stops
  BY <1>4, LeastOf
<1>7. FindPos(T, k) = Probe(c, k, Min(stops))
  BY <1>2, <1>4 DEF Probe
<1>8. Probe(c, k, Min(stops)) \in 0..(c - 1)
  <2>1. Home(c, k) + Min(stops) \in Int
    BY <1>5, <1>6 DEF Home
  <2> QED BY <2>1, PosBelow DEF Probe
<1>9. Find(T, k) = T[FindPos(T, k)]
  BY <1>3 DEF Find
<1>10. T[FindPos(T, k)].off # 0
  BY <1>9 DEF Found
<1>11. T[FindPos(T, k)].key = k
  BY <1>5, <1>6, <1>7, <1>10
<1> QED BY <1>7, <1>8, <1>9, <1>11

(* The stores of ef_index_clear.                                           *)
LEMMA ClearStoresFine ==
  ASSUME NEW c \in Nat, c # 0, NEW pay
  PROVE ClearStores(c) \in Seq(FineStore(c, pay)) /\ Len(ClearStores(c)) = c
        /\ \A j \in 1..c : ClearStores(c)[j].at = j - 1
<1>1. \A j \in 1..c : Store(j - 1, Empty) \in FineStore(c, pay)
  BY EmptyFine DEF Store, FineStore
<1>2. ClearStores(c) \in [1..c -> FineStore(c, pay)]
  BY <1>1 DEF ClearStores
<1>3. \A j \in 1..c : ClearStores(c)[j].at = j - 1
  BY DEF ClearStores, Store
<1> QED BY <1>2, <1>3, LenOfFunction

(* A table whose entries fit is a table.                                   *)
LEMMA FineIsTable ==
  ASSUME NEW c \in Nat, NEW pay, NEW T \in FineTable(c, pay)
  PROVE T \in Tables(c, Nat)
BY DEF FineTable, FineEntry, Tables, Cells

(* The loop of ef_index_remove_by_hash, with the stores it has made.       *)
FineShift(c, pay) == [table : FineTable(c, pay), hole : 0..(c - 1), done : BOOLEAN]
FineShiftTurn(c, pay) == [st : FineShift(c, pay), stores : Seq(FineStore(c, pay))]
ShiftFirst(T, p) == [st |-> ShiftStart(T, p), stores |-> <<>>]
IsShiftTurns(f, T, p, n) ==
  f = [m \in 0..n |-> IF m = 0 THEN ShiftFirst(T, p) ELSE ShiftTurn(f[m - 1])]

(* There is such a function.                                               *)
LEMMA ShiftTurnsExist ==
  ASSUME NEW T, NEW p
  PROVE \A n \in Nat : \E f : IsShiftTurns(f, T, p, n)
<1> DEFINE S == {n \in Nat : \E f : IsShiftTurns(f, T, p, n)}
<1>1. 0 \in S
  <2> DEFINE f == [m \in 0..0 |-> ShiftFirst(T, p)]
  <2>1. f = [m \in 0..0 |-> IF m = 0 THEN ShiftFirst(T, p) ELSE ShiftTurn(f[m - 1])]
    OBVIOUS
  <2> QED BY <2>1 DEF IsShiftTurns
<1>2. ASSUME NEW n \in Nat, n \in S PROVE n + 1 \in S
  <2>1. PICK f : IsShiftTurns(f, T, p, n)
    BY <1>2
  <2> DEFINE g == [m \in 0..n + 1 |-> IF m = 0 THEN ShiftFirst(T, p) ELSE ShiftTurn(f[m - 1])]
  <2>2. \A m \in 0..n : g[m] = f[m]
    BY <2>1 DEF IsShiftTurns
  <2>3. \A m \in 0..n + 1 : m # 0 => m - 1 \in 0..n
    OBVIOUS
  <2>4. g = [m \in 0..n + 1 |-> IF m = 0 THEN ShiftFirst(T, p) ELSE ShiftTurn(g[m - 1])]
    BY <2>2, <2>3
  <2>5. IsShiftTurns(g, T, p, n + 1)
    BY <2>4 DEF IsShiftTurns
  <2> HIDE DEF g
  <2> QED BY <2>5
<1> HIDE DEF S
<1>3. \A n \in Nat : n \in S
  BY <1>1, <1>2, SetInduction
<1> QED BY <1>3 DEF S

(* A turn of the loop changes one entry, the one at the gap, and stores    *)
(* what it becomes.                                                        *)
LEMMA ShiftTurnIs ==
  ASSUME NEW c \in Nat, c # 0, NEW pay, NEW x \in FineShiftTurn(c, pay)
  PROVE LET y == ShiftTurn(x)
            q == x.st.hole IN
        /\ y \in FineShiftTurn(c, pay) /\ y.st = ShiftStep(x.st)
        /\ \/ y.st.table = x.st.table /\ y.stores = x.stores
           \/ /\ y.stores = Append(x.stores, Store(q, y.st.table[q]))
              /\ q \in 0..(c - 1) /\ y.st.table[q] \in FineEntry(c, pay)
              /\ \A p \in 0..(c - 1) : p # q => y.st.table[p] = x.st.table[p]
<1> DEFINE st == x.st
           W == st.table
           q == st.hole
           r == Succ(c, q)
           after == ShiftStep(st)
           y == ShiftTurn(x)
<1>1. st \in FineShift(c, pay) /\ x.stores \in Seq(FineStore(c, pay))
  BY DEF FineShiftTurn
<1>2. y = [st |-> after,
           stores |-> IF st.done THEN x.stores ELSE Append(x.stores, Store(q, after.table[q]))]
  BY DEF ShiftTurn
<1> HIDE DEF st
<1>3. W \in FineTable(c, pay) /\ q \in 0..(c - 1) /\ st.done \in BOOLEAN
  BY <1>1 DEF FineShift
<1>4. st \in ShiftStates(c, Nat)
  <2>1. W \in Tables(c, Nat)
    BY <1>3, FineIsTable
  <2> QED BY <1>1, <2>1 DEF FineShift, ShiftStates
<1>5. /\ st.done = TRUE => after = st
      /\ st.done = FALSE /\ Ends(c, W, r) =>
           after = [table |-> [W EXCEPT ![q] = Empty], hole |-> q, done |-> TRUE]
      /\ st.done = FALSE /\ ~Ends(c, W, r) =>
           after = [table |-> [W EXCEPT ![q] = W[r]], hole |-> r, done |-> FALSE]
  BY <1>4, ShiftStepIs
<1> HIDE DEF after, y
<1>6. r \in 0..(c - 1)
  BY <1>3 DEF Succ
<1> HIDE DEF r
<1>7. CASE st.done = TRUE
  <2>1. after = st /\ y.st = st /\ y.stores = x.stores /\ y \in FineShiftTurn(c, pay)
    BY <1>1, <1>2, <1>5, <1>7 DEF FineShiftTurn
  <2> QED BY <2>1 DEF st, y, after
<1>8. ASSUME NEW e \in FineEntry(c, pay), NEW h \in 0..(c - 1), NEW b \in BOOLEAN, st.done = FALSE,
             after = [table |-> [W EXCEPT ![q] = e], hole |-> h, done |-> b]
      PROVE /\ y \in FineShiftTurn(c, pay) /\ y.st = after
            /\ y.stores = Append(x.stores, Store(q, y.st.table[q]))
            /\ q \in 0..(c - 1) /\ y.st.table[q] \in FineEntry(c, pay)
            /\ \A p \in 0..(c - 1) : p # q => y.st.table[p] = W[p]
  <2>1. /\ [W EXCEPT ![q] = e] \in FineTable(c, pay) /\ [W EXCEPT ![q] = e][q] = e
        /\ \A p \in 0..(c - 1) : p # q => [W EXCEPT ![q] = e][p] = W[p]
    BY <1>3 DEF FineTable
  <2>2. after.table = [W EXCEPT ![q] = e] /\ after \in FineShift(c, pay)
    BY <1>8, <2>1 DEF FineShift
  <2>3. after.table[q] = e /\ \A p \in 0..(c - 1) : p # q => after.table[p] = W[p]
    BY <2>1, <2>2
  <2>4. y.st = after /\ y.stores = Append(x.stores, Store(q, e))
        /\ y = [st |-> after, stores |-> Append(x.stores, Store(q, e))]
    BY <1>2, <1>8, <2>3
  <2>5. Store(q, e) \in FineStore(c, pay)
    BY <1>3 DEF Store, FineStore
  <2>6. Append(x.stores, Store(q, e)) \in Seq(FineStore(c, pay))
    BY <1>1, <2>5
  <2>7. y \in FineShiftTurn(c, pay)
    BY <2>2, <2>4, <2>6 DEF FineShiftTurn
  <2> QED BY <1>3, <2>3, <2>4, <2>7
<1>9. CASE st.done = FALSE /\ Ends(c, W, r)
  <2>1. Empty \in FineEntry(c, pay)
    BY EmptyFine
  <2> QED BY <1>3, <1>5, <1>8, <1>9, <2>1 DEF st, y, after
<1>10. CASE st.done = FALSE /\ ~Ends(c, W, r)
  <2>1. W[r] \in FineEntry(c, pay)
    BY <1>3, <1>6 DEF FineTable
  <2> QED BY <1>5, <1>6, <1>8, <1>10, <2>1 DEF st, y, after
<1> QED BY <1>3, <1>7, <1>9, <1>10

(* The stores of ef_index_remove_by_hash are of entries that fit.          *)
LEMMA RemoveStoresFine ==
  ASSUME NEW c \in Nat, c # 0, NEW pay, NEW T \in FineTable(c, pay), NEW k \in Nat, Found(T, k)
  PROVE RemoveStores(T, k) \in Seq(FineStore(c, pay))
<1> DEFINE p == FindPos(T, k)
           N == c * c
           f == CHOOSE g : IsShiftTurns(g, T, p, c * c)
           S == {m \in 0..N : f[m] \in FineShiftTurn(c, pay)}
<1>1. Capacity(T) = c /\ DOMAIN T = 0..(c - 1)
  BY CapacityIs DEF FineTable
<1>2. p \in 0..(c - 1)
  BY <1>1, FoundEntry
<1>3. RemoveStores(T, k) = f[c * c].stores
  BY <1>1 DEF RemoveStores, ShiftStores, IsShiftTurns, ShiftFirst
<1>4. N \in Nat
  OBVIOUS
<1>5. IsShiftTurns(f, T, p, c * c)
  BY <1>4, ShiftTurnsExist
<1>6. f[N].stores = RemoveStores(T, k) /\ IsShiftTurns(f, T, p, N)
  BY <1>3, <1>5
<1> HIDE DEF f, p, N
<1>7. 0 \in S
  <2>1. ShiftStart(T, p) \in FineShift(c, pay)
    BY <1>2 DEF ShiftStart, FineShift
  <2>2. ShiftFirst(T, p) \in FineShiftTurn(c, pay)
    BY <2>1 DEF ShiftFirst, FineShiftTurn
  <2>3. f[0] = ShiftFirst(T, p)
    BY <1>4, <1>6 DEF IsShiftTurns
  <2> QED BY <1>4, <2>2, <2>3
<1>8. ASSUME NEW m \in 1..N, m - 1 \in S PROVE m \in S
  <2>1. f[m] = ShiftTurn(f[m - 1])
    BY <1>4, <1>6 DEF IsShiftTurns
  <2>2. f[m] \in FineShiftTurn(c, pay)
    BY <1>8, <2>1, ShiftTurnIs
  <2> QED BY <1>4, <2>2
<1> HIDE DEF S
<1>9. N \in S
  BY <1>4, <1>7, <1>8, BoundedInduction
<1> QED BY <1>6, <1>9 DEF S, FineShiftTurn

(* The stores of ef_index_rehash_to: whatever becomes of the words beyond  *)
(* the new table, each of its positions is stored to after the change of   *)
(* the capacity.                                                           *)
LEMMA RehashPlanned ==
  ASSUME NEW c \in Caps, NEW d \in Caps, NEW pay, NEW T \in FineTable(c, pay), NEW W
  PROVE Planned(RehashStores(T, d), W, c, pay)
<1> DEFINE entries == Fixup(T, d)
           n == c - d
           moved == [j \in 1..n |-> Store(d + j - 1, SlotBytes)]
           f == CHOOSE g : IsRefill(g, entries, d, Len(entries))
           A == moved \o <<Bind(d)>>
           B == ClearStores(d)
           C == f[Len(entries)].stores
           q == A \o B \o C
           a == IF n < 0 THEN 0 ELSE n
<1>1. c \in Nat /\ c # 0 /\ d \in Nat /\ d # 0 /\ Largest \in Nat /\ c <= Largest
  BY LargestCap DEF Largest
<1>2. Capacity(T) = c
  BY <1>1, CapacityIs DEF FineTable
<1>3. Len(entries) = Entries(T) /\ Entries(T) \in Nat
      /\ \A m \in 1..Entries(T) : entries[m] \in FineEntry(d, pay)
  BY <1>1, FixupFine
<1>4. RehashStores(T, d) = q
  BY <1>2 DEF RehashStores, IsRefill, RefillFirst
<1>5. IsRefill(f, entries, d, Len(entries))
  BY <1>3, RefillExists
<1> HIDE DEF entries, f
<1>6. C \in Seq(FineStore(d, pay))
  BY <1>1, <1>3, <1>5, RefillFine
<1>7. B \in Seq(FineStore(d, pay)) /\ Len(B) = d /\ \A j \in 1..d : B[j].at = j - 1
  BY <1>1, ClearStoresFine
<1> HIDE DEF B, C
<1>8. FineStore(d, pay) \subseteq AnyStore
  BY <1>1, FineWords
<1>9. B \in Seq(AnyStore) /\ C \in Seq(AnyStore)
  BY <1>6, <1>7, <1>8
<1>10. moved \in Seq(AnyStore) /\ Len(moved) = a
       /\ \A j \in 1..a : moved[j].at \in 0..(Largest - 1)
  <2>1. ASSUME NEW j \in 1..n PROVE Store(d + j - 1, SlotBytes) \in AnyStore
    BY <1>1 DEF Store, SlotBytes, AnyStore, Word
  <2>2. moved \in [1..n -> AnyStore]
    BY <2>1
  <2>3. 1..n = 1..a /\ a \in Nat
    BY <1>1
  <2>4. \A j \in 1..n : moved[j].at \in 0..(Largest - 1)
    BY <1>1 DEF Store
  <2> HIDE DEF moved, a
  <2> QED BY <2>2, <2>3, <2>4, LenOfFunction
<1>11. a \in Nat
  BY <1>1
<1> HIDE DEF moved, a
<1>12. Bind(d) \in AnyStore
  BY <1>1 DEF Bind, AnyStore, Word
<1>13. A \in Seq(AnyStore) /\ Len(A) = a + 1 /\ A[a + 1] = Bind(d)
       /\ \A j \in 1..a : A[j] = moved[j]
  BY <1>10, <1>11, <1>12
<1> HIDE DEF A
<1>15. Len(C) \in Nat
  BY <1>6
<1> DEFINE AB == A \o B
<1>21. AB \in Seq(AnyStore) /\ Len(AB) = a + 1 + d
       /\ (\A j \in 1..(a + 1) : AB[j] = A[j])
       /\ (\A j \in 1..d : AB[a + 1 + j] = B[j])
  <2>1. Len(A) = a + 1 /\ Len(B) = d
    BY <1>7, <1>13
  <2>2. /\ AB \in Seq(AnyStore) /\ Len(AB) = Len(A) + Len(B)
        /\ \A j \in 1..Len(A) : AB[j] = A[j]
        /\ \A j \in 1..Len(B) : AB[Len(A) + j] = B[j]
    <3>1. A \in Seq(AnyStore) /\ B \in Seq(AnyStore)
      BY <1>9, <1>13
    <3> HIDE DEF AnyStore
    <3> QED BY <3>1
  <2> HIDE DEF AB
  <2> QED BY <2>1, <2>2
<1>22. q = AB \o C
  OBVIOUS
<1> HIDE DEF AB, q
<1>23. q \in Seq(AnyStore) /\ Len(q) = a + 1 + d + Len(C)
       /\ (\A j \in 1..(a + 1 + d) : q[j] = AB[j])
       /\ (\A j \in 1..Len(C) : q[a + 1 + d + j] = C[j])
  <2>1. Len(AB) = a + 1 + d /\ AB \in Seq(AnyStore)
    BY <1>21
  <2>2. /\ q \in Seq(AnyStore) /\ Len(q) = Len(AB) + Len(C)
        /\ \A j \in 1..Len(AB) : q[j] = AB[j]
        /\ \A j \in 1..Len(C) : q[Len(AB) + j] = C[j]
    <3>1. /\ AB \o C \in Seq(AnyStore) /\ Len(AB \o C) = Len(AB) + Len(C)
          /\ \A j \in 1..Len(AB) : (AB \o C)[j] = AB[j]
          /\ \A j \in 1..Len(C) : (AB \o C)[Len(AB) + j] = C[j]
      <4>1. C \in Seq(AnyStore)
        BY <1>9
      <4> HIDE DEF AnyStore
      <4> QED BY <2>1, <4>1
    <3> QED BY <1>22, <3>1
  <2> QED BY <2>1, <2>2
<1>14. /\ q \in Seq(AnyStore) /\ Len(q) = a + 1 + d + Len(C)
       /\ \A j \in 1..(a + 1) : q[j] = A[j]
       /\ \A j \in 1..d : q[a + 1 + j] = B[j]
       /\ \A j \in 1..Len(C) : q[a + 1 + d + j] = C[j]
  <2>1. \A j \in 1..(a + 1) : j \in 1..(a + 1 + d)
    BY <1>1, <1>11
  <2>2. \A j \in 1..d : a + 1 + j \in 1..(a + 1 + d)
    BY <1>1, <1>11
  <2> QED BY <1>21, <1>23, <2>1, <2>2
<1>16. ASSUME NEW j \in 1..Len(q), j > a + 1 PROVE q[j] \in FineStore(d, pay)
  <2>1. CASE j <= a + 1 + d
    <3>1. j - (a + 1) \in 1..d /\ j = a + 1 + (j - (a + 1))
      BY <1>1, <1>11, <1>16, <2>1
    <3>2. q[j] = B[j - (a + 1)]
      BY <1>14, <3>1
    <3> QED BY <1>7, <3>1, <3>2
  <2>2. CASE j > a + 1 + d
    <3>1. j - (a + 1 + d) \in 1..Len(C) /\ j = a + 1 + d + (j - (a + 1 + d))
      BY <1>1, <1>11, <1>14, <1>15, <2>2
    <3>2. q[j] = C[j - (a + 1 + d)]
      BY <1>14, <3>1
    <3> QED BY <1>6, <3>1, <3>2
  <2> QED BY <1>1, <1>11, <2>1, <2>2
<1>17. ASSUME NEW p \in 0..(d - 1) PROVE \E j \in 1..Len(q) : j > a + 1 /\ q[j].at = p
  <2>1. p + 1 \in 1..d /\ a + 1 + (p + 1) \in 1..Len(q) /\ a + 1 + (p + 1) > a + 1
    BY <1>1, <1>11, <1>14, <1>15
  <2>2. q[a + 1 + (p + 1)] = B[p + 1] /\ B[p + 1].at = p
    BY <1>7, <1>14, <2>1
  <2> QED BY <2>1, <2>2
<1>18. ASSUME NEW j \in 1..Len(q), j < a + 1 PROVE q[j].at \in 0..(Largest - 1)
  BY <1>10, <1>11, <1>13, <1>14, <1>18
<1>19. a + 1 \in 1..Len(q) /\ q[a + 1] = Bind(d)
  BY <1>1, <1>11, <1>13, <1>14, <1>15
<1>20. MovesAt(q, a + 1, d, pay)
  BY <1>16, <1>17, <1>18, <1>19 DEF MovesAt
<1>24. Planned(q, W, c, pay)
  BY <1>14, <1>19, <1>20 DEF Planned, MovesPlan
<1> QED BY <1>4, <1>24

(* A slot that no entry refers to receives a record: the entries of the    *)
(* table still fit, and so does the entry that ef_index_put makes of it.   *)
LEMMA PayloadStored ==
  ASSUME NEW c \in Nat, NEW pay \in [Slots -> Nat], NEW k \in Keys, NEW s \in Slots,
         NEW off, off = Offset(c, s)
  PROVE LET now == [pay EXCEPT ![s] = k] IN
        /\ \A e \in FineEntry(c, pay) : e.off # off => e \in FineEntry(c, now)
        /\ [key |-> k, off |-> off] \in FineEntry(c, now)
        /\ now \in [Slots -> Nat]
<1> DEFINE now == [pay EXCEPT ![s] = k]
<1>1. SlotsBase(c) \in Nat /\ s \in Nat /\ s # 0 /\ k \in Nat
  BY BaseNat, SeqKeys
<1>2. off \in Nat /\ off # 0 /\ SlotId(c, off) = s
  BY <1>1 DEF Offset, SlotId
<1>3. now[s] = k /\ now \in [Slots -> Nat] /\ \A u \in Slots : u # s => now[u] = pay[u]
  BY <1>1
<1> HIDE DEF now
<1>4. [key |-> k, off |-> off] \in FineEntry(c, now)
  BY <1>1, <1>2, <1>3 DEF FineEntry
<1>5. ASSUME NEW e \in FineEntry(c, pay), e.off # off PROVE e \in FineEntry(c, now)
  <2>1. e \in [key : Nat, off : Nat]
    BY DEF FineEntry
  <2>2. CASE e.off = 0
    BY <2>1, <2>2 DEF FineEntry
  <2>3. CASE e.off # 0
    <3>1. SlotId(c, e.off) \in Slots /\ pay[SlotId(c, e.off)] = e.key
      BY <2>3 DEF FineEntry
    <3>2. SlotId(c, e.off) # s
      BY <1>1, <1>2, <1>5, <2>1 DEF SlotId
    <3>3. now[SlotId(c, e.off)] = e.key
      BY <1>3, <3>1, <3>2
    <3> QED BY <2>1, <2>3, <3>1, <3>3 DEF FineEntry
  <2> QED BY <2>2, <2>3
<1> QED BY <1>3, <1>4, <1>5 DEF now

-----------------------------------------------------------------------------
(* The inductive invariant.                                                *)

(* The threads share a handle, and with it index_seq.                      *)
OneHandle == Threads # {} /\ \A t, u \in Threads : HandleOf[t] = HandleOf[u]
H == HandleOf[CHOOSE t \in Threads : TRUE]
SeqH == index_seq[H]
CapH == hash_capacity[H]

SectionLabels == {"seq_begin", "bind", "store_key", "store_off", "seq_end", "unlock"}
WriteLabels == {"bind", "store_key", "store_off", "seq_end"}
GetLabels == {"get_seq", "get_capacity", "get_off", "get_key", "get_empty", "get_check", "get_slot"}
IterLabels == {"iter_begin", "iter_off", "iter_key", "iter_empty", "iter_seq"}
ProbeLabels == {"get_off", "get_key", "get_empty"}
Started == ProbeLabels \cup {"get_check", "get_slot", "iter_off", "iter_key", "iter_empty", "iter_seq"}
Labels == {"idle"} \cup SectionLabels \cup GetLabels \cup IterLabels

MemTypes ==
  /\ words \in Words /\ payload \in [Slots -> Nat]
  /\ index_seq \in [Handles -> Nat] /\ hash_capacity \in [Handles -> Caps]
  /\ DOMAIN todo = Threads

LocalTypes ==
  /\ pc \in [Threads -> Labels]
  /\ key \in [Threads -> Keys \cup {0}]
  /\ seq1 \in [Threads -> Nat] /\ capacity \in [Threads -> Nat] /\ i \in [Threads -> Nat]
  /\ cur \in [Threads -> Word] /\ res \in [Threads -> Word]

(* One thread at a time is in a section, and it has the lock.              *)
Held ==
  \A t \in Threads : pc[t] \in SectionLabels =>
    write_lock = 1 /\ \A u \in Threads : pc[u] \in SectionLabels => u = t

(* index_seq is odd while a thread stores, and even otherwise.             *)
NoneWrites == \A t \in Threads : pc[t] \notin WriteLabels
Parity ==
  /\ \A t \in Threads : pc[t] \in WriteLabels => SeqH % 2 = 1
  /\ NoneWrites => SeqH % 2 = 0

(* The stores that are to come make a table whose entries fit, and the     *)
(* step that a writer is at is the first of them.                          *)
AtStore(l, q, W) ==
  /\ l = "bind" => q # <<>> /\ Head(q).at = -1
  /\ l \in {"store_key", "store_off"} => q # <<>> /\ Head(q).at # -1
  /\ l = "store_off" => W[Head(q).at].key = Head(q).entry.key
  /\ l = "seq_end" => q = <<>>

Plans ==
  \A t \in Threads : pc[t] \in {"seq_begin"} \cup WriteLabels =>
    Planned(todo[t], words, CapH, payload) /\ AtStore(pc[t], todo[t], words)

(* While no thread stores, the table is that of the last section, and its  *)
(* entries fit.                                                            *)
Quiet ==
  NoneWrites =>
    content = Table(CapH) /\ \A p \in 0..(CapH - 1) : words[p] \in FineEntry(CapH, payload)

(* What a reader knows: where it stands, and, as long as index_seq is the  *)
(* even number that it loaded, what it has seen of the table T.            *)
Stands(l, k, s, c, n, sq) ==
  /\ s <= sq
  /\ l \in GetLabels => k \in Keys
  /\ l \in GetLabels \ {"get_seq"} => s % 2 = 0
  /\ l \notin Started => n = 0
  /\ l \in ProbeLabels \cup IterLabels => c \in Caps /\ n < c

Passed(T, c, k, n) ==
  \A m \in 0..(n - 1) : T[Probe(c, k, m)].off # 0 /\ T[Probe(c, k, m)].key # k

Seen(l, k, c, n, e, r, cap, T) ==
  /\ l \in ProbeLabels => c = cap /\ Passed(T, cap, k, n)
  /\ l = "get_key" => e.off = T[Probe(cap, k, n)].off
  /\ l = "get_empty" => e = T[Probe(cap, k, n)]
  /\ l \in {"get_check", "get_slot"} => r = Find(T, k)
  /\ l = "get_slot" => r.off # 0
  /\ c = cap /\ l = "iter_key" => e.off = T[n].off
  /\ c = cap /\ l \in {"iter_empty", "iter_seq"} => e = T[n]

View(l, k, s, c, n, e, r, sq, cap, T) ==
  /\ Stands(l, k, s, c, n, sq)
  /\ s = sq /\ s % 2 = 0 => Seen(l, k, c, n, e, r, cap, T)

Views ==
  \A t \in Threads :
    View(pc[t], key[t], seq1[t], capacity[t], i[t], cur[t], res[t], SeqH, CapH, content)

SeqInv == MemTypes /\ LocalTypes /\ Held /\ Parity /\ Plans /\ Quiet /\ Views

-----------------------------------------------------------------------------
(* What the invariant says where it is used.                               *)

(* All threads see the same words.                                         *)
LEMMA SameHandle ==
  ASSUME OneHandle
  PROVE H \in Handles /\ \A t \in Threads : HandleOf[t] = H /\ SeqNow(t) = SeqH /\ CapNow(t) = CapH
BY DEF OneHandle, H, Handles, SeqNow, CapNow, SeqH, CapH

(* The handle's words are numbers.                                         *)
LEMMA HandleTypes ==
  ASSUME OneHandle, MemTypes
  PROVE SeqH \in Nat /\ CapH \in Caps /\ CapH \in Nat /\ CapH # 0 /\ CapH <= Largest
        /\ Largest \in Nat
<1>1. SeqH \in Nat /\ CapH \in Caps
  BY SameHandle DEF MemTypes, SeqH, CapH
<1> QED BY <1>1, LargestCap DEF Largest

(* The table while no thread stores.                                       *)
LEMMA QuietTable ==
  ASSUME OneHandle, MemTypes, Quiet, NoneWrites
  PROVE content \in FineTable(CapH, payload) /\ content = Table(CapH)
        /\ \A p \in 0..(CapH - 1) : content[p] = words[p]
BY DEF Quiet, Table, FineTable

(* Loads of a table whose entries fit are of its words, not of the bytes   *)
(* of a slot.                                                              *)
LEMMA QuietLoads ==
  ASSUME OneHandle, MemTypes, Quiet, NoneWrites, NEW p \in 0..(CapH - 1)
  PROVE LoadOff(p) = {content[p].off} /\ LoadKey(p) = {content[p].key}
<1>1. content[p] = words[p] /\ words[p] \in FineEntry(CapH, payload)
  BY QuietTable DEF Quiet
<1>2. words[p].key \in Nat
  BY <1>1 DEF FineEntry
<1>3. words[p].key # -1
  BY <1>2
<1>4. words[p] # SlotBytes /\ words[p].key # SlotBytes.key
  BY <1>3 DEF SlotBytes
<1> QED BY <1>1, <1>4 DEF LoadOff, LoadKey

(* An even index_seq means that no thread stores.                          *)
LEMMA EvenQuiet ==
  ASSUME Parity, SeqH % 2 = 0
  PROVE NoneWrites
BY DEF Parity, NoneWrites

(* What a reader has seen does not matter when index_seq is odd.           *)
LEMMA ViewOdd ==
  ASSUME NEW l, NEW k, NEW s \in Nat, NEW c, NEW n, NEW e, NEW r, NEW sq \in Nat, sq % 2 = 1,
         NEW a, NEW b, NEW T, NEW U, View(l, k, s, c, n, e, r, sq, a, T)
  PROVE View(l, k, s, c, n, e, r, sq, b, U)
<1>1. ~(s = sq /\ s % 2 = 0)
  OBVIOUS
<1> QED BY <1>1 DEF View

(* What a reader has seen is out of date once index_seq goes on.           *)
LEMMA ViewNext ==
  ASSUME NEW l, NEW k, NEW s \in Nat, NEW c, NEW n, NEW e, NEW r, NEW sq \in Nat,
         NEW a, NEW b, NEW T, NEW U, View(l, k, s, c, n, e, r, sq, a, T)
  PROVE View(l, k, s, c, n, e, r, sq + 1, b, U)
<1>1. s <= sq /\ s <= sq + 1 /\ s # sq + 1
  BY DEF View, Stands
<1> QED BY <1>1 DEF View, Stands

(* A thread that does not read has seen nothing.                           *)
LEMMA ViewWriter ==
  ASSUME NEW l \in SectionLabels \cup {"idle"}, NEW m \in SectionLabels \cup {"idle"},
         NEW k, NEW s \in Nat, NEW c, NEW n, NEW e, NEW r, NEW sq \in Nat, NEW sq2 \in Nat, sq <= sq2,
         NEW a, NEW b, NEW T, NEW U, View(l, k, s, c, n, e, r, sq, a, T)
  PROVE View(m, k, s, c, n, e, r, sq2, b, U)
<1>1. l \notin Started /\ m \notin Started \cup GetLabels \cup IterLabels
  BY DEF SectionLabels, Started, GetLabels, IterLabels, ProbeLabels
<1>2. n = 0 /\ s <= sq2
  BY <1>1 DEF View, Stands
<1>3. Stands(m, k, s, c, n, sq2)
  BY <1>1, <1>2 DEF Stands, Started
<1>4. Seen(m, k, c, n, e, r, b, U)
  BY <1>1 DEF Seen, Started, ProbeLabels
<1> QED BY <1>3, <1>4 DEF View

-----------------------------------------------------------------------------
(* The steps of writers.                                                   *)

(* A section begins: nothing that readers look at has changed, and the     *)
(* plan is a good one for the payloads there are now.                      *)
LEMMA SectionKeeps ==
  ASSUME OneHandle, SeqInv, NEW t \in Threads, NEW q, Section(t, q),
         payload' \in [Slots -> Nat],
         \A p \in 0..(CapH - 1) : words[p] \in FineEntry(CapH, payload'),
         Planned(q, words, CapH, payload')
  PROVE SeqInv'
<1> USE DEF SeqInv
<1>1. /\ pc[t] = "idle" /\ write_lock = 0 /\ write_lock' = 1
      /\ todo' = [todo EXCEPT ![t] = q] /\ pc' = [pc EXCEPT ![t] = "seq_begin"]
      /\ UNCHANGED <<words, index_seq, hash_capacity, content>>
      /\ UNCHANGED <<key, seq1, capacity, i, cur, res>>
  BY DEF Section, Goto, readVars
<1>2. SeqH' = SeqH /\ CapH' = CapH /\ SeqH \in Nat
  BY <1>1, HandleTypes DEF SeqH, CapH
<1>3. MemTypes'
  BY <1>1 DEF MemTypes
<1>4. LocalTypes'
  BY <1>1 DEF LocalTypes, Labels, SectionLabels
<1>5. \A u \in Threads : pc[u] \notin SectionLabels
  BY <1>1 DEF Held
<1>6. \A u \in Threads : pc'[u] = IF u = t THEN "seq_begin" ELSE pc[u]
  BY <1>1 DEF LocalTypes
<1>7. Held'
  BY <1>1, <1>5, <1>6 DEF Held
<1>8. NoneWrites /\ NoneWrites'
  BY <1>5, <1>6 DEF NoneWrites, WriteLabels, SectionLabels
<1>9. Parity'
  BY <1>2, <1>8 DEF Parity, NoneWrites
<1>10. Plans'
  <2> SUFFICES ASSUME NEW u \in Threads, pc'[u] \in {"seq_begin"} \cup WriteLabels
               PROVE Planned(todo'[u], words', CapH', payload') /\ AtStore(pc'[u], todo'[u], words')
    BY DEF Plans
  <2>1. u = t
    BY <1>5, <1>6 DEF SectionLabels, WriteLabels
  <2>2. todo'[u] = q /\ pc'[u] = "seq_begin"
    BY <1>1, <1>6, <2>1 DEF MemTypes
  <2> QED BY <1>1, <1>2, <2>2 DEF AtStore
<1>11. Quiet'
  <2>1. content' = Table(CapH)'
    BY <1>1, <1>2, <1>8 DEF Quiet, Table
  <2> QED BY <1>1, <1>2, <2>1 DEF Quiet
<1>12. Views'
  <2> SUFFICES ASSUME NEW u \in Threads
               PROVE View(pc'[u], key[u], seq1[u], capacity[u], i[u], cur[u], res[u], SeqH, CapH, content)
    BY <1>1, <1>2 DEF Views
  <2>1. View(pc[u], key[u], seq1[u], capacity[u], i[u], cur[u], res[u], SeqH, CapH, content)
    BY DEF Views
  <2>2. CASE u # t
    BY <1>6, <2>1, <2>2
  <2>3. CASE u = t
    <3>1. pc[u] = "idle" /\ pc'[u] = "seq_begin"
      BY <1>1, <1>6, <2>3
    <3>2. "idle" \in SectionLabels \cup {"idle"} /\ "seq_begin" \in SectionLabels \cup {"idle"}
      BY DEF SectionLabels
    <3>3. seq1[u] \in Nat /\ SeqH <= SeqH
      BY <1>2 DEF LocalTypes
    <3> QED BY <1>2, <2>1, <3>1, <3>2, <3>3, ViewWriter
  <2> QED BY <2>2, <2>3
<1> QED BY <1>3, <1>4, <1>7, <1>9, <1>10, <1>11, <1>12

(* ef_index_put plans to store entries that fit.                           *)
LEMMA PutKeeps ==
  ASSUME OneHandle, SeqInv, NEW t \in Threads, NEW k \in Keys, NEW s \in Slots, Put(t, k, s)
  PROVE SeqInv'
<1> DEFINE T == Table(CapH)
           off == Offset(CapH, s)
           now == [payload EXCEPT ![s] = k]
<1>1. CapNow(t) = CapH
  BY SameHandle
<1>2. /\ \A p \in DOMAIN T : T[p].off # off
      /\ payload' = now /\ Section(t, PutStores(T, k, off))
  BY <1>1 DEF Put
<1>3. CapH \in Nat /\ CapH # 0 /\ payload \in [Slots -> Nat]
  BY HandleTypes DEF SeqInv, MemTypes
<1>4. NoneWrites
  <2>1. pc[t] = "idle" /\ write_lock = 0
    BY <1>2 DEF Section
  <2> QED BY <2>1 DEF SeqInv, Held, NoneWrites, WriteLabels, SectionLabels
<1>5. \A p \in 0..(CapH - 1) : words[p] \in FineEntry(CapH, payload) /\ T[p] = words[p]
  BY <1>4 DEF SeqInv, Quiet, Table
<1>6. DOMAIN T = 0..(CapH - 1) /\ T = [p \in 0..(CapH - 1) |-> T[p]]
  BY DEF Table
<1> HIDE DEF T, off
<1>7. /\ \A e \in FineEntry(CapH, payload) : e.off # off => e \in FineEntry(CapH, now)
      /\ [key |-> k, off |-> off] \in FineEntry(CapH, now)
      /\ now \in [Slots -> Nat]
  BY <1>3, PayloadStored DEF off
<1> HIDE DEF now
<1>8. \A p \in 0..(CapH - 1) : words[p] \in FineEntry(CapH, now) /\ T[p] \in FineEntry(CapH, now)
  BY <1>2, <1>5, <1>6, <1>7
<1>9. T \in FineTable(CapH, now)
  BY <1>6, <1>8 DEF FineTable
<1>10. PutStores(T, k, off) \in Seq(FineStore(CapH, now))
  BY <1>3, <1>7, <1>9, PutStoresFine
<1>11. Planned(PutStores(T, k, off), words, CapH, now)
  BY <1>3, <1>8, <1>10, StaysPlanned
<1> QED BY <1>2, <1>7, <1>8, <1>11, SectionKeeps

(* The table before a section whose call leaves the payloads alone.        *)
LEMMA BeforeSection ==
  ASSUME OneHandle, SeqInv, NEW t \in Threads, pc[t] = "idle", write_lock = 0
  PROVE /\ Table(CapH) \in FineTable(CapH, payload)
        /\ \A p \in 0..(CapH - 1) : words[p] \in FineEntry(CapH, payload)
        /\ CapH \in Caps /\ CapH \in Nat /\ CapH # 0 /\ payload \in [Slots -> Nat]
        /\ CapNow(t) = CapH
<1>1. NoneWrites
  BY DEF SeqInv, Held, NoneWrites, WriteLabels, SectionLabels
<1>2. \A p \in 0..(CapH - 1) : words[p] \in FineEntry(CapH, payload)
  BY <1>1 DEF SeqInv, Quiet
<1>3. Table(CapH) \in FineTable(CapH, payload)
  BY <1>2 DEF Table, FineTable
<1> QED BY <1>2, <1>3, HandleTypes, SameHandle DEF SeqInv, MemTypes

(* ef_index_remove, ef_index_clear, ef_index_rehash_to, and a section      *)
(* without a store.                                                        *)
LEMMA OtherSectionsKeep ==
  ASSUME OneHandle, SeqInv, NEW t \in Threads,
         (\E k \in Keys : Remove(t, k)) \/ Clear(t) \/ NoChange(t) \/ (\E c \in Caps : Rehash(t, c))
  PROVE SeqInv'
<1> DEFINE T == Table(CapH)
<1>1. pc[t] = "idle" /\ write_lock = 0 /\ payload' = payload
  BY DEF Remove, Clear, NoChange, Rehash, Section
<1>2. /\ T \in FineTable(CapH, payload)
      /\ \A p \in 0..(CapH - 1) : words[p] \in FineEntry(CapH, payload)
      /\ CapH \in Caps /\ CapH \in Nat /\ CapH # 0 /\ payload \in [Slots -> Nat]
      /\ CapNow(t) = CapH
  BY <1>1, BeforeSection
<1> HIDE DEF T
<1>3. \E q : Section(t, q) /\ Planned(q, words, CapH, payload)
  <2>1. CASE \E k \in Keys : Remove(t, k)
    <3>1. PICK k \in Keys : Remove(t, k)
      BY <2>1
    <3>2. Found(T, k) /\ Section(t, RemoveStores(T, k))
      BY <1>2, <3>1 DEF Remove, T
    <3>3. k \in Nat
      BY SeqKeys
    <3>4. RemoveStores(T, k) \in Seq(FineStore(CapH, payload))
      BY <1>2, <3>2, <3>3, RemoveStoresFine
    <3> QED BY <1>2, <3>2, <3>4, StaysPlanned
  <2>2. CASE Clear(t)
    <3>1. Section(t, ClearStores(CapH))
      BY <1>2, <2>2 DEF Clear
    <3>2. ClearStores(CapH) \in Seq(FineStore(CapH, payload))
      BY <1>2, ClearStoresFine
    <3> QED BY <1>2, <3>1, <3>2, StaysPlanned
  <2>3. CASE NoChange(t)
    <3>1. Section(t, <<>>) /\ <<>> \in Seq(FineStore(CapH, payload))
      BY <2>3 DEF NoChange
    <3> QED BY <1>2, <3>1, StaysPlanned
  <2>4. CASE \E c \in Caps : Rehash(t, c)
    <3>1. PICK c \in Caps : Rehash(t, c)
      BY <2>4
    <3>2. Section(t, RehashStores(T, c))
      BY <1>2, <3>1 DEF Rehash, T
    <3>3. Planned(RehashStores(T, c), words, CapH, payload)
      BY <1>2, RehashPlanned
    <3> QED BY <3>2, <3>3
  <2> QED BY <2>1, <2>2, <2>3, <2>4
<1>4. PICK q : Section(t, q) /\ Planned(q, words, CapH, payload)
  BY <1>3
<1>5. Planned(q, words, CapH, payload') /\ payload' \in [Slots -> Nat]
      /\ \A p \in 0..(CapH - 1) : words[p] \in FineEntry(CapH, payload')
  BY <1>1, <1>2, <1>4
<1> QED BY <1>4, <1>5, SectionKeeps

(* A step inside a section, of the one thread that is in it.               *)
LEMMA WriterKeeps ==
  ASSUME OneHandle, SeqInv, NEW t \in Threads, NEW l \in SectionLabels \ {"seq_begin"},
         pc[t] \in SectionLabels, pc' = [pc EXCEPT ![t] = l],
         UNCHANGED <<write_lock, key, seq1, capacity, i, cur, res>>, MemTypes',
         (SeqH' = SeqH /\ SeqH % 2 = 1) \/ SeqH' = SeqH + 1,
         l \in WriteLabels => /\ SeqH' % 2 = 1
                              /\ Planned(todo'[t], words', CapH', payload')
                              /\ AtStore(l, todo'[t], words'),
         l \notin WriteLabels => SeqH' % 2 = 0 /\ Quiet'
  PROVE SeqInv'
<1> USE DEF SeqInv
<1>1. \A u \in Threads : pc'[u] = IF u = t THEN l ELSE pc[u]
  BY DEF LocalTypes
<1>2. write_lock = 1 /\ \A u \in Threads : pc[u] \in SectionLabels => u = t
  BY DEF Held
<1>3. LocalTypes'
  BY DEF LocalTypes, Labels
<1>4. Held'
  BY <1>1, <1>2 DEF Held
<1>5. \A u \in Threads : u # t => pc'[u] = pc[u] /\ pc'[u] \notin SectionLabels
  BY <1>1, <1>2
<1>6. WriteLabels \subseteq SectionLabels
  BY DEF WriteLabels, SectionLabels
<1>7. \A u \in Threads : pc'[u] \in WriteLabels => u = t /\ l \in WriteLabels
  BY <1>1, <1>5, <1>6
<1>8. l \in WriteLabels => ~NoneWrites'
  BY <1>1 DEF NoneWrites
<1>9. Parity'
  BY <1>7, <1>8 DEF Parity
<1>10. Plans'
  <2> SUFFICES ASSUME NEW u \in Threads, pc'[u] \in {"seq_begin"} \cup WriteLabels
               PROVE Planned(todo'[u], words', CapH', payload') /\ AtStore(pc'[u], todo'[u], words')
    BY DEF Plans
  <2>1. pc'[u] \in SectionLabels
    BY <1>6 DEF SectionLabels
  <2>2. u = t /\ pc'[u] = l
    BY <1>1, <1>5, <2>1
  <2>3. l \in WriteLabels
    BY <2>2
  <2> QED BY <2>2, <2>3
<1>11. Quiet'
  BY <1>8 DEF Quiet
<1>12. Views'
  <2> SUFFICES ASSUME NEW u \in Threads
               PROVE View(pc'[u], key[u], seq1[u], capacity[u], i[u], cur[u], res[u],
                          SeqH', CapH', content')
    BY DEF Views
  <2>1. View(pc[u], key[u], seq1[u], capacity[u], i[u], cur[u], res[u], SeqH, CapH, content)
    BY DEF Views
  <2>2. seq1[u] \in Nat /\ SeqH \in Nat
    BY HandleTypes DEF LocalTypes
  <2>3. SeqH' \in Nat /\ SeqH <= SeqH'
    BY <2>2
  <2>4. CASE u # t /\ SeqH' = SeqH + 1
    BY <1>5, <2>1, <2>2, <2>4, ViewNext
  <2>5. CASE u # t /\ SeqH' = SeqH /\ SeqH % 2 = 1
    BY <1>5, <2>1, <2>2, <2>5, ViewOdd
  <2>6. CASE u = t
    <3>1. pc'[u] \in SectionLabels \cup {"idle"} /\ pc[u] \in SectionLabels \cup {"idle"}
      BY <1>1, <2>6
    <3> QED BY <2>1, <2>2, <2>3, <3>1, ViewWriter
  <2> QED BY <2>4, <2>5, <2>6
<1> QED BY <1>3, <1>4, <1>9, <1>10, <1>11, <1>12

(* Where a writer goes on is at the first of its stores.                   *)
LEMMA NextStoreAt ==
  ASSUME NEW q, NEW W
  PROVE /\ NextStore(q) \in WriteLabels \ {"store_off"}
        /\ AtStore(NextStore(q), q, W)
BY DEF NextStore, WriteLabels, AtStore

(* ef_sb_index_write_seq_begin *)
LEMMA SeqBeginKeeps ==
  ASSUME OneHandle, SeqInv, NEW t \in Threads, SeqBegin(t)
  PROVE SeqInv'
<1> DEFINE l == NextStore(todo[t])
<1>1. /\ pc[t] = "seq_begin" /\ index_seq' = [index_seq EXCEPT ![HandleOf[t]] = @ + 1]
      /\ pc' = [pc EXCEPT ![t] = l]
      /\ UNCHANGED <<words, write_lock, hash_capacity, payload, todo, content>>
      /\ UNCHANGED <<key, seq1, capacity, i, cur, res>>
  BY DEF SeqBegin, Goto, readVars
<1>2. H \in Handles /\ HandleOf[t] = H
  BY SameHandle
<1>3. SeqH' = SeqH + 1 /\ CapH' = CapH /\ SeqH \in Nat
  BY <1>1, <1>2, HandleTypes DEF SeqInv, MemTypes, SeqH, CapH
<1>4. MemTypes'
  <2>1. index_seq' \in [Handles -> Nat]
    BY <1>1, <1>2 DEF SeqInv, MemTypes
  <2> QED BY <1>1, <2>1 DEF SeqInv, MemTypes
<1>5. l \in WriteLabels \ {"store_off"} /\ AtStore(l, todo[t], words)
  BY NextStoreAt
<1>6. pc[t] \in SectionLabels /\ l \in SectionLabels \ {"seq_begin"}
  BY <1>1, <1>5 DEF SectionLabels, WriteLabels
<1>7. NoneWrites
  BY <1>1, <1>6 DEF SeqInv, Held, NoneWrites, WriteLabels, SectionLabels
<1>8. SeqH % 2 = 0
  BY <1>7 DEF SeqInv, Parity
<1>9. SeqH' % 2 = 1
  BY <1>3, <1>8
<1>10. Planned(todo[t], words, CapH, payload)
  BY <1>1 DEF SeqInv, Plans
<1> HIDE DEF l
<1> QED BY <1>1, <1>3, <1>4, <1>5, <1>6, <1>9, <1>10, WriterKeeps

(* What a thread that stores finds: its plan, and index_seq odd.           *)
LEMMA WriterAt ==
  ASSUME OneHandle, SeqInv, NEW t \in Threads, pc[t] \in WriteLabels
  PROVE /\ pc[t] \in SectionLabels /\ SeqH \in Nat /\ SeqH % 2 = 1
        /\ Planned(todo[t], words, CapH, payload) /\ AtStore(pc[t], todo[t], words)
        /\ CapH \in Caps /\ CapH \in Nat /\ words \in Words
<1>1. pc[t] \in SectionLabels
  BY DEF WriteLabels, SectionLabels
<1>2. SeqH % 2 = 1
  BY DEF SeqInv, Parity
<1>3. Planned(todo[t], words, CapH, payload) /\ AtStore(pc[t], todo[t], words)
  BY DEF SeqInv, Plans
<1> QED BY <1>1, <1>2, <1>3, HandleTypes DEF SeqInv, MemTypes

(* ef_hash_entry_store_atomic, the key                                     *)
LEMMA StoreKeyKeeps ==
  ASSUME OneHandle, SeqInv, NEW t \in Threads, StoreKey(t)
  PROVE SeqInv'
<1> DEFINE q == todo[t]
           p == Head(q).at
           x == [words[p] EXCEPT !.key = Head(q).entry.key]
<1>1. /\ pc[t] = "store_key" /\ words' = [words EXCEPT ![p].key = Head(q).entry.key]
      /\ pc' = [pc EXCEPT ![t] = "store_off"]
      /\ UNCHANGED <<index_seq, write_lock, hash_capacity, payload, todo, content>>
      /\ UNCHANGED <<key, seq1, capacity, i, cur, res>>
  BY DEF StoreKey, Goto, readVars
<1>2. pc[t] \in WriteLabels
  BY <1>1 DEF WriteLabels
<1>3. /\ pc[t] \in SectionLabels /\ SeqH \in Nat /\ SeqH % 2 = 1
      /\ Planned(q, words, CapH, payload) /\ AtStore(pc[t], q, words)
      /\ CapH \in Caps /\ words \in Words
  BY <1>2, WriterAt
<1>4. q # <<>> /\ p # -1
  BY <1>1, <1>3 DEF AtStore
<1>5. p \in 0..(Largest - 1) /\ Head(q).entry \in Word
  BY <1>3, <1>4, PlanAt
<1>6. words' = [words EXCEPT ![p] = x]
  BY <1>1
<1> HIDE DEF p
<1>7. words[p] \in Word
  BY <1>3, <1>5 DEF Words
<1>8. x \in Word /\ x.key = Head(q).entry.key
  BY <1>5, <1>7 DEF Word
<1> HIDE DEF x
<1>9. words' \in Words /\ words'[p] = x
  BY <1>3, <1>5, <1>6, <1>8 DEF Words
<1>10. Planned(q, words', CapH, payload)
  BY <1>3, <1>4, <1>6, PlanHalf DEF p
<1>11. AtStore("store_off", q, words')
  BY <1>4, <1>8, <1>9 DEF AtStore, p
<1>12. SeqH' = SeqH /\ CapH' = CapH /\ MemTypes'
  BY <1>1, <1>9 DEF SeqH, CapH, SeqInv, MemTypes
<1>13. "store_off" \in SectionLabels \ {"seq_begin"} /\ "store_off" \in WriteLabels
  BY DEF SectionLabels, WriteLabels
<1> QED BY <1>1, <1>3, <1>10, <1>11, <1>12, <1>13, WriterKeeps

(* ef_hash_entry_store_atomic, the offset: the entry is whole.             *)
LEMMA StoreOffKeeps ==
  ASSUME OneHandle, SeqInv, NEW t \in Threads, StoreOff(t)
  PROVE SeqInv'
<1> DEFINE q == todo[t]
           p == Head(q).at
           e == Head(q).entry
           l == NextStore(Tail(q))
<1>1. /\ pc[t] = "store_off" /\ words' = [words EXCEPT ![p].off = e.off]
      /\ todo' = [todo EXCEPT ![t] = Tail(q)] /\ pc' = [pc EXCEPT ![t] = l]
      /\ UNCHANGED <<index_seq, write_lock, hash_capacity, payload, content>>
      /\ UNCHANGED <<key, seq1, capacity, i, cur, res>>
  BY DEF StoreOff, Goto, readVars
<1>2. pc[t] \in WriteLabels
  BY <1>1 DEF WriteLabels
<1>3. /\ pc[t] \in SectionLabels /\ SeqH \in Nat /\ SeqH % 2 = 1
      /\ Planned(q, words, CapH, payload) /\ AtStore(pc[t], q, words)
      /\ CapH \in Caps /\ words \in Words
  BY <1>2, WriterAt
<1>4. q # <<>> /\ p # -1 /\ words[p].key = e.key
  BY <1>1, <1>3 DEF AtStore
<1>5. p \in 0..(Largest - 1) /\ e \in Word
  BY <1>3, <1>4, PlanAt
<1>6. words[p] \in Word
  BY <1>3, <1>5 DEF Words
<1>7. [words[p] EXCEPT !.off = e.off] = e
  BY <1>4, <1>5, <1>6 DEF Word
<1>8. words' = [words EXCEPT ![p] = e]
  BY <1>1, <1>7
<1>9. words' \in Words
  BY <1>3, <1>5, <1>8 DEF Words
<1>10. Planned(Tail(q), words', CapH, payload)
  BY <1>3, <1>4, <1>8, PlanStored
<1>11. todo'[t] = Tail(q) /\ DOMAIN todo' = Threads
  BY <1>1 DEF SeqInv, MemTypes
<1>12. SeqH' = SeqH /\ CapH' = CapH /\ MemTypes'
  BY <1>1, <1>9, <1>11 DEF SeqH, CapH, SeqInv, MemTypes
<1>13. l \in WriteLabels \ {"store_off"} /\ AtStore(l, Tail(q), words')
  BY NextStoreAt
<1>14. l \in SectionLabels \ {"seq_begin"} /\ l \in WriteLabels
  BY <1>13 DEF SectionLabels, WriteLabels
<1> HIDE DEF l
<1> QED BY <1>1, <1>3, <1>10, <1>11, <1>12, <1>13, <1>14, WriterKeeps

(* ef_index_bind_layout                                                    *)
LEMMA BindLayoutKeeps ==
  ASSUME OneHandle, SeqInv, NEW t \in Threads, BindLayout(t)
  PROVE SeqInv'
<1> DEFINE q == todo[t]
           c == Head(q).entry.off
           l == NextStore(Tail(q))
<1>1. /\ pc[t] = "bind" /\ hash_capacity' = [hash_capacity EXCEPT ![HandleOf[t]] = c]
      /\ todo' = [todo EXCEPT ![t] = Tail(q)] /\ pc' = [pc EXCEPT ![t] = l]
      /\ UNCHANGED <<words, index_seq, write_lock, payload, content>>
      /\ UNCHANGED <<key, seq1, capacity, i, cur, res>>
  BY DEF BindLayout, Goto, readVars
<1>2. pc[t] \in WriteLabels
  BY <1>1 DEF WriteLabels
<1>3. /\ pc[t] \in SectionLabels /\ SeqH \in Nat /\ SeqH % 2 = 1
      /\ Planned(q, words, CapH, payload) /\ AtStore(pc[t], q, words)
      /\ CapH \in Nat
  BY <1>2, WriterAt
<1>4. q # <<>> /\ Head(q).at = -1
  BY <1>1, <1>3 DEF AtStore
<1>5. c \in Caps /\ Planned(Tail(q), words, c, payload)
  BY <1>3, <1>4, PlanBinds
<1>6. H \in Handles /\ HandleOf[t] = H
  BY SameHandle
<1> HIDE DEF c
<1>7. hash_capacity' \in [Handles -> Caps] /\ CapH' = c
  BY <1>1, <1>5, <1>6 DEF SeqInv, MemTypes, CapH
<1>8. todo'[t] = Tail(q) /\ DOMAIN todo' = Threads
  BY <1>1 DEF SeqInv, MemTypes
<1>9. SeqH' = SeqH /\ MemTypes'
  BY <1>1, <1>7, <1>8 DEF SeqH, SeqInv, MemTypes
<1>10. l \in WriteLabels \ {"store_off"} /\ AtStore(l, Tail(q), words)
  BY NextStoreAt
<1>11. l \in SectionLabels \ {"seq_begin"} /\ l \in WriteLabels
  BY <1>10 DEF SectionLabels, WriteLabels
<1> HIDE DEF l
<1> QED BY <1>1, <1>3, <1>5, <1>7, <1>8, <1>9, <1>10, <1>11, WriterKeeps

(* ef_sb_index_write_seq_end: nothing is left to store.                    *)
LEMMA SeqEndKeeps ==
  ASSUME OneHandle, SeqInv, NEW t \in Threads, SeqEnd(t)
  PROVE SeqInv'
<1>1. /\ pc[t] = "seq_end" /\ index_seq' = [index_seq EXCEPT ![HandleOf[t]] = @ + 1]
      /\ content' = Table(CapNow(t)) /\ pc' = [pc EXCEPT ![t] = "unlock"]
      /\ UNCHANGED <<words, write_lock, hash_capacity, payload, todo>>
      /\ UNCHANGED <<key, seq1, capacity, i, cur, res>>
  BY DEF SeqEnd, Goto, readVars
<1>2. pc[t] \in WriteLabels
  BY <1>1 DEF WriteLabels
<1>3. /\ pc[t] \in SectionLabels /\ SeqH \in Nat /\ SeqH % 2 = 1
      /\ Planned(todo[t], words, CapH, payload) /\ AtStore(pc[t], todo[t], words)
      /\ CapH \in Nat
  BY <1>2, WriterAt
<1>4. todo[t] = <<>>
  BY <1>1, <1>3 DEF AtStore
<1>5. \A p \in 0..(CapH - 1) : words[p] \in FineEntry(CapH, payload)
  BY <1>3, <1>4, PlanDone
<1>6. H \in Handles /\ HandleOf[t] = H /\ CapNow(t) = CapH
  BY SameHandle
<1>7. SeqH' = SeqH + 1 /\ CapH' = CapH
  BY <1>1, <1>6 DEF SeqInv, MemTypes, SeqH, CapH
<1>8. MemTypes'
  <2>1. index_seq' \in [Handles -> Nat]
    BY <1>1, <1>6 DEF SeqInv, MemTypes
  <2> QED BY <1>1, <2>1 DEF SeqInv, MemTypes
<1>9. SeqH' % 2 = 0
  BY <1>3, <1>7
<1>10. Quiet'
  <2>1. content' = Table(CapH)'
    BY <1>1, <1>6, <1>7 DEF Table
  <2> QED BY <1>1, <1>5, <1>7, <2>1 DEF Quiet
<1>11. "unlock" \in SectionLabels \ {"seq_begin"} /\ "unlock" \notin WriteLabels
  BY DEF SectionLabels, WriteLabels
<1> QED BY <1>1, <1>3, <1>7, <1>8, <1>9, <1>10, <1>11, WriterKeeps

(* ef_sb_index_write_lock_release                                          *)
LEMMA UnlockKeeps ==
  ASSUME OneHandle, SeqInv, NEW t \in Threads, Unlock(t)
  PROVE SeqInv'
<1> USE DEF SeqInv
<1>1. /\ pc[t] = "unlock" /\ pc' = [pc EXCEPT ![t] = "idle"]
      /\ UNCHANGED <<words, index_seq, hash_capacity, payload, todo, content>>
      /\ UNCHANGED <<key, seq1, capacity, i, cur, res>>
  BY DEF Unlock, Goto, readVars
<1>2. \A u \in Threads : pc'[u] = IF u = t THEN "idle" ELSE pc[u]
  BY <1>1 DEF LocalTypes
<1>3. pc[t] \in SectionLabels
  BY <1>1 DEF SectionLabels
<1>4. \A u \in Threads : pc'[u] \notin SectionLabels
  BY <1>2, <1>3 DEF Held, SectionLabels
<1>5. SeqH' = SeqH /\ CapH' = CapH /\ SeqH \in Nat
  BY <1>1, HandleTypes DEF SeqH, CapH
<1>6. MemTypes' /\ LocalTypes'
  BY <1>1 DEF MemTypes, LocalTypes, Labels
<1>7. NoneWrites /\ NoneWrites'
  BY <1>1, <1>2, <1>4 DEF NoneWrites, WriteLabels, SectionLabels
<1>8. Held' /\ Parity'
  BY <1>4, <1>5, <1>7 DEF Held, Parity, NoneWrites
<1>9. Plans'
  BY <1>4 DEF Plans, SectionLabels, WriteLabels
<1>10. Quiet'
  BY <1>1, <1>5, <1>7 DEF Quiet, Table
<1>11. Views'
  <2> SUFFICES ASSUME NEW u \in Threads
               PROVE View(pc'[u], key[u], seq1[u], capacity[u], i[u], cur[u], res[u], SeqH, CapH, content)
    BY <1>1, <1>5 DEF Views
  <2>1. View(pc[u], key[u], seq1[u], capacity[u], i[u], cur[u], res[u], SeqH, CapH, content)
    BY DEF Views
  <2>2. CASE u # t
    BY <1>2, <2>1, <2>2
  <2>3. CASE u = t
    <3>1. pc[u] \in SectionLabels \cup {"idle"} /\ pc'[u] \in SectionLabels \cup {"idle"}
      BY <1>2, <1>3, <2>3
    <3>2. seq1[u] \in Nat /\ SeqH <= SeqH
      BY <1>5 DEF LocalTypes
    <3> QED BY <1>5, <2>1, <3>1, <3>2, ViewWriter
  <2> QED BY <2>2, <2>3
<1> QED BY <1>6, <1>8, <1>9, <1>10, <1>11

-----------------------------------------------------------------------------
(* The steps of readers.                                                   *)

(* A step of t changes no local of another thread.                         *)
Others(t) ==
  \A u \in Threads : u # t =>
    /\ pc'[u] = pc[u] /\ key'[u] = key[u] /\ seq1'[u] = seq1[u] /\ capacity'[u] = capacity[u]
    /\ i'[u] = i[u] /\ cur'[u] = cur[u] /\ res'[u] = res[u]

ReadLabels == {"idle"} \cup GetLabels \cup IterLabels

(* A reader changes its locals only: it is enough to know what it sees.    *)
LEMMA ReaderKeeps ==
  ASSUME OneHandle, SeqInv, NEW t \in Threads, pc[t] \in ReadLabels, pc'[t] \in ReadLabels,
         UNCHANGED <<memVars, todo, content>>, LocalTypes', Others(t),
         View(pc'[t], key'[t], seq1'[t], capacity'[t], i'[t], cur'[t], res'[t], SeqH, CapH, content)
  PROVE SeqInv'
<1> USE DEF SeqInv
<1>1. UNCHANGED <<words, write_lock, index_seq, hash_capacity, payload, todo, content>>
  BY DEF memVars
<1>2. SeqH' = SeqH /\ CapH' = CapH
  BY <1>1 DEF SeqH, CapH
<1>3. MemTypes'
  BY <1>1 DEF MemTypes
<1>4. ReadLabels \cap SectionLabels = {} /\ WriteLabels \subseteq SectionLabels
      /\ "seq_begin" \in SectionLabels
  BY DEF ReadLabels, SectionLabels, WriteLabels, GetLabels, IterLabels
<1>5. \A u \in Threads : u # t => pc'[u] = pc[u]
  BY DEF Others
<1>6. pc[t] \notin SectionLabels /\ pc'[t] \notin SectionLabels
  BY <1>4
<1>7. Held'
  BY <1>1, <1>5, <1>6 DEF Held
<1>8. NoneWrites' <=> NoneWrites
  BY <1>4, <1>5, <1>6 DEF NoneWrites
<1>9. \A u \in Threads : pc'[u] \in WriteLabels => pc[u] \in WriteLabels
  BY <1>4, <1>5, <1>6
<1>10. Parity'
  BY <1>2, <1>8, <1>9 DEF Parity
<1>11. Plans'
  <2> SUFFICES ASSUME NEW u \in Threads, pc'[u] \in {"seq_begin"} \cup WriteLabels
               PROVE Planned(todo[u], words, CapH, payload) /\ AtStore(pc'[u], todo[u], words)
    BY <1>1, <1>2 DEF Plans
  <2>1. pc'[u] = pc[u]
    BY <1>4, <1>5, <1>6
  <2> QED BY <2>1 DEF Plans
<1>12. Quiet'
  BY <1>1, <1>2, <1>8 DEF Quiet, Table
<1>13. Views'
  <2> SUFFICES ASSUME NEW u \in Threads
               PROVE View(pc'[u], key'[u], seq1'[u], capacity'[u], i'[u], cur'[u], res'[u],
                          SeqH, CapH, content)
    BY <1>1, <1>2 DEF Views
  <2>1. CASE u = t
    BY <2>1
  <2>2. CASE u # t
    <3>1. View(pc[u], key[u], seq1[u], capacity[u], i[u], cur[u], res[u], SeqH, CapH, content)
      BY DEF Views
    <3> QED BY <2>2, <3>1 DEF Others
  <2> QED BY <2>1, <2>2
<1> QED BY <1>3, <1>7, <1>10, <1>11, <1>12, <1>13

(* A reader that starts anew has seen nothing.                             *)
LEMMA ViewAnew ==
  ASSUME NEW l \in {"idle", "get_seq", "get_capacity"}, NEW k, l # "idle" => k \in Keys,
         NEW s \in Nat, NEW sq \in Nat, s <= sq, l = "get_capacity" => s % 2 = 0,
         NEW c, NEW e, NEW r, NEW a, NEW T
  PROVE View(l, k, s, c, 0, e, r, sq, a, T)
<1>1. Stands(l, k, s, c, 0, sq)
  BY DEF Stands, GetLabels, IterLabels, ProbeLabels, Started
<1>2. Seen(l, k, c, 0, e, r, a, T)
  BY DEF Seen, ProbeLabels
<1> QED BY <1>1, <1>2 DEF View

(* The return of a reading call.                                           *)
LEMMA FinishKeeps ==
  ASSUME OneHandle, SeqInv, NEW t \in Threads, pc[t] \in ReadLabels,
         UNCHANGED <<memVars, todo, content>>, Finish(t)
  PROVE SeqInv'
<1>1. LocalTypes
  BY DEF SeqInv
<1>2. /\ pc' = [pc EXCEPT ![t] = "idle"] /\ key' = [key EXCEPT ![t] = 0]
      /\ seq1' = [seq1 EXCEPT ![t] = 0] /\ capacity' = [capacity EXCEPT ![t] = 0]
      /\ i' = [i EXCEPT ![t] = 0] /\ cur' = [cur EXCEPT ![t] = Empty]
      /\ res' = [res EXCEPT ![t] = Empty]
  BY DEF Finish, Goto
<1>3. Empty \in Word
  BY DEF Empty, Word
<1>4. LocalTypes'
  BY <1>1, <1>2, <1>3 DEF LocalTypes, Labels
<1>5. Others(t)
  BY <1>1, <1>2 DEF LocalTypes, Others
<1>6. pc'[t] = "idle" /\ seq1'[t] = 0 /\ i'[t] = 0
  BY <1>1, <1>2 DEF LocalTypes
<1>7. SeqH \in Nat /\ 0 <= SeqH
  BY HandleTypes DEF SeqInv
<1>8. View(pc'[t], key'[t], seq1'[t], capacity'[t], i'[t], cur'[t], res'[t], SeqH, CapH, content)
  BY <1>6, <1>7, ViewAnew
<1>9. pc'[t] \in ReadLabels
  BY <1>6 DEF ReadLabels
<1> QED BY <1>4, <1>5, <1>8, <1>9, ReaderKeeps

(* Another attempt, or EF_ERR_INDEX_BUSY.                                  *)
LEMMA RetryKeeps ==
  ASSUME OneHandle, SeqInv, NEW t \in Threads, pc[t] \in GetLabels,
         UNCHANGED <<memVars, todo, content>>, Retry(t)
  PROVE SeqInv'
<1>1. LocalTypes
  BY DEF SeqInv
<1>2. pc[t] \in ReadLabels
  BY DEF ReadLabels
<1>3. CASE tries[t] + 1 = MaxTries
  BY <1>2, <1>3, FinishKeeps DEF Retry
<1>4. CASE tries[t] + 1 # MaxTries
  <2>2. /\ pc' = [pc EXCEPT ![t] = "get_seq"] /\ UNCHANGED <<key, seq1, capacity>>
        /\ i' = [i EXCEPT ![t] = 0] /\ cur' = [cur EXCEPT ![t] = Empty]
        /\ res' = [res EXCEPT ![t] = Empty]
    BY <1>4 DEF Retry, Goto
  <2>3. Empty \in Word
    BY DEF Empty, Word
  <2>4. LocalTypes'
    BY <1>1, <2>2, <2>3 DEF LocalTypes, Labels, GetLabels
  <2>5. Others(t)
    BY <1>1, <2>2 DEF LocalTypes, Others
  <2>6. pc'[t] = "get_seq" /\ i'[t] = 0 /\ key'[t] = key[t] /\ seq1'[t] = seq1[t]
    BY <1>1, <2>2 DEF LocalTypes
  <2>7. SeqH \in Nat /\ seq1[t] \in Nat /\ seq1[t] <= SeqH /\ key[t] \in Keys
    BY <1>1, HandleTypes DEF SeqInv, LocalTypes, Views, View, Stands
  <2>8. View(pc'[t], key'[t], seq1'[t], capacity'[t], i'[t], cur'[t], res'[t], SeqH, CapH, content)
    BY <2>6, <2>7, ViewAnew
  <2>9. pc'[t] \in ReadLabels
    BY <2>6 DEF ReadLabels, GetLabels
  <2> QED BY <1>2, <2>4, <2>5, <2>8, <2>9, ReaderKeeps
<1> QED BY <1>3, <1>4

(* What a reader knows of its locals.                                      *)
LEMMA ReaderAt ==
  ASSUME OneHandle, SeqInv, NEW t \in Threads
  PROVE /\ View(pc[t], key[t], seq1[t], capacity[t], i[t], cur[t], res[t], SeqH, CapH, content)
        /\ Stands(pc[t], key[t], seq1[t], capacity[t], i[t], SeqH)
        /\ seq1[t] \in Nat /\ seq1[t] <= SeqH /\ i[t] \in Nat /\ capacity[t] \in Nat
        /\ cur[t] \in Word /\ res[t] \in Word
        /\ SeqH \in Nat /\ SeqNow(t) = SeqH /\ CapNow(t) = CapH /\ CapH \in Caps
        /\ CapH \in Nat /\ CapH # 0 /\ LocalTypes
<1>1. LocalTypes /\ MemTypes
  BY DEF SeqInv
<1>2. View(pc[t], key[t], seq1[t], capacity[t], i[t], cur[t], res[t], SeqH, CapH, content)
  BY DEF SeqInv, Views
<1>3. seq1[t] \in Nat /\ i[t] \in Nat /\ capacity[t] \in Nat /\ cur[t] \in Word /\ res[t] \in Word
  BY <1>1 DEF LocalTypes
<1> QED BY <1>1, <1>2, <1>3, HandleTypes, SameHandle DEF View, Stands

(* While the number loaded is that of index_seq and even, the table is as  *)
(* the last section left it, and loads are of its entries.                 *)
LEMMA FreshTable ==
  ASSUME OneHandle, SeqInv, NEW t \in Threads, seq1[t] = SeqH, seq1[t] % 2 = 0
  PROVE /\ content \in FineTable(CapH, payload) /\ DOMAIN content = 0..(CapH - 1)
        /\ \A p \in 0..(CapH - 1) : LoadOff(p) = {content[p].off} /\ LoadKey(p) = {content[p].key}
        /\ Capacity(content) = CapH
        /\ Seen(pc[t], key[t], capacity[t], i[t], cur[t], res[t], CapH, content)
<1>1. MemTypes /\ Quiet /\ Parity
  BY DEF SeqInv
<1>2. NoneWrites
  BY <1>1, EvenQuiet
<1>3. content \in FineTable(CapH, payload)
  BY <1>1, <1>2, QuietTable
<1>4. DOMAIN content = 0..(CapH - 1)
  BY <1>3 DEF FineTable
<1>5. \A p \in 0..(CapH - 1) : LoadOff(p) = {content[p].off} /\ LoadKey(p) = {content[p].key}
  BY <1>1, <1>2, QuietLoads
<1>6. CapH \in Nat /\ CapH # 0
  BY <1>1, HandleTypes
<1>7. Capacity(content) = CapH
  BY <1>4, <1>6, CapacityIs
<1>8. Seen(pc[t], key[t], capacity[t], i[t], cur[t], res[t], CapH, content)
  BY ReaderAt DEF View
<1> QED BY <1>3, <1>4, <1>5, <1>7, <1>8

(* Loads are numbers, also from the bytes of a slot.                       *)
LEMMA LoadTypes ==
  ASSUME MemTypes, NEW p \in 0..(Largest - 1)
  PROVE LoadOff(p) \subseteq Int /\ LoadKey(p) \subseteq Int
<1>1. words[p] \in Word
  BY DEF MemTypes, Words
<1>2. words[p].key \in Int /\ words[p].off \in Int /\ Keys \subseteq Int
  BY <1>1, SeqKeys DEF Word
<1>3. LoadOff(p) = {0, 1} \/ LoadOff(p) = {words[p].off}
  BY DEF LoadOff
<1>4. LoadKey(p) = Keys \/ LoadKey(p) = {words[p].key}
  BY DEF LoadKey
<1>5. {0, 1} \subseteq Int /\ {words[p].off} \subseteq Int /\ {words[p].key} \subseteq Int
  BY <1>2
<1> QED BY <1>2, <1>3, <1>4, <1>5

(* The position that a lookup is at is one of the mapping.                 *)
LEMMA ProbePos ==
  ASSUME OneHandle, SeqInv, NEW t \in Threads, pc[t] \in ProbeLabels
  PROVE /\ Pos(t) = Probe(capacity[t], key[t], i[t])
        /\ Pos(t) \in 0..(capacity[t] - 1) /\ Pos(t) \in 0..(Largest - 1)
        /\ capacity[t] \in Caps /\ i[t] < capacity[t]
        /\ key[t] \in Keys /\ key[t] \in Nat /\ key[t] # 0 /\ seq1[t] % 2 = 0
<1>1. capacity[t] \in Caps /\ i[t] < capacity[t]
  BY ReaderAt DEF Stands
<1>2. key[t] \in Keys /\ seq1[t] % 2 = 0
  BY ReaderAt DEF Stands, ProbeLabels, GetLabels
<1>3. key[t] \in Nat /\ key[t] # 0
  BY <1>2, SeqKeys
<1>4. capacity[t] \in Nat /\ capacity[t] # 0 /\ Largest \in Nat /\ capacity[t] <= Largest
  BY <1>1, LargestCap DEF Largest
<1>5. Home(capacity[t], key[t]) + i[t] \in Int
  BY <1>3, <1>4, ReaderAt DEF Home
<1>6. Pos(t) = Probe(capacity[t], key[t], i[t])
  BY DEF Pos, Probe
<1>7. Pos(t) \in 0..(capacity[t] - 1)
  BY <1>4, <1>5, PosBelow DEF Pos
<1> QED BY <1>1, <1>2, <1>3, <1>4, <1>6, <1>7

(* ef_index_get *)
LEMMA GetCallKeeps ==
  ASSUME OneHandle, SeqInv, NEW t \in Threads, NEW k \in Keys, GetCall(t, k)
  PROVE SeqInv'
<1>1. LocalTypes
  BY ReaderAt
<1>2. /\ pc[t] = "idle" /\ key' = [key EXCEPT ![t] = k] /\ pc' = [pc EXCEPT ![t] = "get_seq"]
      /\ UNCHANGED <<seq1, capacity, i, cur, res>> /\ UNCHANGED <<memVars, todo, content>>
  BY DEF GetCall, Goto
<1>3. LocalTypes'
  BY <1>1, <1>2 DEF LocalTypes, Labels, GetLabels
<1>4. Others(t)
  BY <1>1, <1>2 DEF LocalTypes, Others
<1>5. pc'[t] = "get_seq" /\ key'[t] = k /\ seq1'[t] = seq1[t] /\ i'[t] = i[t]
  BY <1>1, <1>2 DEF LocalTypes
<1>6. i[t] = 0
  BY <1>2, ReaderAt DEF Stands, Started, ProbeLabels
<1>7. View(pc'[t], key'[t], seq1'[t], capacity'[t], i'[t], cur'[t], res'[t], SeqH, CapH, content)
  BY <1>5, <1>6, ReaderAt, ViewAnew
<1>8. pc[t] \in ReadLabels /\ pc'[t] \in ReadLabels
  BY <1>2, <1>5 DEF ReadLabels, GetLabels
<1> QED BY <1>2, <1>3, <1>4, <1>7, <1>8, ReaderKeeps

(* The first load of index_seq.                                            *)
LEMMA GetSeqKeeps ==
  ASSUME OneHandle, SeqInv, NEW t \in Threads, GetSeq(t)
  PROVE SeqInv'
<1>1. pc[t] = "get_seq" /\ UNCHANGED <<memVars, todo, content>>
  BY DEF GetSeq
<1>2. pc[t] \in GetLabels /\ pc[t] \in ReadLabels
  BY <1>1 DEF ReadLabels, GetLabels
<1>3. CASE Retry(t)
  BY <1>1, <1>2, <1>3, RetryKeeps
<1>4. CASE /\ SeqNow(t) % 2 = 0 /\ seq1' = [seq1 EXCEPT ![t] = SeqNow(t)]
           /\ Goto(t, "get_capacity") /\ UNCHANGED <<key, capacity, i, cur, tries, res>>
  <2>1. LocalTypes /\ SeqH \in Nat /\ SeqNow(t) = SeqH
    BY ReaderAt
  <2>2. /\ pc' = [pc EXCEPT ![t] = "get_capacity"] /\ seq1' = [seq1 EXCEPT ![t] = SeqH]
        /\ UNCHANGED <<key, capacity, i, cur, res>>
    BY <1>4, <2>1 DEF Goto
  <2>3. LocalTypes'
    BY <2>1, <2>2 DEF LocalTypes, Labels, GetLabels
  <2>4. Others(t)
    BY <2>1, <2>2 DEF LocalTypes, Others
  <2>5. pc'[t] = "get_capacity" /\ seq1'[t] = SeqH /\ key'[t] = key[t] /\ i'[t] = i[t]
    BY <2>1, <2>2 DEF LocalTypes
  <2>6. i[t] = 0 /\ key[t] \in Keys
    BY <1>1, ReaderAt DEF Stands, Started, ProbeLabels, GetLabels
  <2>7. SeqH % 2 = 0 /\ SeqH <= SeqH
    BY <1>4, <2>1
  <2>8. View(pc'[t], key'[t], seq1'[t], capacity'[t], i'[t], cur'[t], res'[t], SeqH, CapH, content)
    BY <2>1, <2>5, <2>6, <2>7, ViewAnew
  <2>9. pc'[t] \in ReadLabels
    BY <2>5 DEF ReadLabels, GetLabels
  <2> QED BY <1>1, <1>2, <2>3, <2>4, <2>8, <2>9, ReaderKeeps
<1> QED BY <1>3, <1>4 DEF GetSeq

(* ef_index_find_entry_unlocked: the capacity.                             *)
LEMMA GetCapacityKeeps ==
  ASSUME OneHandle, SeqInv, NEW t \in Threads, GetCapacity(t)
  PROVE SeqInv'
<1>1. LocalTypes /\ CapNow(t) = CapH /\ CapH \in Caps /\ CapH \in Nat /\ CapH # 0
  BY ReaderAt
<1>2. /\ pc[t] = "get_capacity" /\ pc' = [pc EXCEPT ![t] = "get_off"]
      /\ capacity' = [capacity EXCEPT ![t] = CapH]
      /\ UNCHANGED <<key, seq1, i, cur, res>> /\ UNCHANGED <<memVars, todo, content>>
  BY <1>1 DEF GetCapacity, Goto
<1>3. LocalTypes'
  BY <1>1, <1>2 DEF LocalTypes, Labels, GetLabels
<1>4. Others(t)
  BY <1>1, <1>2 DEF LocalTypes, Others
<1>5. /\ pc'[t] = "get_off" /\ capacity'[t] = CapH /\ seq1'[t] = seq1[t] /\ key'[t] = key[t]
      /\ i'[t] = i[t] /\ cur'[t] = cur[t] /\ res'[t] = res[t]
  BY <1>1, <1>2 DEF LocalTypes
<1>6. i[t] = 0 /\ key[t] \in Keys /\ seq1[t] % 2 = 0 /\ seq1[t] <= SeqH
  BY <1>2, ReaderAt DEF Stands, Started, ProbeLabels, GetLabels
<1>7. Stands("get_off", key[t], seq1[t], CapH, i[t], SeqH)
  BY <1>1, <1>6 DEF Stands, Started, ProbeLabels
<1>8. Seen("get_off", key[t], CapH, i[t], cur[t], res[t], CapH, content)
  BY <1>6 DEF Seen, Passed
<1>9. View(pc'[t], key'[t], seq1'[t], capacity'[t], i'[t], cur'[t], res'[t], SeqH, CapH, content)
  BY <1>5, <1>7, <1>8 DEF View
<1>10. pc[t] \in ReadLabels /\ pc'[t] \in ReadLabels
  BY <1>2, <1>5 DEF ReadLabels, GetLabels
<1> QED BY <1>2, <1>3, <1>4, <1>9, <1>10, ReaderKeeps

(* ef_hash_entry_load_atomic, the offset                                   *)
LEMMA GetOffKeeps ==
  ASSUME OneHandle, SeqInv, NEW t \in Threads, GetOff(t)
  PROVE SeqInv'
<1>1. LocalTypes /\ MemTypes
  BY DEF SeqInv
<1>2. PICK off \in LoadOff(Pos(t)) : cur' = [cur EXCEPT ![t].off = off]
  BY DEF GetOff
<1>3. /\ pc[t] = "get_off" /\ pc' = [pc EXCEPT ![t] = "get_key"]
      /\ UNCHANGED <<key, seq1, capacity, i, res>> /\ UNCHANGED <<memVars, todo, content>>
  BY DEF GetOff, Goto
<1>4. pc[t] \in ProbeLabels
  BY <1>3 DEF ProbeLabels
<1>5. /\ Pos(t) = Probe(capacity[t], key[t], i[t]) /\ Pos(t) \in 0..(capacity[t] - 1)
      /\ Pos(t) \in 0..(Largest - 1) /\ capacity[t] \in Caps /\ i[t] < capacity[t]
      /\ key[t] \in Keys /\ seq1[t] % 2 = 0
  BY <1>4, ProbePos
<1>6. off \in Int /\ cur[t] \in Word
  BY <1>1, <1>2, <1>5, LoadTypes, ReaderAt
<1>7. [cur[t] EXCEPT !.off = off] \in Word /\ [cur[t] EXCEPT !.off = off].off = off
  BY <1>6 DEF Word
<1>8. cur' = [cur EXCEPT ![t] = [cur[t] EXCEPT !.off = off]]
  BY <1>2
<1>9. LocalTypes'
  BY <1>1, <1>3, <1>7, <1>8 DEF LocalTypes, Labels, GetLabels
<1>10. Others(t)
  BY <1>1, <1>3, <1>8 DEF LocalTypes, Others
<1>11. /\ pc'[t] = "get_key" /\ capacity'[t] = capacity[t] /\ seq1'[t] = seq1[t] /\ key'[t] = key[t]
       /\ i'[t] = i[t] /\ cur'[t].off = off /\ res'[t] = res[t]
  BY <1>1, <1>3, <1>7, <1>8 DEF LocalTypes
<1>12. Stands("get_key", key[t], seq1[t], capacity[t], i[t], SeqH)
  BY <1>5, ReaderAt DEF Stands, Started, ProbeLabels
<1>13. ASSUME seq1[t] = SeqH
       PROVE Seen("get_key", key[t], capacity[t], i[t], cur'[t], res[t], CapH, content)
  <2>1. /\ Seen(pc[t], key[t], capacity[t], i[t], cur[t], res[t], CapH, content)
        /\ \A p \in 0..(CapH - 1) : LoadOff(p) = {content[p].off}
    BY <1>5, <1>13, FreshTable
  <2>2. capacity[t] = CapH /\ Passed(content, CapH, key[t], i[t])
    BY <1>4, <2>1 DEF Seen
  <2>3. off = content[Probe(CapH, key[t], i[t])].off
    BY <1>2, <1>5, <2>1, <2>2
  <2> QED BY <1>11, <2>2, <2>3 DEF Seen
<1>14. View(pc'[t], key'[t], seq1'[t], capacity'[t], i'[t], cur'[t], res'[t], SeqH, CapH, content)
  BY <1>11, <1>12, <1>13 DEF View
<1>15. pc[t] \in ReadLabels /\ pc'[t] \in ReadLabels
  BY <1>3, <1>11 DEF ReadLabels, GetLabels
<1> QED BY <1>3, <1>9, <1>10, <1>14, <1>15, ReaderKeeps

(* ef_hash_entry_load_atomic, the key                                      *)
LEMMA GetKeyKeeps ==
  ASSUME OneHandle, SeqInv, NEW t \in Threads, GetKey(t)
  PROVE SeqInv'
<1>1. LocalTypes /\ MemTypes
  BY DEF SeqInv
<1>2. PICK k \in LoadKey(Pos(t)) : cur' = [cur EXCEPT ![t].key = k]
  BY DEF GetKey
<1>3. /\ pc[t] = "get_key" /\ pc' = [pc EXCEPT ![t] = "get_empty"]
      /\ UNCHANGED <<key, seq1, capacity, i, res>> /\ UNCHANGED <<memVars, todo, content>>
  BY DEF GetKey, Goto
<1>4. pc[t] \in ProbeLabels
  BY <1>3 DEF ProbeLabels
<1>5. /\ Pos(t) = Probe(capacity[t], key[t], i[t]) /\ Pos(t) \in 0..(capacity[t] - 1)
      /\ Pos(t) \in 0..(Largest - 1) /\ capacity[t] \in Caps /\ i[t] < capacity[t]
      /\ key[t] \in Keys /\ seq1[t] % 2 = 0
  BY <1>4, ProbePos
<1>6. k \in Int /\ cur[t] \in Word
  BY <1>1, <1>2, <1>5, LoadTypes, ReaderAt
<1>7. [cur[t] EXCEPT !.key = k] \in Word /\ [cur[t] EXCEPT !.key = k] = [key |-> k, off |-> cur[t].off]
  BY <1>6 DEF Word
<1>8. cur' = [cur EXCEPT ![t] = [cur[t] EXCEPT !.key = k]]
  BY <1>2
<1>9. LocalTypes'
  BY <1>1, <1>3, <1>7, <1>8 DEF LocalTypes, Labels, GetLabels
<1>10. Others(t)
  BY <1>1, <1>3, <1>8 DEF LocalTypes, Others
<1>11. /\ pc'[t] = "get_empty" /\ capacity'[t] = capacity[t] /\ seq1'[t] = seq1[t] /\ key'[t] = key[t]
       /\ i'[t] = i[t] /\ cur'[t] = [key |-> k, off |-> cur[t].off] /\ res'[t] = res[t]
  BY <1>1, <1>3, <1>7, <1>8 DEF LocalTypes
<1>12. Stands("get_empty", key[t], seq1[t], capacity[t], i[t], SeqH)
  BY <1>5, ReaderAt DEF Stands, Started, ProbeLabels
<1>13. ASSUME seq1[t] = SeqH
       PROVE Seen("get_empty", key[t], capacity[t], i[t], cur'[t], res[t], CapH, content)
  <2> DEFINE p == Probe(CapH, key[t], i[t])
  <2>1. /\ Seen(pc[t], key[t], capacity[t], i[t], cur[t], res[t], CapH, content)
        /\ \A q \in 0..(CapH - 1) : LoadKey(q) = {content[q].key}
        /\ content \in FineTable(CapH, payload)
    BY <1>5, <1>13, FreshTable
  <2>2. capacity[t] = CapH /\ Passed(content, CapH, key[t], i[t]) /\ cur[t].off = content[p].off
    BY <1>3, <1>4, <2>1 DEF Seen
  <2>3. p \in 0..(CapH - 1) /\ Pos(t) = p
    BY <1>5, <2>2
  <2> HIDE DEF p
  <2>4. k = content[p].key
    BY <1>2, <2>1, <2>3
  <2>5. content[p] \in FineEntry(CapH, payload)
    BY <2>1, <2>3 DEF FineTable
  <2>6. content[p] = [key |-> content[p].key, off |-> content[p].off]
    BY <2>5 DEF FineEntry
  <2>7. cur'[t] = content[p]
    BY <1>11, <2>2, <2>4, <2>6
  <2> QED BY <2>2, <2>7 DEF Seen, p
<1>14. View(pc'[t], key'[t], seq1'[t], capacity'[t], i'[t], cur'[t], res'[t], SeqH, CapH, content)
  BY <1>11, <1>12, <1>13 DEF View
<1>15. pc[t] \in ReadLabels /\ pc'[t] \in ReadLabels
  BY <1>3, <1>11 DEF ReadLabels, GetLabels
<1> QED BY <1>3, <1>9, <1>10, <1>14, <1>15, ReaderKeeps

(* The verdict of ef_index_find_entry_unlocked, from a table that did not  *)
(* change: what Find says.                                                 *)
LEMMA VerdictIsFind ==
  ASSUME NEW c \in Nat, c # 0, NEW pay, NEW T \in FineTable(c, pay), NEW k \in Nat, k # 0,
         NEW n \in Nat, n < c, Passed(T, c, k, n),
         NEW e, e = T[Probe(c, k, n)]
  PROVE /\ e.off = 0 => Find(T, k) = Empty
        /\ e.off # 0 /\ e.key = k => Find(T, k) = e
        /\ e.off # 0 /\ e.key # k => Passed(T, c, k, n + 1)
        /\ e.off # 0 /\ e.key # k /\ n + 1 = c => Find(T, k) = Empty
<1>1. DOMAIN T = 0..(c - 1) /\ n \in 0..(c - 1)
  BY DEF FineTable
<1>2. Probe(c, k, n) \in 0..(c - 1)
  <2>1. Home(c, k) + n \in Int
    BY DEF Home
  <2> QED BY <2>1, PosBelow DEF Probe
<1>3. e \in FineEntry(c, pay)
  BY <1>2 DEF FineTable
<1>4. e.off = 0 \/ e.key = k => Find(T, k) = e
  BY <1>1, FoundAt DEF Passed
<1>5. e.off = 0 => e = Empty
  BY <1>3 DEF FineEntry, Empty
<1>6. e.off # 0 /\ e.key # k => Passed(T, c, k, n + 1)
  <2> SUFFICES ASSUME e.off # 0 /\ e.key # k, NEW m \in 0..(n + 1 - 1)
               PROVE T[Probe(c, k, m)].off # 0 /\ T[Probe(c, k, m)].key # k
    BY DEF Passed
  <2>1. m = n \/ m \in 0..(n - 1)
    OBVIOUS
  <2> QED BY <2>1 DEF Passed
<1>7. Passed(T, c, k, n + 1) /\ n + 1 = c => Find(T, k) = Empty
  <2> SUFFICES ASSUME Passed(T, c, k, c) PROVE Find(T, k) = Empty
    OBVIOUS
  <2>1. \A m \in 0..(c - 1) : T[Probe(c, k, m)].off # 0 /\ T[Probe(c, k, m)].key # k
    BY DEF Passed
  <2> QED BY <1>1, <2>1, NotFoundAt
<1> QED BY <1>4, <1>5, <1>6, <1>7

(* ef_hash_entry_empty_atomic, and where a lookup goes on.                 *)
LEMMA GetEmptyKeeps ==
  ASSUME OneHandle, SeqInv, NEW t \in Threads, GetEmpty(t)
  PROVE SeqInv'
<1>1. LocalTypes /\ MemTypes
  BY DEF SeqInv
<1>2. /\ pc[t] = "get_empty" /\ UNCHANGED <<key, seq1, capacity, cur>>
      /\ UNCHANGED <<memVars, todo, content>>
  BY DEF GetEmpty
<1>3. PICK off \in LoadOff(Pos(t)) :
        LET match == off # 0 /\ cur[t].key = key[t] IN
        IF off = 0 \/ match \/ i[t] + 1 = capacity[t]
        THEN /\ res' = [res EXCEPT ![t] = IF match THEN cur[t] ELSE Empty]
             /\ Goto(t, "get_check")
             /\ UNCHANGED i
        ELSE /\ i' = [i EXCEPT ![t] = @ + 1]
             /\ Goto(t, "get_off")
             /\ UNCHANGED res
  BY DEF GetEmpty
<1> DEFINE match == off # 0 /\ cur[t].key = key[t]
           stop == off = 0 \/ match \/ i[t] + 1 = capacity[t]
           verdict == IF match THEN cur[t] ELSE Empty
<1>4. pc[t] \in ProbeLabels /\ pc[t] \in ReadLabels
  BY <1>2 DEF ProbeLabels, ReadLabels, GetLabels
<1>5. /\ Pos(t) = Probe(capacity[t], key[t], i[t]) /\ Pos(t) \in 0..(capacity[t] - 1)
      /\ Pos(t) \in 0..(Largest - 1) /\ capacity[t] \in Caps /\ i[t] < capacity[t]
      /\ key[t] \in Keys /\ key[t] \in Nat /\ key[t] # 0 /\ seq1[t] % 2 = 0
  BY <1>4, ProbePos
<1>6. /\ cur[t] \in Word /\ Empty \in Word /\ i[t] \in Nat /\ capacity[t] \in Nat
      /\ seq1[t] <= SeqH /\ CapH \in Nat /\ CapH # 0
  BY ReaderAt DEF Empty, Word
<1>7. ASSUME seq1[t] = SeqH
      PROVE /\ capacity[t] = CapH
            /\ off = 0 => Find(content, key[t]) = Empty
            /\ match => Find(content, key[t]) = cur[t]
            /\ off # 0 /\ ~match => Passed(content, CapH, key[t], i[t] + 1)
            /\ off # 0 /\ ~match /\ i[t] + 1 = capacity[t] => Find(content, key[t]) = Empty
  <2>1. /\ Seen(pc[t], key[t], capacity[t], i[t], cur[t], res[t], CapH, content)
        /\ \A q \in 0..(CapH - 1) : LoadOff(q) = {content[q].off}
        /\ content \in FineTable(CapH, payload)
    BY <1>5, <1>7, FreshTable
  <2>2. /\ capacity[t] = CapH /\ Passed(content, CapH, key[t], i[t])
        /\ cur[t] = content[Probe(CapH, key[t], i[t])]
    BY <1>2, <1>4, <2>1 DEF Seen
  <2>3. off = cur[t].off
    BY <1>3, <1>5, <2>1, <2>2
  <2>4. /\ cur[t].off = 0 => Find(content, key[t]) = Empty
        /\ cur[t].off # 0 /\ cur[t].key = key[t] => Find(content, key[t]) = cur[t]
        /\ cur[t].off # 0 /\ cur[t].key # key[t] => Passed(content, CapH, key[t], i[t] + 1)
        /\ cur[t].off # 0 /\ cur[t].key # key[t] /\ i[t] + 1 = CapH => Find(content, key[t]) = Empty
    BY <1>5, <1>6, <2>1, <2>2, VerdictIsFind
  <2> QED BY <2>2, <2>3, <2>4
<1>8. CASE stop
  <2>1. res' = [res EXCEPT ![t] = verdict] /\ pc' = [pc EXCEPT ![t] = "get_check"] /\ UNCHANGED i
    BY <1>3, <1>8 DEF Goto
  <2>2. verdict \in Word
    BY <1>6
  <2>3. seq1[t] = SeqH => verdict = Find(content, key[t])
    BY <1>7, <1>8
  <2> HIDE DEF verdict, stop, match
  <2>4. LocalTypes'
    BY <1>1, <1>2, <2>1, <2>2 DEF LocalTypes, Labels, GetLabels
  <2>5. Others(t)
    BY <1>1, <1>2, <2>1 DEF LocalTypes, Others
  <2>6. /\ pc'[t] = "get_check" /\ capacity'[t] = capacity[t] /\ seq1'[t] = seq1[t]
        /\ key'[t] = key[t] /\ i'[t] = i[t] /\ cur'[t] = cur[t] /\ res'[t] = verdict
    BY <1>1, <1>2, <2>1 DEF LocalTypes
  <2>7. Stands("get_check", key[t], seq1[t], capacity[t], i[t], SeqH)
    BY <1>5, <1>6 DEF Stands, Started, ProbeLabels, IterLabels
  <2>8. seq1[t] = SeqH => Seen("get_check", key[t], capacity[t], i[t], cur[t], verdict, CapH, content)
    BY <2>3 DEF Seen, ProbeLabels
  <2>9. View(pc'[t], key'[t], seq1'[t], capacity'[t], i'[t], cur'[t], res'[t], SeqH, CapH, content)
    BY <2>6, <2>7, <2>8 DEF View
  <2>10. pc'[t] \in ReadLabels
    BY <2>6 DEF ReadLabels, GetLabels
  <2> QED BY <1>2, <1>4, <2>4, <2>5, <2>9, <2>10, ReaderKeeps
<1>9. CASE ~stop
  <2>1. i' = [i EXCEPT ![t] = i[t] + 1] /\ pc' = [pc EXCEPT ![t] = "get_off"] /\ UNCHANGED res
    BY <1>3, <1>9 DEF Goto
  <2>2. i[t] + 1 \in Nat /\ i[t] + 1 < capacity[t]
    BY <1>5, <1>6, <1>9
  <2>3. seq1[t] = SeqH => capacity[t] = CapH /\ Passed(content, CapH, key[t], i[t] + 1)
    BY <1>7, <1>9
  <2> HIDE DEF verdict, stop, match
  <2>4. LocalTypes'
    BY <1>1, <1>2, <2>1, <2>2 DEF LocalTypes, Labels, GetLabels
  <2>5. Others(t)
    BY <1>1, <1>2, <2>1 DEF LocalTypes, Others
  <2>6. /\ pc'[t] = "get_off" /\ capacity'[t] = capacity[t] /\ seq1'[t] = seq1[t]
        /\ key'[t] = key[t] /\ i'[t] = i[t] + 1 /\ cur'[t] = cur[t] /\ res'[t] = res[t]
    BY <1>1, <1>2, <2>1 DEF LocalTypes
  <2>7. Stands("get_off", key[t], seq1[t], capacity[t], i[t] + 1, SeqH)
    BY <1>5, <1>6, <2>2 DEF Stands, Started, ProbeLabels
  <2>8. seq1[t] = SeqH => Seen("get_off", key[t], capacity[t], i[t] + 1, cur[t], res[t], CapH, content)
    BY <2>3 DEF Seen
  <2>9. View(pc'[t], key'[t], seq1'[t], capacity'[t], i'[t], cur'[t], res'[t], SeqH, CapH, content)
    BY <2>6, <2>7, <2>8 DEF View
  <2>10. pc'[t] \in ReadLabels
    BY <2>6 DEF ReadLabels, GetLabels
  <2> QED BY <1>2, <1>4, <2>4, <2>5, <2>9, <2>10, ReaderKeeps
<1> QED BY <1>8, <1>9

(* The second load of index_seq.                                           *)
LEMMA GetCheckKeeps ==
  ASSUME OneHandle, SeqInv, NEW t \in Threads, GetCheck(t)
  PROVE SeqInv'
<1>1. pc[t] = "get_check" /\ UNCHANGED <<memVars, todo, content>>
  BY DEF GetCheck
<1>2. pc[t] \in GetLabels /\ pc[t] \in ReadLabels
  BY <1>1 DEF ReadLabels, GetLabels
<1>3. CASE Retry(t)
  BY <1>1, <1>2, <1>3, RetryKeeps
<1>4. CASE Finish(t)
  BY <1>1, <1>2, <1>4, FinishKeeps
<1>5. CASE Stable(t) /\ res[t].off # 0 /\ Goto(t, "get_slot") /\ UNCHANGED readVars
  <2>1. LocalTypes /\ SeqNow(t) = SeqH /\ seq1[t] <= SeqH
    BY ReaderAt
  <2>2. pc' = [pc EXCEPT ![t] = "get_slot"] /\ UNCHANGED <<key, seq1, capacity, i, cur, res>>
    BY <1>5 DEF Goto, readVars
  <2>3. LocalTypes'
    BY <2>1, <2>2 DEF LocalTypes, Labels, GetLabels
  <2>4. Others(t)
    BY <2>1, <2>2 DEF LocalTypes, Others
  <2>5. pc'[t] = "get_slot"
    BY <2>1, <2>2 DEF LocalTypes
  <2>6. seq1[t] = SeqH /\ seq1[t] % 2 = 0
    BY <1>5, <2>1 DEF Stable
  <2>7. key[t] \in Keys
    BY <1>2, ReaderAt DEF Stands
  <2>8. Stands("get_slot", key[t], seq1[t], capacity[t], i[t], SeqH)
    BY <2>1, <2>6, <2>7 DEF Stands, Started, ProbeLabels, IterLabels
  <2>9. Seen(pc[t], key[t], capacity[t], i[t], cur[t], res[t], CapH, content)
    BY <2>6, FreshTable
  <2>10. Seen("get_slot", key[t], capacity[t], i[t], cur[t], res[t], CapH, content)
    BY <1>1, <1>5, <2>9 DEF Seen, ProbeLabels
  <2>11. View(pc'[t], key'[t], seq1'[t], capacity'[t], i'[t], cur'[t], res'[t], SeqH, CapH, content)
    BY <2>2, <2>5, <2>8, <2>10 DEF View
  <2>12. pc'[t] \in ReadLabels
    BY <2>5 DEF ReadLabels, GetLabels
  <2> QED BY <1>1, <1>2, <2>3, <2>4, <2>11, <2>12, ReaderKeeps
<1> QED BY <1>3, <1>4, <1>5 DEF GetCheck

(* The return of ef_index_get.                                             *)
LEMMA GetSlotKeeps ==
  ASSUME OneHandle, SeqInv, NEW t \in Threads, GetSlot(t)
  PROVE SeqInv'
<1>1. pc[t] \in ReadLabels /\ UNCHANGED <<memVars, todo, content>> /\ Finish(t)
  BY DEF GetSlot, ReadLabels, GetLabels
<1> QED BY <1>1, FinishKeeps

(* What an iteration knows before it reads an entry.                       *)
LEMMA IterAt ==
  ASSUME OneHandle, SeqInv, NEW t \in Threads, pc[t] \in IterLabels
  PROVE /\ capacity[t] \in Caps /\ i[t] < capacity[t] /\ i[t] \in 0..(Largest - 1)
        /\ capacity[t] = CapH => i[t] \in 0..(CapH - 1)
        /\ pc[t] \in ReadLabels
<1>1. capacity[t] \in Caps /\ i[t] < capacity[t]
  BY ReaderAt DEF Stands
<1>2. capacity[t] \in Nat /\ Largest \in Nat /\ capacity[t] <= Largest /\ i[t] \in Nat
  BY <1>1, LargestCap, ReaderAt DEF Largest
<1> QED BY <1>1, <1>2 DEF ReadLabels

(* ef_index_iterate_until: the capacity.                                   *)
LEMMA IterCallKeeps ==
  ASSUME OneHandle, SeqInv, NEW t \in Threads, IterCall(t)
  PROVE SeqInv'
<1>1. LocalTypes /\ CapNow(t) = CapH /\ CapH \in Caps /\ CapH \in Nat /\ CapH # 0
  BY ReaderAt
<1>2. /\ pc[t] = "idle" /\ pc' = [pc EXCEPT ![t] = "iter_begin"]
      /\ capacity' = [capacity EXCEPT ![t] = CapH]
      /\ UNCHANGED <<key, seq1, i, cur, res>> /\ UNCHANGED <<memVars, todo, content>>
  BY <1>1 DEF IterCall, Goto
<1>3. LocalTypes'
  BY <1>1, <1>2 DEF LocalTypes, Labels, IterLabels
<1>4. Others(t)
  BY <1>1, <1>2 DEF LocalTypes, Others
<1>5. pc'[t] = "iter_begin" /\ capacity'[t] = CapH
  BY <1>1, <1>2 DEF LocalTypes
<1>6. i[t] = 0 /\ seq1[t] <= SeqH
  BY <1>2, ReaderAt DEF Stands, Started, ProbeLabels
<1>7. Stands("iter_begin", key[t], seq1[t], CapH, i[t], SeqH)
  BY <1>1, <1>6 DEF Stands, GetLabels
<1>8. Seen("iter_begin", key[t], CapH, i[t], cur[t], res[t], CapH, content)
  BY DEF Seen, ProbeLabels
<1>9. View(pc'[t], key'[t], seq1'[t], capacity'[t], i'[t], cur'[t], res'[t], SeqH, CapH, content)
  BY <1>2, <1>5, <1>7, <1>8 DEF View
<1>10. pc[t] \in ReadLabels /\ pc'[t] \in ReadLabels
  BY <1>2, <1>5 DEF ReadLabels, IterLabels
<1> QED BY <1>2, <1>3, <1>4, <1>9, <1>10, ReaderKeeps

(* Its first load of index_seq, odd or even.                               *)
LEMMA IterBeginKeeps ==
  ASSUME OneHandle, SeqInv, NEW t \in Threads, IterBegin(t)
  PROVE SeqInv'
<1>1. LocalTypes /\ SeqNow(t) = SeqH /\ SeqH \in Nat
  BY ReaderAt
<1>2. /\ pc[t] = "iter_begin" /\ pc' = [pc EXCEPT ![t] = "iter_off"]
      /\ seq1' = [seq1 EXCEPT ![t] = SeqH]
      /\ UNCHANGED <<key, capacity, i, cur, res>> /\ UNCHANGED <<memVars, todo, content>>
  BY <1>1 DEF IterBegin, Goto
<1>3. LocalTypes'
  BY <1>1, <1>2 DEF LocalTypes, Labels, IterLabels
<1>4. Others(t)
  BY <1>1, <1>2 DEF LocalTypes, Others
<1>5. pc'[t] = "iter_off" /\ seq1'[t] = SeqH
  BY <1>1, <1>2 DEF LocalTypes
<1>6. pc[t] \in IterLabels
  BY <1>2 DEF IterLabels
<1>7. capacity[t] \in Caps /\ i[t] < capacity[t] /\ pc[t] \in ReadLabels /\ SeqH <= SeqH
  BY <1>1, <1>6, IterAt
<1>8. Stands("iter_off", key[t], SeqH, capacity[t], i[t], SeqH)
  BY <1>7 DEF Stands, Started, GetLabels
<1>9. Seen("iter_off", key[t], capacity[t], i[t], cur[t], res[t], CapH, content)
  BY DEF Seen, ProbeLabels
<1>10. View(pc'[t], key'[t], seq1'[t], capacity'[t], i'[t], cur'[t], res'[t], SeqH, CapH, content)
  BY <1>2, <1>5, <1>8, <1>9 DEF View
<1>11. pc'[t] \in ReadLabels
  BY <1>5 DEF ReadLabels, IterLabels
<1> QED BY <1>2, <1>3, <1>4, <1>7, <1>10, <1>11, ReaderKeeps

(* The offset of the entry.                                                *)
LEMMA IterOffKeeps ==
  ASSUME OneHandle, SeqInv, NEW t \in Threads, IterOff(t)
  PROVE SeqInv'
<1>1. LocalTypes /\ MemTypes
  BY DEF SeqInv
<1>2. PICK off \in LoadOff(i[t]) : cur' = [cur EXCEPT ![t].off = off]
  BY DEF IterOff
<1>3. /\ pc[t] = "iter_off" /\ pc' = [pc EXCEPT ![t] = "iter_key"]
      /\ UNCHANGED <<key, seq1, capacity, i, res>> /\ UNCHANGED <<memVars, todo, content>>
  BY DEF IterOff, Goto
<1>4. pc[t] \in IterLabels
  BY <1>3 DEF IterLabels
<1>5. /\ capacity[t] \in Caps /\ i[t] < capacity[t] /\ i[t] \in 0..(Largest - 1)
      /\ capacity[t] = CapH => i[t] \in 0..(CapH - 1)
      /\ pc[t] \in ReadLabels
  BY <1>4, IterAt
<1>6. off \in Int /\ cur[t] \in Word
  BY <1>1, <1>2, <1>5, LoadTypes, ReaderAt
<1>7. [cur[t] EXCEPT !.off = off] \in Word /\ [cur[t] EXCEPT !.off = off].off = off
  BY <1>6 DEF Word
<1>8. cur' = [cur EXCEPT ![t] = [cur[t] EXCEPT !.off = off]]
  BY <1>2
<1>9. LocalTypes'
  BY <1>1, <1>3, <1>7, <1>8 DEF LocalTypes, Labels, IterLabels
<1>10. Others(t)
  BY <1>1, <1>3, <1>8 DEF LocalTypes, Others
<1>11. pc'[t] = "iter_key" /\ cur'[t].off = off
  BY <1>1, <1>3, <1>7, <1>8 DEF LocalTypes
<1>12. Stands("iter_key", key[t], seq1[t], capacity[t], i[t], SeqH)
  BY <1>5, ReaderAt DEF Stands, Started, GetLabels
<1>13. ASSUME seq1[t] = SeqH, seq1[t] % 2 = 0
       PROVE Seen("iter_key", key[t], capacity[t], i[t], cur'[t], res[t], CapH, content)
  <2>1. \A p \in 0..(CapH - 1) : LoadOff(p) = {content[p].off}
    BY <1>13, FreshTable
  <2>2. capacity[t] = CapH => off = content[i[t]].off
    BY <1>2, <1>5, <2>1
  <2> QED BY <1>11, <2>2 DEF Seen, ProbeLabels
<1>14. View(pc'[t], key'[t], seq1'[t], capacity'[t], i'[t], cur'[t], res'[t], SeqH, CapH, content)
  BY <1>3, <1>11, <1>12, <1>13 DEF View
<1>15. pc'[t] \in ReadLabels
  BY <1>11 DEF ReadLabels, IterLabels
<1> QED BY <1>3, <1>5, <1>9, <1>10, <1>14, <1>15, ReaderKeeps

(* The key of the entry.                                                   *)
LEMMA IterKeyKeeps ==
  ASSUME OneHandle, SeqInv, NEW t \in Threads, IterKey(t)
  PROVE SeqInv'
<1>1. LocalTypes /\ MemTypes
  BY DEF SeqInv
<1>2. PICK k \in LoadKey(i[t]) : cur' = [cur EXCEPT ![t].key = k]
  BY DEF IterKey
<1>3. /\ pc[t] = "iter_key" /\ pc' = [pc EXCEPT ![t] = "iter_empty"]
      /\ UNCHANGED <<key, seq1, capacity, i, res>> /\ UNCHANGED <<memVars, todo, content>>
  BY DEF IterKey, Goto
<1>4. pc[t] \in IterLabels
  BY <1>3 DEF IterLabels
<1>5. /\ capacity[t] \in Caps /\ i[t] < capacity[t] /\ i[t] \in 0..(Largest - 1)
      /\ capacity[t] = CapH => i[t] \in 0..(CapH - 1)
      /\ pc[t] \in ReadLabels
  BY <1>4, IterAt
<1>6. k \in Int /\ cur[t] \in Word
  BY <1>1, <1>2, <1>5, LoadTypes, ReaderAt
<1>7. [cur[t] EXCEPT !.key = k] \in Word /\ [cur[t] EXCEPT !.key = k] = [key |-> k, off |-> cur[t].off]
  BY <1>6 DEF Word
<1>8. cur' = [cur EXCEPT ![t] = [cur[t] EXCEPT !.key = k]]
  BY <1>2
<1>9. LocalTypes'
  BY <1>1, <1>3, <1>7, <1>8 DEF LocalTypes, Labels, IterLabels
<1>10. Others(t)
  BY <1>1, <1>3, <1>8 DEF LocalTypes, Others
<1>11. pc'[t] = "iter_empty" /\ cur'[t] = [key |-> k, off |-> cur[t].off]
  BY <1>1, <1>3, <1>7, <1>8 DEF LocalTypes
<1>12. Stands("iter_empty", key[t], seq1[t], capacity[t], i[t], SeqH)
  BY <1>5, ReaderAt DEF Stands, Started, GetLabels
<1>13. ASSUME seq1[t] = SeqH, seq1[t] % 2 = 0
       PROVE Seen("iter_empty", key[t], capacity[t], i[t], cur'[t], res[t], CapH, content)
  <2>1. /\ Seen(pc[t], key[t], capacity[t], i[t], cur[t], res[t], CapH, content)
        /\ \A p \in 0..(CapH - 1) : LoadKey(p) = {content[p].key}
        /\ content \in FineTable(CapH, payload)
    BY <1>13, FreshTable
  <2>2. ASSUME capacity[t] = CapH PROVE cur'[t] = content[i[t]]
    <3>1. k = content[i[t]].key /\ cur[t].off = content[i[t]].off
      BY <1>2, <1>3, <1>5, <2>1, <2>2 DEF Seen
    <3>2. content[i[t]] \in FineEntry(CapH, payload)
      BY <1>5, <2>1, <2>2 DEF FineTable
    <3>3. content[i[t]] = [key |-> content[i[t]].key, off |-> content[i[t]].off]
      BY <3>2 DEF FineEntry
    <3> QED BY <1>11, <3>1, <3>3
  <2> QED BY <2>2 DEF Seen, ProbeLabels
<1>14. View(pc'[t], key'[t], seq1'[t], capacity'[t], i'[t], cur'[t], res'[t], SeqH, CapH, content)
  BY <1>3, <1>11, <1>12, <1>13 DEF View
<1>15. pc'[t] \in ReadLabels
  BY <1>11 DEF ReadLabels, IterLabels
<1> QED BY <1>3, <1>5, <1>9, <1>10, <1>14, <1>15, ReaderKeeps

(* On to the next entry, or the end.                                       *)
LEMMA IterNextKeeps ==
  ASSUME OneHandle, SeqInv, NEW t \in Threads, pc[t] \in IterLabels,
         UNCHANGED <<memVars, todo, content>>, IterNext(t)
  PROVE SeqInv'
<1>1. LocalTypes /\ i[t] \in Nat /\ capacity[t] \in Nat /\ seq1[t] <= SeqH
  BY ReaderAt
<1>2. capacity[t] \in Caps /\ i[t] < capacity[t] /\ pc[t] \in ReadLabels
  BY IterAt
<1>3. CASE i[t] + 1 = capacity[t]
  BY <1>2, <1>3, FinishKeeps DEF IterNext
<1>4. CASE i[t] + 1 # capacity[t]
  <2>1. /\ i' = [i EXCEPT ![t] = i[t] + 1] /\ pc' = [pc EXCEPT ![t] = "iter_off"]
        /\ UNCHANGED <<key, seq1, capacity, cur, res>>
    BY <1>4 DEF IterNext, Goto
  <2>2. i[t] + 1 \in Nat /\ i[t] + 1 < capacity[t]
    BY <1>1, <1>2, <1>4
  <2>3. LocalTypes'
    BY <1>1, <2>1, <2>2 DEF LocalTypes, Labels, IterLabels
  <2>4. Others(t)
    BY <1>1, <2>1 DEF LocalTypes, Others
  <2>5. pc'[t] = "iter_off" /\ i'[t] = i[t] + 1
    BY <1>1, <2>1 DEF LocalTypes
  <2>6. Stands("iter_off", key[t], seq1[t], capacity[t], i[t] + 1, SeqH)
    BY <1>1, <1>2, <2>2 DEF Stands, Started, GetLabels
  <2>7. Seen("iter_off", key[t], capacity[t], i[t] + 1, cur[t], res[t], CapH, content)
    BY DEF Seen, ProbeLabels
  <2>8. View(pc'[t], key'[t], seq1'[t], capacity'[t], i'[t], cur'[t], res'[t], SeqH, CapH, content)
    BY <2>1, <2>5, <2>6, <2>7 DEF View
  <2>9. pc'[t] \in ReadLabels
    BY <2>5 DEF ReadLabels, IterLabels
  <2> QED BY <1>2, <2>3, <2>4, <2>8, <2>9, ReaderKeeps
<1> QED BY <1>3, <1>4

(* ef_hash_entry_empty_atomic in an iteration.                             *)
LEMMA IterEmptyKeeps ==
  ASSUME OneHandle, SeqInv, NEW t \in Threads, IterEmpty(t)
  PROVE SeqInv'
<1>1. pc[t] = "iter_empty" /\ UNCHANGED <<memVars, todo, content>>
  BY DEF IterEmpty
<1>2. pc[t] \in IterLabels
  BY <1>1 DEF IterLabels
<1>3. CASE IterNext(t)
  BY <1>1, <1>2, <1>3, IterNextKeeps
<1>4. CASE Goto(t, "iter_seq") /\ UNCHANGED readVars
  <2>1. LocalTypes /\ seq1[t] <= SeqH
    BY ReaderAt
  <2>2. pc' = [pc EXCEPT ![t] = "iter_seq"] /\ UNCHANGED <<key, seq1, capacity, i, cur, res>>
    BY <1>4 DEF Goto, readVars
  <2>3. LocalTypes'
    BY <2>1, <2>2 DEF LocalTypes, Labels, IterLabels
  <2>4. Others(t)
    BY <2>1, <2>2 DEF LocalTypes, Others
  <2>5. pc'[t] = "iter_seq"
    BY <2>1, <2>2 DEF LocalTypes
  <2>6. capacity[t] \in Caps /\ i[t] < capacity[t] /\ pc[t] \in ReadLabels
    BY <1>2, IterAt
  <2>7. Stands("iter_seq", key[t], seq1[t], capacity[t], i[t], SeqH)
    BY <2>1, <2>6 DEF Stands, Started, GetLabels
  <2>8. ASSUME seq1[t] = SeqH, seq1[t] % 2 = 0
        PROVE Seen("iter_seq", key[t], capacity[t], i[t], cur[t], res[t], CapH, content)
    <3>1. Seen(pc[t], key[t], capacity[t], i[t], cur[t], res[t], CapH, content)
      BY <2>8, FreshTable
    <3> QED BY <1>1, <3>1 DEF Seen, ProbeLabels
  <2>9. View(pc'[t], key'[t], seq1'[t], capacity'[t], i'[t], cur'[t], res'[t], SeqH, CapH, content)
    BY <2>2, <2>5, <2>7, <2>8 DEF View
  <2>10. pc'[t] \in ReadLabels
    BY <2>5 DEF ReadLabels, IterLabels
  <2> QED BY <1>1, <2>3, <2>4, <2>6, <2>9, <2>10, ReaderKeeps
<1> QED BY <1>3, <1>4 DEF IterEmpty

(* The callback, or EF_ERR_INDEX_BUSY.                                     *)
LEMMA IterSeqKeeps ==
  ASSUME OneHandle, SeqInv, NEW t \in Threads, IterSeq(t)
  PROVE SeqInv'
<1>1. pc[t] \in IterLabels /\ pc[t] \in ReadLabels /\ UNCHANGED <<memVars, todo, content>>
  BY DEF IterSeq, IterLabels, ReadLabels
<1>2. Finish(t) \/ IterNext(t)
  BY DEF IterSeq
<1> QED BY <1>1, <1>2, FinishKeeps, IterNextKeeps

-----------------------------------------------------------------------------
(* The theorems.                                                           *)

(* An empty table, no section under way, and readers that are idle.        *)
LEMMA InitKeeps ==
  ASSUME OneHandle, Init
  PROVE SeqInv
<1>1. /\ hash_capacity = [h \in Handles |-> InitCap] /\ index_seq = [h \in Handles |-> 0]
      /\ words = [p \in 0..(Largest - 1) |-> IF p < InitCap THEN Empty ELSE SlotBytes]
      /\ payload = [s \in Slots |-> 0] /\ todo = [t \in Threads |-> <<>>]
      /\ content = EmptyTable(InitCap)
  BY DEF Init, Largest
<1>2. /\ pc = [t \in Threads |-> "idle"] /\ key = [t \in Threads |-> 0]
      /\ seq1 = [t \in Threads |-> 0] /\ capacity = [t \in Threads |-> 0]
      /\ i = [t \in Threads |-> 0] /\ cur = [t \in Threads |-> Empty]
      /\ res = [t \in Threads |-> Empty]
  BY DEF Init
<1>3. Empty \in Word /\ SlotBytes \in Word
  BY DEF Empty, SlotBytes, Word
<1>4. InitCap \in Caps /\ InitCap \in Nat /\ InitCap # 0 /\ Largest \in Nat /\ InitCap <= Largest
  BY SeqCaps, LargestCap DEF Largest
<1>5. words \in Words
  BY <1>1, <1>3 DEF Words
<1>6. MemTypes
  BY <1>1, <1>4, <1>5 DEF MemTypes
<1>7. LocalTypes
  BY <1>2, <1>3 DEF LocalTypes, Labels
<1>8. H \in Handles
  BY SameHandle
<1>9. SeqH = 0 /\ CapH = InitCap
  BY <1>1, <1>8 DEF SeqH, CapH
<1>10. \A t \in Threads : pc[t] = "idle" /\ pc[t] \notin SectionLabels /\ pc[t] \notin WriteLabels
                          /\ pc[t] \notin {"seq_begin"} \cup WriteLabels
  BY <1>2 DEF SectionLabels, WriteLabels
<1>11. Held /\ Parity /\ Plans
  BY <1>9, <1>10 DEF Held, Parity, Plans
<1>12. \A p \in 0..(InitCap - 1) : words[p] = Empty
  BY <1>1, <1>4
<1>13. content = Table(CapH)
  BY <1>1, <1>9, <1>12 DEF EmptyTable, Table
<1>14. \A p \in 0..(CapH - 1) : words[p] \in FineEntry(CapH, payload)
  BY <1>9, <1>12, EmptyFine
<1>15. Quiet
  BY <1>13, <1>14 DEF Quiet
<1>16. Views
  <2> SUFFICES ASSUME NEW t \in Threads
               PROVE View(pc[t], key[t], seq1[t], capacity[t], i[t], cur[t], res[t], SeqH, CapH, content)
    BY DEF Views
  <2>1. pc[t] = "idle" /\ seq1[t] = 0 /\ i[t] = 0
    BY <1>2
  <2>2. View("idle", key[t], 0, capacity[t], 0, cur[t], res[t], 0, CapH, content)
    BY ViewAnew
  <2> QED BY <1>9, <2>1, <2>2
<1> QED BY <1>6, <1>7, <1>11, <1>15, <1>16 DEF SeqInv

(* A step of a writer.                                                     *)
LEMMA WriterStep ==
  ASSUME OneHandle, SeqInv, NEW t \in Writers,
         \/ \E pair \in Pairs : Put(t, pair[1], pair[2])
         \/ \E k \in Keys : Remove(t, k)
         \/ Clear(t) \/ NoChange(t) \/ \E c \in Caps : Rehash(t, c)
         \/ SeqBegin(t) \/ StoreKey(t) \/ StoreOff(t) \/ BindLayout(t) \/ SeqEnd(t) \/ Unlock(t)
  PROVE SeqInv'
<1>1. t \in Threads
  BY DEF Threads
<1>2. CASE \E pair \in Pairs : Put(t, pair[1], pair[2])
  <2>1. PICK pair \in Pairs : Put(t, pair[1], pair[2])
    BY <1>2
  <2>2. pair[1] \in Keys /\ pair[2] \in Slots
    BY SeqKeys
  <2> QED BY <1>1, <2>1, <2>2, PutKeeps
<1>3. CASE (\E k \in Keys : Remove(t, k)) \/ Clear(t) \/ NoChange(t) \/ (\E c \in Caps : Rehash(t, c))
  BY <1>1, <1>3, OtherSectionsKeep
<1>4. CASE SeqBegin(t)
  BY <1>1, <1>4, SeqBeginKeeps
<1>5. CASE StoreKey(t)
  BY <1>1, <1>5, StoreKeyKeeps
<1>6. CASE StoreOff(t)
  BY <1>1, <1>6, StoreOffKeeps
<1>7. CASE BindLayout(t)
  BY <1>1, <1>7, BindLayoutKeeps
<1>8. CASE SeqEnd(t)
  BY <1>1, <1>8, SeqEndKeeps
<1>9. CASE Unlock(t)
  BY <1>1, <1>9, UnlockKeeps
<1> QED BY <1>2, <1>3, <1>4, <1>5, <1>6, <1>7, <1>8, <1>9

(* A step of a reader.                                                     *)
LEMMA ReaderStep ==
  ASSUME OneHandle, SeqInv, NEW t \in Readers,
         \/ \E k \in Keys : GetCall(t, k)
         \/ GetSeq(t) \/ GetCapacity(t) \/ GetOff(t) \/ GetKey(t) \/ GetEmpty(t)
         \/ GetCheck(t) \/ GetSlot(t)
         \/ IterCall(t) \/ IterBegin(t) \/ IterOff(t) \/ IterKey(t) \/ IterEmpty(t) \/ IterSeq(t)
  PROVE SeqInv'
<1>1. t \in Threads
  BY DEF Threads
<1>2. CASE \E k \in Keys : GetCall(t, k)
  BY <1>1, <1>2, GetCallKeeps
<1>3. CASE GetSeq(t) \/ GetCapacity(t) \/ GetOff(t)
  BY <1>1, <1>3, GetSeqKeeps, GetCapacityKeeps, GetOffKeeps
<1>4. CASE GetKey(t) \/ GetEmpty(t)
  BY <1>1, <1>4, GetKeyKeeps, GetEmptyKeeps
<1>5. CASE GetCheck(t) \/ GetSlot(t)
  BY <1>1, <1>5, GetCheckKeeps, GetSlotKeeps
<1>6. CASE IterCall(t) \/ IterBegin(t) \/ IterOff(t)
  BY <1>1, <1>6, IterCallKeeps, IterBeginKeeps, IterOffKeeps
<1>7. CASE IterKey(t) \/ IterEmpty(t) \/ IterSeq(t)
  BY <1>1, <1>7, IterKeyKeeps, IterEmptyKeeps, IterSeqKeeps
<1> QED BY <1>2, <1>3, <1>4, <1>5, <1>6, <1>7

(* A stuttering step.                                                      *)
LEMMA StutterKeeps ==
  ASSUME SeqInv, UNCHANGED vars
  PROVE SeqInv'
<1>1. UNCHANGED <<words, write_lock, index_seq, hash_capacity, payload, pc, todo, content>>
      /\ UNCHANGED <<key, seq1, capacity, i, cur, res>>
  BY DEF vars, memVars, readVars
<1>2. SeqH' = SeqH /\ CapH' = CapH /\ (NoneWrites' <=> NoneWrites)
  BY <1>1 DEF SeqH, CapH, NoneWrites
<1>3. MemTypes' /\ LocalTypes' /\ Held'
  BY <1>1 DEF SeqInv, MemTypes, LocalTypes, Held
<1>4. Parity' /\ Plans'
  BY <1>1, <1>2 DEF SeqInv, Parity, Plans
<1>5. Quiet' /\ Views'
  BY <1>1, <1>2 DEF SeqInv, Quiet, Table, Views
<1> QED BY <1>3, <1>4, <1>5 DEF SeqInv

(* The seqlock holds: one section at a time, index_seq odd exactly while   *)
(* it stores, the stores left in it turning the words of the mapping into  *)
(* a table whose every entry refers to a slot with the record of its key,  *)
(* and every reader that can still pass its check having seen the table of *)
(* the last complete section only.                                         *)
THEOREM SeqInvariant == ASSUME OneHandle PROVE Spec => []SeqInv
<1>1. Init => SeqInv
  BY InitKeeps
<1>2. SeqInv /\ [Next]_vars => SeqInv'
  <2> SUFFICES ASSUME SeqInv, [Next]_vars PROVE SeqInv'
    OBVIOUS
  <2>1. CASE Next
    BY <2>1, WriterStep, ReaderStep DEF Next
  <2>2. CASE UNCHANGED vars
    BY <2>2, StutterKeeps
  <2> QED BY <2>1, <2>2
<1> QED BY <1>1, <1>2, PTL DEF Spec

(* A lookup that ef_index_find_entry takes for stable has found what the   *)
(* table of the last complete section says of the key.                     *)
THEOREM LookupTheorem == ASSUME OneHandle PROVE Spec => []LookupTrue
<1>1. SeqInv => LookupTrue
  <2> SUFFICES ASSUME SeqInv, NEW t \in Threads, pc[t] = "get_check", Stable(t)
               PROVE res[t] = Find(content, key[t])
    BY DEF LookupTrue
  <2>1. seq1[t] = SeqH /\ seq1[t] % 2 = 0
    BY ReaderAt DEF Stable
  <2>2. Seen(pc[t], key[t], capacity[t], i[t], cur[t], res[t], CapH, content)
    BY <2>1, FreshTable
  <2> QED BY <2>2 DEF Seen
<1> QED BY <1>1, SeqInvariant, PTL

(* The slot that ef_index_get computes from the offset it has found and    *)
(* from the layout, while no section has begun since, contains the record  *)
(* of the key.                                                             *)
THEOREM GetTheorem == ASSUME OneHandle PROVE Spec => []GetTrue
<1>1. SeqInv => GetTrue
  <2> SUFFICES ASSUME SeqInv, NEW t \in Threads, pc[t] = "get_slot", SeqNow(t) = seq1[t]
               PROVE Result(t) \in Slots /\ payload[Result(t)] = key[t]
    BY DEF GetTrue
  <2>1. key[t] \in Keys /\ seq1[t] % 2 = 0 /\ seq1[t] = SeqH /\ CapNow(t) = CapH
        /\ CapH \in Nat /\ CapH # 0
    BY ReaderAt DEF Stands, GetLabels
  <2>2. /\ Seen(pc[t], key[t], capacity[t], i[t], cur[t], res[t], CapH, content)
        /\ content \in FineTable(CapH, payload) /\ DOMAIN content = 0..(CapH - 1)
    BY <2>1, FreshTable
  <2>3. res[t] = Find(content, key[t]) /\ res[t].off # 0
    BY <2>2 DEF Seen
  <2>4. Found(content, key[t]) /\ key[t] \in Nat
    BY <2>1, <2>3, SeqKeys DEF Found
  <2>5. /\ FindPos(content, key[t]) \in 0..(CapH - 1)
        /\ res[t] = content[FindPos(content, key[t])] /\ res[t].key = key[t]
    BY <2>1, <2>2, <2>3, <2>4, FoundEntry
  <2>6. res[t] \in FineEntry(CapH, payload)
    BY <2>2, <2>5 DEF FineTable
  <2>7. SlotId(CapH, res[t].off) \in Slots /\ payload[SlotId(CapH, res[t].off)] = res[t].key
    BY <2>3, <2>6 DEF FineEntry
  <2> QED BY <2>1, <2>5, <2>7 DEF Result
<1> QED BY <1>1, SeqInvariant, PTL

(* ef_index_iterate_until passes only whole entries of the table to its    *)
(* callback, when it began outside a section and read the capacity of the  *)
(* table that is there now.                                                *)
THEOREM IterTheorem == ASSUME OneHandle PROVE Spec => []IterTrue
<1>1. SeqInv => IterTrue
  <2> SUFFICES ASSUME SeqInv, NEW t \in Threads, Delivers(t), seq1[t] % 2 = 0,
                      capacity[t] = Capacity(content)
               PROVE cur[t] = content[i[t]]
    BY DEF IterTrue
  <2>1. pc[t] = "iter_seq" /\ seq1[t] = SeqH
    BY ReaderAt DEF Delivers
  <2>2. /\ Seen(pc[t], key[t], capacity[t], i[t], cur[t], res[t], CapH, content)
        /\ Capacity(content) = CapH
    BY <2>1, FreshTable
  <2> QED BY <2>1, <2>2 DEF Seen
<1> QED BY <1>1, SeqInvariant, PTL

-----------------------------------------------------------------------------
(* What the stores of a section add up to.                                 *)

(* The stores q leave the word e at p where the word w is before them.     *)
Makes(q, p, w, e) ==
  \/ \E j \in 1..Len(q) :
       q[j].at = p /\ q[j].entry = e /\ \A m \in 1..Len(q) : m > j => q[m].at # p
  \/ e = w /\ \A j \in 1..Len(q) : q[j].at # p

(* They turn the words W into the table V of capacity c.                   *)
MakesTable(q, W, c, V) == \A p \in 0..(c - 1) : Makes(q, p, W[p], V[p])

(* The capacity, as the entry that Bind stores at -1.                      *)
Layout(c) == [key |-> 0, off |-> c]

(* They turn the words W of a mapping with capacity c into a Robin Hood    *)
(* table, of the same or of another capacity.                              *)
Whole(q, W, c) ==
  \E d \in Caps : \E V \in Tables(d, Nat) :
    /\ Makes(q, -1, Layout(c), Layout(d))
    /\ MakesTable(q, W, d, V) /\ Sound(d, V)

(* No stores.                                                              *)
LEMMA MakesNothing ==
  ASSUME NEW p, NEW w, NEW e
  PROVE Makes(<<>>, p, w, e) <=> e = w
<1>1. Len(<<>>) = 0
  OBVIOUS
<1> QED BY <1>1 DEF Makes

(* One store more at the end.                                              *)
LEMMA MakesAppend ==
  ASSUME NEW S, NEW q \in Seq(S), NEW x \in S, NEW p, NEW w, NEW e, Makes(q, p, w, e)
  PROVE Makes(Append(q, x), p, w, IF x.at = p THEN x.entry ELSE e)
<1> DEFINE r == Append(q, x)
           n == Len(q)
<1>1. n \in Nat /\ Len(r) = n + 1 /\ r[n + 1] = x /\ \A j \in 1..n : r[j] = q[j]
  OBVIOUS
<1> HIDE DEF r
<1>2. CASE x.at = p
  BY <1>1, <1>2 DEF Makes
<1>3. CASE x.at # p
  <2>1. \A m \in 1..(n + 1) : m \in 1..n \/ m = n + 1
    BY <1>1
  <2>2. 1..n \subseteq 1..(n + 1)
    BY <1>1
  <2> QED BY <1>1, <1>3, <2>1, <2>2 DEF Makes
<1> QED BY <1>2, <1>3 DEF r

(* One sequence of stores after the other.                                 *)
LEMMA MakesConcat ==
  ASSUME NEW S, NEW q \in Seq(S), NEW r \in Seq(S), NEW p, NEW w, NEW u, NEW e,
         Makes(q, p, w, u), Makes(r, p, u, e)
  PROVE Makes(q \o r, p, w, e)
<1> DEFINE z == q \o r
           n == Len(q)
           l == Len(r)
<1>1. /\ n \in Nat /\ l \in Nat /\ Len(z) = n + l
      /\ \A j \in 1..n : z[j] = q[j]
      /\ \A j \in 1..l : z[n + j] = r[j]
  OBVIOUS
<1> HIDE DEF z
<1>2. \A m \in 1..(n + l) : m \in 1..n \/ (m - n \in 1..l /\ z[m] = r[m - n])
  <2> TAKE m \in 1..(n + l)
  <2>1. CASE m > n
    <3>1. m - n \in 1..l /\ n + (m - n) = m
      BY <1>1, <2>1
    <3> QED BY <1>1, <3>1
  <2>2. CASE m <= n
    BY <1>1, <2>2
  <2> QED BY <1>1, <2>1, <2>2
<1>3. \A j \in 1..n : j \in 1..(n + l)
  BY <1>1
<1>4. \A j \in 1..l : n + j \in 1..(n + l)
  BY <1>1
<1>5. CASE \E j \in 1..l : r[j].at = p /\ r[j].entry = e /\ \A m \in 1..l : m > j => r[m].at # p
  <2>1. PICK j \in 1..l : r[j].at = p /\ r[j].entry = e /\ \A m \in 1..l : m > j => r[m].at # p
    BY <1>5
  <2>2. ASSUME NEW m \in 1..(n + l), m > n + j PROVE z[m].at # p
    <3>1. m - n \in 1..l /\ z[m] = r[m - n] /\ m - n > j
      BY <1>1, <1>2, <2>2
    <3> QED BY <2>1, <3>1
  <2>3. n + j \in 1..Len(z) /\ z[n + j].at = p /\ z[n + j].entry = e
    BY <1>1, <1>4, <2>1
  <2> QED BY <1>1, <2>2, <2>3 DEF Makes, z
<1>6. CASE e = u /\ \A j \in 1..l : r[j].at # p
  <2>1. CASE \E j \in 1..n : q[j].at = p /\ q[j].entry = u /\ \A m \in 1..n : m > j => q[m].at # p
    <3>1. PICK j \in 1..n : q[j].at = p /\ q[j].entry = u /\ \A m \in 1..n : m > j => q[m].at # p
      BY <2>1
    <3>2. ASSUME NEW m \in 1..(n + l), m > j PROVE z[m].at # p
      BY <1>1, <1>2, <1>6, <3>1, <3>2
    <3>3. j \in 1..Len(z) /\ z[j].at = p /\ z[j].entry = e
      BY <1>1, <1>3, <1>6, <3>1
    <3> QED BY <1>1, <3>2, <3>3 DEF Makes, z
  <2>2. CASE u = w /\ \A j \in 1..n : q[j].at # p
    <3>1. \A m \in 1..(n + l) : z[m].at # p
      BY <1>1, <1>2, <1>6, <2>2
    <3> QED BY <1>1, <1>6, <2>2, <3>1 DEF Makes, z
  <2> QED BY <2>1, <2>2 DEF Makes
<1> QED BY <1>5, <1>6 DEF Makes

(* The first store has been made.                                          *)
LEMMA MakesTail ==
  ASSUME NEW S, NEW q \in Seq(S), q # <<>>, NEW p, NEW w, NEW e, Makes(q, p, w, e)
  PROVE Makes(Tail(q), p, IF Head(q).at = p THEN Head(q).entry ELSE w, e)
<1> DEFINE r == Tail(q)
           n == Len(q)
<1>1. /\ n \in Nat /\ n >= 1 /\ Len(r) = n - 1 /\ Head(q) = q[1]
      /\ \A j \in 1..(n - 1) : r[j] = q[j + 1]
  OBVIOUS
<1> HIDE DEF r
<1>2. \A m \in 1..n : m = 1 \/ (m - 1 \in 1..(n - 1) /\ r[m - 1] = q[m])
  <2> TAKE m \in 1..n
  <2>1. m # 1 => m - 1 \in 1..(n - 1) /\ (m - 1) + 1 = m
    BY <1>1
  <2> QED BY <1>1, <2>1
<1>3. \A m \in 1..(n - 1) : m + 1 \in 1..n /\ r[m] = q[m + 1]
  BY <1>1
<1>4. CASE \E j \in 1..n : q[j].at = p /\ q[j].entry = e /\ \A m \in 1..n : m > j => q[m].at # p
  <2>1. PICK j \in 1..n : q[j].at = p /\ q[j].entry = e /\ \A m \in 1..n : m > j => q[m].at # p
    BY <1>4
  <2>2. CASE j = 1
    <3>1. ASSUME NEW m \in 1..(n - 1) PROVE r[m].at # p
      <4>1. m + 1 \in 1..n /\ r[m] = q[m + 1] /\ m + 1 > 1
        BY <1>3
      <4> QED BY <2>1, <2>2, <4>1
    <3> QED BY <1>1, <2>1, <2>2, <3>1 DEF Makes, r
  <2>3. CASE j # 1
    <3>1. j - 1 \in 1..(n - 1) /\ r[j - 1] = q[j]
      BY <1>2, <2>3
    <3>2. ASSUME NEW m \in 1..(n - 1), m > j - 1 PROVE r[m].at # p
      <4>1. m + 1 \in 1..n /\ r[m] = q[m + 1] /\ m + 1 > j
        BY <1>3, <3>2
      <4> QED BY <2>1, <4>1
    <3> QED BY <1>1, <2>1, <3>1, <3>2 DEF Makes, r
  <2> QED BY <2>2, <2>3
<1>5. CASE e = w /\ \A j \in 1..n : q[j].at # p
  <2>1. q[1].at # p /\ \A m \in 1..(n - 1) : r[m].at # p
    BY <1>1, <1>3, <1>5
  <2> QED BY <1>1, <1>5, <2>1 DEF Makes, r
<1> QED BY <1>4, <1>5 DEF Makes

(* The word that is stored to does not matter.                             *)
LEMMA MakesHead ==
  ASSUME NEW S, NEW q \in Seq(S), q # <<>>, NEW w, NEW v, NEW e, Makes(q, Head(q).at, w, e)
  PROVE Makes(q, Head(q).at, v, e)
<1>1. Len(q) \in Nat /\ 1 \in 1..Len(q) /\ Head(q) = q[1]
  OBVIOUS
<1>2. ~(\A j \in 1..Len(q) : q[j].at # Head(q).at)
  BY <1>1
<1> QED BY <1>2 DEF Makes

(* A turn of ef_index_put_entry stores to one position at most.            *)
LEMMA PutStepOne ==
  ASSUME NEW c \in Nat, c # 0, NEW pay, NEW st \in PutState(c, pay), NEW k, NEW s, NEW n \in Int,
         NEW p \in 0..(c - 1), p # n % c
  PROVE PutStep(k, s, st, n).table[p] = st.table[p]
<1> DEFINE pos == n % c
           old == st.table[pos]
<1>1. st.table \in FineTable(c, pay)
  BY DEF PutState
<1>2. Capacity(st.table) = c /\ DOMAIN st.table = 0..(c - 1)
  BY <1>1, CapacityIs DEF FineTable
<1> DEFINE r1 == [st EXCEPT !.err = "INDEX_FULL"]
           r2 == [st EXCEPT !.table[pos] = st.incoming, !.added = TRUE, !.err = "OK"]
           r3 == [st EXCEPT !.table[pos] = [key |-> k, off |-> s], !.err = "OK"]
           r4 == [st EXCEPT !.table[pos] = st.incoming, !.incoming = old, !.home = Home(c, old.key)]
<1>3. PutStep(k, s, st, n) \in {st, r1, r2, r3, r4}
  BY <1>2 DEF PutStep
<1> HIDE DEF pos, old
<1>4. p # pos
  BY DEF pos
<1>5. \A e : [st.table EXCEPT ![pos] = e][p] = st.table[p]
  BY <1>2, <1>4
<1>6. r1.table = st.table
  BY DEF PutState
<1>7. r2.table = [st.table EXCEPT ![pos] = st.incoming]
  BY DEF PutState
<1>8. r3.table = [st.table EXCEPT ![pos] = [key |-> k, off |-> s]]
  BY DEF PutState
<1>9. r4.table = [st.table EXCEPT ![pos] = st.incoming]
  BY DEF PutState
<1> HIDE DEF r1, r2, r3, r4
<1> QED BY <1>3, <1>5, <1>6, <1>7, <1>8, <1>9

(* What its stores make of the table is the table it goes on with.         *)
LEMMA PutTurnMakes ==
  ASSUME NEW c \in Nat, c # 0, NEW pay,
         NEW k, NEW off, [key |-> k, off |-> off] \in FineEntry(c, pay),
         NEW x \in FineTurn(c, pay), NEW n \in Int, NEW T, MakesTable(x.stores, T, c, x.st.table)
  PROVE /\ PutTurn(k, off, x, n).st = PutStep(k, off, x.st, n)
        /\ MakesTable(PutTurn(k, off, x, n).stores, T, c, PutTurn(k, off, x, n).st.table)
<1> DEFINE after == PutStep(k, off, x.st, n)
           pos == n % c
           new == Store(pos, after.table[pos])
           y == PutTurn(k, off, x, n)
<1>1. x.st \in PutState(c, pay) /\ x.stores \in Seq(FineStore(c, pay))
  BY DEF FineTurn
<1>2. Capacity(x.st.table) = c
  BY <1>1, CapacityIs DEF PutState, FineTable
<1>3. pos \in 0..(c - 1)
  BY PosBelow
<1>4. after \in PutState(c, pay)
  BY <1>1, PutStepFine
<1>5. y = [st |-> after,
           stores |-> IF after.table[pos] = x.st.table[pos] THEN x.stores ELSE Append(x.stores, new)]
  BY <1>2 DEF PutTurn
<1>6. \A p \in 0..(c - 1) : p # pos => after.table[p] = x.st.table[p]
  BY <1>1, PutStepOne
<1> HIDE DEF after, pos, y
<1>7. y.st = after
  BY <1>5
<1>8. new \in FineStore(c, pay) /\ new.at = pos /\ new.entry = after.table[pos]
  BY <1>3, <1>4 DEF Store, FineStore, PutState, FineTable
<1> HIDE DEF new
<1>9. ASSUME NEW p \in 0..(c - 1) PROVE Makes(y.stores, p, T[p], after.table[p])
  <2>1. Makes(x.stores, p, T[p], x.st.table[p])
    BY DEF MakesTable
  <2>2. CASE after.table[pos] = x.st.table[pos]
    <3>1. y.stores = x.stores /\ after.table[p] = x.st.table[p]
      BY <1>5, <1>6, <2>2
    <3> QED BY <2>1, <3>1
  <2>3. CASE after.table[pos] # x.st.table[pos]
    <3>1. y.stores = Append(x.stores, new)
      BY <1>5, <2>3
    <3>2. Makes(Append(x.stores, new), p, T[p], IF new.at = p THEN new.entry ELSE x.st.table[p])
      BY <1>1, <1>8, <2>1, MakesAppend
    <3>3. (IF new.at = p THEN new.entry ELSE x.st.table[p]) = after.table[p]
      BY <1>6, <1>8
    <3> QED BY <3>1, <3>2, <3>3
  <2> QED BY <2>2, <2>3
<1> QED BY <1>7, <1>9 DEF MakesTable, y, after

(* The stores of ef_index_put_entry make the table that it leaves.         *)
LEMMA PutStoresMake ==
  ASSUME NEW c \in Nat, c # 0, NEW pay, NEW T \in FineTable(c, pay),
         NEW k, NEW off, [key |-> k, off |-> off] \in FineEntry(c, pay)
  PROVE MakesTable(PutStores(T, k, off), T, c, PutEntry(T, k, off).table)
<1> DEFINE f == CHOOSE g : IsTurns(g, T, k, off, 2 * c)
           h == CHOOSE g : IsPut(g, T, k, off, 2 * c)
           S == {m \in 0..(2 * c) : /\ f[m] \in FineTurn(c, pay) /\ f[m].st = h[m]
                                    /\ MakesTable(f[m].stores, T, c, f[m].st.table)}
<1>1. Capacity(T) = c
  BY CapacityIs DEF FineTable
<1>2. PutStores(T, k, off) = f[2 * c].stores /\ PutEntry(T, k, off) = h[2 * c]
  <2>1. PutStores(T, k, off) = f[2 * c].stores
    BY <1>1 DEF PutStores, IsTurns, PutFirst
  <2>2. PutEntry(T, k, off) = h[2 * c]
    BY <1>1 DEF PutEntry, IsPut
  <2> QED BY <2>1, <2>2
<1>3. 2 * c \in Nat
  OBVIOUS
<1>4. IsTurns(f, T, k, off, 2 * c)
  BY <1>3, TurnsExist
<1>5. IsPut(h, T, k, off, 2 * c)
  BY <1>3, PutExists
<1> HIDE DEF f, h
<1>6. k \in Nat
  <2>1. [key |-> k, off |-> off] \in [key : Nat, off : Nat]
    BY DEF FineEntry
  <2> QED BY <2>1
<1>7. 0 \in S
  <2>1. PutFirst(T, k, off) \in FineTurn(c, pay)
    BY PutStartFine DEF PutFirst, FineTurn
  <2>2. f[0] = PutFirst(T, k, off) /\ h[0] = PutStart(T, k, off)
    BY <1>4, <1>5 DEF IsTurns, IsPut
  <2>3. f[0].st = h[0] /\ f[0].stores = <<>> /\ f[0].st.table = T
    BY <2>2 DEF PutFirst, PutStart
  <2>4. MakesTable(<<>>, T, c, T)
    BY MakesNothing DEF MakesTable
  <2> QED BY <2>1, <2>2, <2>3, <2>4
<1>8. ASSUME NEW m \in 1..(2 * c), m - 1 \in S PROVE m \in S
  <2> DEFINE n == Home(c, k) + m - 1
             x == f[m - 1]
  <2>1. f[m] = PutTurn(k, off, x, n) /\ h[m] = PutStep(k, off, h[m - 1], n)
    BY <1>1, <1>4, <1>5 DEF IsTurns, IsPut
  <2>2. n \in Int
    BY <1>6 DEF Home
  <2> HIDE DEF n
  <2>3. x \in FineTurn(c, pay) /\ x.st = h[m - 1] /\ MakesTable(x.stores, T, c, x.st.table)
    BY <1>8
  <2> HIDE DEF x
  <2>4. f[m] \in FineTurn(c, pay)
    BY <2>1, <2>2, <2>3, PutTurnFine
  <2>5. f[m].st = h[m] /\ MakesTable(f[m].stores, T, c, f[m].st.table)
    BY <2>1, <2>2, <2>3, PutTurnMakes
  <2> QED BY <2>4, <2>5
<1> HIDE DEF S
<1>9. 2 * c \in S
  BY <1>3, <1>7, <1>8, BoundedInduction
<1> QED BY <1>2, <1>9 DEF S

(* Hence they make a Robin Hood table of one.                              *)
LEMMA PutMakes ==
  ASSUME NEW c \in Nat, c # 0, NEW pay, NEW T \in FineTable(c, pay), Sound(c, T),
         NEW k, NEW off, off # 0, [key |-> k, off |-> off] \in FineEntry(c, pay)
  PROVE LET V == PutEntry(T, k, off).table IN
        /\ V \in FineTable(c, pay) /\ Sound(c, V)
        /\ MakesTable(PutStores(T, k, off), T, c, V)
<1>1. T \in Tables(c, Nat)
  BY FineIsTable
<1>2. k \in Nat /\ Cell(k, off) \in Cells(Nat)
  <2>1. [key |-> k, off |-> off] \in [key : Nat, off : Nat]
    BY DEF FineEntry
  <2> QED BY <2>1 DEF Cell, Cells
<1>3. PutDone(c, T, k, off, PutEntry(T, k, off))
  BY <1>1, <1>2, PutEntryGood
<1>4. Sound(c, PutEntry(T, k, off).table)
  BY <1>3 DEF PutDone, PutAdded, PutReplaced, PutFull
<1>5. PutEntry(T, k, off).table \in FineTable(c, pay)
  BY PutEntryFine DEF PutState
<1> QED BY <1>4, <1>5, PutStoresMake

(* What the stores of a turn of the back shift make of the table is the    *)
(* table it goes on with.                                                  *)
LEMMA ShiftTurnMakes ==
  ASSUME NEW c \in Nat, c # 0, NEW pay, NEW x \in FineShiftTurn(c, pay),
         NEW T, MakesTable(x.stores, T, c, x.st.table)
  PROVE MakesTable(ShiftTurn(x).stores, T, c, ShiftTurn(x).st.table)
<1> DEFINE y == ShiftTurn(x)
           q == x.st.hole
           new == Store(q, y.st.table[q])
<1>1. \/ y.st.table = x.st.table /\ y.stores = x.stores
      \/ /\ y.stores = Append(x.stores, Store(q, y.st.table[q]))
         /\ q \in 0..(c - 1) /\ y.st.table[q] \in FineEntry(c, pay)
         /\ \A p \in 0..(c - 1) : p # q => y.st.table[p] = x.st.table[p]
  BY ShiftTurnIs
<1>2. x.stores \in Seq(FineStore(c, pay))
  BY DEF FineShiftTurn
<1> HIDE DEF y
<1>3. CASE y.st.table = x.st.table /\ y.stores = x.stores
  BY <1>3 DEF y
<1>4. CASE /\ y.stores = Append(x.stores, Store(q, y.st.table[q]))
           /\ q \in 0..(c - 1) /\ y.st.table[q] \in FineEntry(c, pay)
           /\ \A p \in 0..(c - 1) : p # q => y.st.table[p] = x.st.table[p]
  <2>1. new \in FineStore(c, pay) /\ new.at = q /\ new.entry = y.st.table[q]
    BY <1>4 DEF Store, FineStore
  <2>2. y.stores = Append(x.stores, new)
    BY <1>4
  <2> HIDE DEF new
  <2>3. ASSUME NEW p \in 0..(c - 1) PROVE Makes(y.stores, p, T[p], y.st.table[p])
    <3>1. Makes(x.stores, p, T[p], x.st.table[p])
      BY DEF MakesTable
    <3>2. Makes(Append(x.stores, new), p, T[p], IF new.at = p THEN new.entry ELSE x.st.table[p])
      BY <1>2, <2>1, <3>1, MakesAppend
    <3>3. (IF new.at = p THEN new.entry ELSE x.st.table[p]) = y.st.table[p]
      BY <1>4, <2>1
    <3> QED BY <2>2, <3>2, <3>3
  <2> QED BY <2>3 DEF MakesTable, y
<1> QED BY <1>1, <1>3, <1>4

(* The stores of ef_index_remove_by_hash make the table without the key.   *)
LEMMA RemoveMakes ==
  ASSUME NEW c \in Nat, c # 0, NEW pay, NEW T \in FineTable(c, pay), Sound(c, T), NEW k \in Nat,
         Found(T, k)
  PROVE \E V \in Tables(c, Nat) : Sound(c, V) /\ MakesTable(RemoveStores(T, k), T, c, V)
<1> DEFINE p == FindPos(T, k)
           N == c * c
           V == BackShift(T, p)
           f == CHOOSE g : IsShiftTurns(g, T, p, c * c)
           h == CHOOSE g : IsShift(g, T, p, c * c)
           S == {m \in 0..N : /\ f[m] \in FineShiftTurn(c, pay) /\ f[m].st = h[m]
                              /\ MakesTable(f[m].stores, T, c, f[m].st.table)}
<1>1. Capacity(T) = c /\ DOMAIN T = 0..(c - 1) /\ T \in Tables(c, Nat)
  BY CapacityIs, FineIsTable DEF FineTable
<1>2. p \in 0..(c - 1) /\ Find(T, k) = T[p]
  BY <1>1, FoundEntry
<1>3. Occ(T, p)
  BY <1>2 DEF Found, Occ
<1>4. V \in Tables(c, Nat) /\ Sound(c, V)
  BY <1>1, <1>2, <1>3, BackShiftGood
<1>5. RemoveStores(T, k) = f[c * c].stores
  BY <1>1 DEF RemoveStores, ShiftStores, IsShiftTurns, ShiftFirst
<1>6. V = h[c * c].table
  BY <1>1 DEF BackShift, IsShift
<1>7. N \in Nat
  OBVIOUS
<1>8. IsShiftTurns(f, T, p, c * c) /\ IsShift(h, T, p, c * c)
  BY <1>7, ShiftTurnsExist, ShiftExists
<1>9. /\ f[N].stores = RemoveStores(T, k) /\ h[N].table = V
      /\ IsShiftTurns(f, T, p, N) /\ IsShift(h, T, p, N)
  BY <1>5, <1>6, <1>8
<1> HIDE DEF f, h, p, N, V
<1>10. 0 \in S
  <2>1. ShiftStart(T, p) \in FineShift(c, pay)
    BY <1>2 DEF ShiftStart, FineShift
  <2>2. ShiftFirst(T, p) \in FineShiftTurn(c, pay)
    BY <2>1 DEF ShiftFirst, FineShiftTurn
  <2>3. f[0] = ShiftFirst(T, p) /\ h[0] = ShiftStart(T, p)
    BY <1>7, <1>9 DEF IsShiftTurns, IsShift
  <2>4. f[0].st = h[0] /\ f[0].stores = <<>> /\ f[0].st.table = T
    BY <2>3 DEF ShiftFirst, ShiftStart
  <2>5. MakesTable(<<>>, T, c, T)
    BY MakesNothing DEF MakesTable
  <2>6. 0 \in 0..N
    BY <1>7
  <2> QED BY <2>2, <2>3, <2>4, <2>5, <2>6
<1>11. ASSUME NEW m \in 1..N, m - 1 \in S PROVE m \in S
  <2> DEFINE x == f[m - 1]
  <2>1. f[m] = ShiftTurn(x) /\ h[m] = ShiftStep(h[m - 1])
    BY <1>7, <1>9 DEF IsShiftTurns, IsShift
  <2>2. x \in FineShiftTurn(c, pay) /\ x.st = h[m - 1] /\ MakesTable(x.stores, T, c, x.st.table)
    BY <1>11
  <2> HIDE DEF x
  <2>3. f[m] \in FineShiftTurn(c, pay) /\ f[m].st = ShiftStep(x.st)
    BY <2>1, <2>2, ShiftTurnIs
  <2>4. MakesTable(f[m].stores, T, c, f[m].st.table)
    BY <2>1, <2>2, ShiftTurnMakes
  <2>5. m \in 0..N
    BY <1>7
  <2> QED BY <2>1, <2>2, <2>3, <2>4, <2>5
<1> HIDE DEF S
<1>12. N \in S
  BY <1>7, <1>10, <1>11, BoundedInduction
<1>13. f[N].st = h[N] /\ MakesTable(f[N].stores, T, c, f[N].st.table)
  BY <1>12 DEF S
<1>14. MakesTable(RemoveStores(T, k), T, c, V)
  BY <1>9, <1>13
<1> QED BY <1>4, <1>14

(* ef_index_clear makes an empty table of any words.                       *)
LEMMA ClearMakes ==
  ASSUME NEW c \in Nat, c # 0, NEW W
  PROVE MakesTable(ClearStores(c), W, c, EmptyTable(c))
<1> DEFINE q == ClearStores(c)
<1>1. Len(q) = c /\ \A j \in 1..c : q[j].at = j - 1 /\ q[j].entry = Empty
  BY DEF ClearStores, Store
<1> HIDE DEF q
<1>2. ASSUME NEW p \in 0..(c - 1) PROVE Makes(q, p, W[p], Empty)
  <2>1. p + 1 \in 1..c /\ q[p + 1].at = p /\ q[p + 1].entry = Empty
    BY <1>1
  <2>2. \A m \in 1..c : m > p + 1 => q[m].at # p
    BY <1>1
  <2> QED BY <1>1, <2>1, <2>2 DEF Makes
<1>3. \A p \in 0..(c - 1) : EmptyTable(c)[p] = Empty
  BY DEF EmptyTable
<1> QED BY <1>2, <1>3 DEF MakesTable, q

(* A turn of the loop that refills the table.                              *)
RefillMakes(c, r) == Sound(c, r.table) /\ MakesTable(r.stores, EmptyTable(c), c, r.table)

LEMMA RefillTurnMakes ==
  ASSUME NEW c \in Nat, c # 0, NEW pay, NEW r \in FineRefill(c, pay), RefillMakes(c, r),
         NEW e \in FineEntry(c, pay), e.off # 0
  PROVE RefillMakes(c, RefillTurn(r, e))
<1> DEFINE put == PutEntry(r.table, e.key, e.off)
           more == PutStores(r.table, e.key, e.off)
           V == put.table
<1>1. r.table \in FineTable(c, pay) /\ r.stores \in Seq(FineStore(c, pay))
  BY DEF FineRefill
<1>2. e = [key |-> e.key, off |-> e.off]
  BY DEF FineEntry
<1>3. Sound(c, V) /\ MakesTable(more, r.table, c, V)
  BY <1>1, <1>2, PutMakes DEF RefillMakes
<1>4. more \in Seq(FineStore(c, pay))
  BY <1>1, <1>2, PutStoresFine
<1>5. RefillTurn(r, e) = IF r.err # "OK" THEN r
                         ELSE [table |-> V, err |-> put.err, stores |-> r.stores \o more]
  BY DEF RefillTurn
<1> HIDE DEF put, more, V
<1>6. \A p \in 0..(c - 1) : Makes(r.stores \o more, p, EmptyTable(c)[p], V[p])
  BY <1>1, <1>3, <1>4, MakesConcat DEF RefillMakes, MakesTable
<1> QED BY <1>3, <1>5, <1>6 DEF RefillMakes, MakesTable

(* The whole loop, up to the first entry that does not fit.                *)
LEMMA RefillStoresMake ==
  ASSUME NEW c \in Nat, c # 0, NEW pay, NEW n \in Nat, NEW entries,
         \A m \in 1..n : entries[m] \in FineEntry(c, pay) /\ entries[m].off # 0,
         NEW f, IsRefill(f, entries, c, n)
  PROVE f[n] \in FineRefill(c, pay) /\ RefillMakes(c, f[n])
<1> DEFINE S == {m \in 0..n : f[m] \in FineRefill(c, pay) /\ RefillMakes(c, f[m])}
<1>1. 0 \in S
  <2>1. RefillFirst(c) \in FineRefill(c, pay)
    BY EmptyTableFine DEF RefillFirst, FineRefill
  <2>2. f[0] = RefillFirst(c)
    BY DEF IsRefill
  <2>3. Sound(c, EmptyTable(c))
    BY EmptyTableGood
  <2>4. MakesTable(<<>>, EmptyTable(c), c, EmptyTable(c))
    BY MakesNothing DEF MakesTable
  <2> QED BY <2>1, <2>2, <2>3, <2>4 DEF RefillMakes, RefillFirst
<1>2. ASSUME NEW m \in 1..n, m - 1 \in S PROVE m \in S
  <2>1. f[m] = RefillTurn(f[m - 1], entries[m])
    BY DEF IsRefill
  <2>2. f[m] \in FineRefill(c, pay)
    BY <1>2, <2>1, RefillTurnFine
  <2>3. RefillMakes(c, f[m])
    BY <1>2, <2>1, RefillTurnMakes
  <2> QED BY <2>2, <2>3
<1> HIDE DEF S
<1>3. n \in S
  BY <1>1, <1>2, BoundedInduction
<1> QED BY <1>3 DEF S

(* Stores to the table of capacity c leave the capacity alone.             *)
LEMMA FineKeepsLayout ==
  ASSUME NEW c \in Nat, NEW pay, NEW q \in Seq(FineStore(c, pay)), NEW w
  PROVE Makes(q, -1, w, w)
<1>1. ASSUME NEW j \in 1..Len(q) PROVE q[j].at # -1
  <2>1. q[j] \in FineStore(c, pay)
    OBVIOUS
  <2>2. q[j].at \in 0..(c - 1)
    BY <2>1, FineWords
  <2> QED BY <2>2
<1> QED BY <1>1 DEF Makes

(* A plan that stays in the layout.                                        *)
LEMMA WholeStays ==
  ASSUME NEW c \in Caps, NEW pay, NEW q \in Seq(FineStore(c, pay)), NEW W,
         NEW T, \A p \in 0..(c - 1) : T[p] = W[p],
         NEW V \in Tables(c, Nat), Sound(c, V), MakesTable(q, T, c, V)
  PROVE Whole(q, W, c)
<1>1. c \in Nat
  BY LargestCap
<1>2. Makes(q, -1, Layout(c), Layout(c))
  BY <1>1, FineKeepsLayout
<1>3. MakesTable(q, W, c, V)
  BY DEF MakesTable
<1> QED BY <1>2, <1>3 DEF Whole

(* The plan of a rehash.                                                   *)
LEMMA RehashWhole ==
  ASSUME NEW c \in Caps, NEW d \in Caps, NEW pay, NEW T \in FineTable(c, pay), NEW W
  PROVE Whole(RehashStores(T, d), W, c)
<1> DEFINE entries == Fixup(T, d)
           n == c - d
           moved == [j \in 1..n |-> Store(d + j - 1, SlotBytes)]
           f == CHOOSE g : IsRefill(g, entries, d, Len(entries))
           r == f[Len(entries)]
           A == Append(moved, Bind(d))
           B == ClearStores(d)
           C == r.stores
           V == r.table
<1>1. c \in Nat /\ c # 0 /\ d \in Nat /\ d # 0
  BY LargestCap
<1>2. Capacity(T) = c
  BY <1>1, CapacityIs DEF FineTable
<1>3. Len(entries) = Entries(T) /\ Entries(T) \in Nat
      /\ \A m \in 1..Entries(T) : entries[m] \in FineEntry(d, pay) /\ entries[m].off # 0
  BY <1>1, FixupFine
<1>4. RehashStores(T, d) = moved \o <<Bind(d)>> \o B \o C
  BY <1>2 DEF RehashStores, IsRefill, RefillFirst
<1>5. IsRefill(f, entries, d, Len(entries))
  BY <1>3, RefillExists
<1> HIDE DEF entries, f
<1>6. r \in FineRefill(d, pay) /\ RefillMakes(d, r)
  BY <1>1, <1>3, <1>5, RefillStoresMake
<1> HIDE DEF r
<1>7. C \in Seq(FineStore(d, pay)) /\ V \in FineTable(d, pay) /\ Sound(d, V)
      /\ MakesTable(C, EmptyTable(d), d, V)
  BY <1>6 DEF FineRefill, RefillMakes
<1>8. V \in Tables(d, Nat)
  BY <1>1, <1>7, FineIsTable
<1>9. B \in Seq(FineStore(d, pay)) /\ MakesTable(B, W, d, EmptyTable(d))
  BY <1>1, ClearStoresFine, ClearMakes
<1> HIDE DEF B, C, V
<1>10. FineStore(d, pay) \subseteq AnyStore
  BY <1>1, FineWords
<1>11. B \in Seq(AnyStore) /\ C \in Seq(AnyStore)
  BY <1>7, <1>9, <1>10
<1>12. moved \in Seq(AnyStore) /\ \A j \in 1..Len(moved) : moved[j].at >= d /\ moved[j].at \in Int
  <2>1. ASSUME NEW j \in 1..n PROVE Store(d + j - 1, SlotBytes) \in AnyStore
    BY <1>1 DEF Store, SlotBytes, AnyStore, Word
  <2>2. moved \in [1..n -> AnyStore]
    BY <2>1
  <2>3. \A j \in 1..n : moved[j].at >= d /\ moved[j].at \in Int
    BY <1>1 DEF Store
  <2> DEFINE a == IF n < 0 THEN 0 ELSE n
  <2>4. 1..n = 1..a /\ a \in Nat
    BY <1>1
  <2> HIDE DEF moved, a
  <2> QED BY <2>2, <2>3, <2>4, LenOfFunction
<1> HIDE DEF moved
<1>13. Bind(d) \in AnyStore /\ Bind(d).at = -1 /\ Bind(d).entry = Layout(d)
  BY <1>1 DEF Bind, AnyStore, Word, Layout
<1>14. A \in Seq(AnyStore) /\ moved \o <<Bind(d)>> = A
  BY <1>12, <1>13
<1>15. ASSUME NEW p \in 0..(d - 1) PROVE Makes(A, p, W[p], W[p])
  <2>1. \A j \in 1..Len(moved) : moved[j].at # p
    BY <1>1, <1>12
  <2>2. Makes(moved, p, W[p], W[p]) /\ p # -1
    BY <2>1 DEF Makes
  <2>3. Makes(A, p, W[p], IF Bind(d).at = p THEN Bind(d).entry ELSE W[p])
    BY <1>12, <1>13, <2>2, MakesAppend
  <2> QED BY <1>13, <2>2, <2>3
<1>16. Makes(A, -1, Layout(c), Layout(d))
  <2>1. \A j \in 1..Len(moved) : moved[j].at # -1
    BY <1>1, <1>12
  <2>2. Makes(moved, -1, Layout(c), Layout(c))
    BY <2>1 DEF Makes
  <2>3. Makes(A, -1, Layout(c), IF Bind(d).at = -1 THEN Bind(d).entry ELSE Layout(c))
    BY <1>12, <1>13, <2>2, MakesAppend
  <2> QED BY <1>13, <2>3
<1> HIDE DEF A
<1> DEFINE AB == A \o B
<1>17. AB \in Seq(AnyStore)
  BY <1>11, <1>14
<1>18. Makes(AB, -1, Layout(c), Layout(d))
  <2>1. Makes(B, -1, Layout(d), Layout(d))
    BY <1>1, <1>9, FineKeepsLayout
  <2> QED BY <1>11, <1>14, <1>16, <2>1, MakesConcat
<1>19. ASSUME NEW p \in 0..(d - 1) PROVE Makes(AB, p, W[p], EmptyTable(d)[p])
  <2>1. Makes(B, p, W[p], EmptyTable(d)[p])
    BY <1>9 DEF MakesTable
  <2> QED BY <1>11, <1>14, <1>15, <2>1, MakesConcat
<1> HIDE DEF AB
<1>20. Makes(AB \o C, -1, Layout(c), Layout(d))
  <2>1. Makes(C, -1, Layout(d), Layout(d))
    BY <1>1, <1>7, FineKeepsLayout
  <2> QED BY <1>11, <1>17, <1>18, <2>1, MakesConcat
<1>21. ASSUME NEW p \in 0..(d - 1) PROVE Makes(AB \o C, p, W[p], V[p])
  <2>1. Makes(C, p, EmptyTable(d)[p], V[p])
    BY <1>7 DEF MakesTable
  <2> QED BY <1>11, <1>17, <1>19, <2>1, MakesConcat
<1>22. RehashStores(T, d) = AB \o C
  BY <1>4, <1>14 DEF AB
<1> QED BY <1>7, <1>8, <1>20, <1>21, <1>22 DEF Whole, MakesTable

-----------------------------------------------------------------------------
(* The second invariant: the stores left in a section add up to a Robin    *)
(* Hood table, and between sections there is one.                          *)
PlanLabels == {"seq_begin"} \cup WriteLabels

WholeInv ==
  /\ \A t \in Threads : pc[t] \in PlanLabels => Whole(todo[t], words, CapH)
  /\ NoneWrites => Sound(CapH, Table(CapH))

(* The first half of a store: the other words are as before, and this one  *)
(* is stored to.                                                           *)
LEMMA WholeHalf ==
  ASSUME NEW q \in Seq(AnyStore), q # <<>>, NEW W, NEW c, NEW X, Whole(q, W, c),
         \A p \in Nat : p # Head(q).at => X[p] = W[p]
  PROVE Whole(q, X, c)
<1>0. PICK d \in Caps : \E V \in Tables(d, Nat) :
        /\ Makes(q, -1, Layout(c), Layout(d))
        /\ MakesTable(q, W, d, V) /\ Sound(d, V)
  BY DEF Whole
<1>1. PICK V \in Tables(d, Nat) :
        /\ Makes(q, -1, Layout(c), Layout(d))
        /\ MakesTable(q, W, d, V) /\ Sound(d, V)
  BY <1>0
<1>2. ASSUME NEW p \in 0..(d - 1) PROVE Makes(q, p, X[p], V[p])
  <2>1. Makes(q, p, W[p], V[p]) /\ p \in Nat
    BY <1>1 DEF MakesTable
  <2>2. CASE p = Head(q).at
    BY <2>1, <2>2, MakesHead
  <2>3. CASE p # Head(q).at
    BY <2>1, <2>3
  <2> QED BY <2>2, <2>3
<1> QED BY <1>1, <1>2 DEF Whole, MakesTable

(* The second half, which makes it whole.                                  *)
LEMMA WholeStored ==
  ASSUME NEW q \in Seq(AnyStore), q # <<>>, NEW W, NEW c, NEW X, Whole(q, W, c),
         Head(q).at # -1, X[Head(q).at] = Head(q).entry,
         \A p \in Nat : p # Head(q).at => X[p] = W[p]
  PROVE Whole(Tail(q), X, c)
<1>0. PICK d \in Caps : \E V \in Tables(d, Nat) :
        /\ Makes(q, -1, Layout(c), Layout(d))
        /\ MakesTable(q, W, d, V) /\ Sound(d, V)
  BY DEF Whole
<1>1. PICK V \in Tables(d, Nat) :
        /\ Makes(q, -1, Layout(c), Layout(d))
        /\ MakesTable(q, W, d, V) /\ Sound(d, V)
  BY <1>0
<1>2. Makes(Tail(q), -1, Layout(c), Layout(d))
  BY <1>1, MakesTail
<1>3. ASSUME NEW p \in 0..(d - 1) PROVE Makes(Tail(q), p, X[p], V[p])
  <2>1. Makes(q, p, W[p], V[p]) /\ p \in Nat
    BY <1>1 DEF MakesTable
  <2>2. Makes(Tail(q), p, IF Head(q).at = p THEN Head(q).entry ELSE W[p], V[p])
    BY <2>1, MakesTail
  <2>3. (IF Head(q).at = p THEN Head(q).entry ELSE W[p]) = X[p]
    BY <2>1
  <2> QED BY <2>2, <2>3
<1> QED BY <1>1, <1>2, <1>3 DEF Whole, MakesTable

(* ef_index_bind_layout                                                    *)
LEMMA WholeBinds ==
  ASSUME NEW q \in Seq(AnyStore), q # <<>>, NEW W, NEW c, NEW b, Whole(q, W, c), Head(q) = Bind(b)
  PROVE Whole(Tail(q), W, b)
<1>0. PICK d \in Caps : \E V \in Tables(d, Nat) :
        /\ Makes(q, -1, Layout(c), Layout(d))
        /\ MakesTable(q, W, d, V) /\ Sound(d, V)
  BY DEF Whole
<1>1. PICK V \in Tables(d, Nat) :
        /\ Makes(q, -1, Layout(c), Layout(d))
        /\ MakesTable(q, W, d, V) /\ Sound(d, V)
  BY <1>0
<1>2. Head(q).at = -1 /\ Head(q).entry = Layout(b)
  BY DEF Bind, Layout
<1>3. Makes(Tail(q), -1, Layout(b), Layout(d))
  BY <1>1, <1>2, MakesTail
<1>4. ASSUME NEW p \in 0..(d - 1) PROVE Makes(Tail(q), p, W[p], V[p])
  <2>1. Makes(q, p, W[p], V[p]) /\ p # -1
    BY <1>1 DEF MakesTable
  <2>2. Makes(Tail(q), p, IF Head(q).at = p THEN Head(q).entry ELSE W[p], V[p])
    BY <2>1, MakesTail
  <2> QED BY <1>2, <2>1, <2>2
<1> QED BY <1>1, <1>3, <1>4 DEF Whole, MakesTable

(* Nothing is left to store.                                               *)
LEMMA WholeDone ==
  ASSUME NEW c \in Nat, Whole(<<>>, words, c)
  PROVE Sound(c, Table(c))
<1>0. PICK d \in Caps : \E V \in Tables(d, Nat) :
        /\ Makes(<<>>, -1, Layout(c), Layout(d))
        /\ MakesTable(<<>>, words, d, V) /\ Sound(d, V)
  BY DEF Whole
<1>1. PICK V \in Tables(d, Nat) :
        /\ Makes(<<>>, -1, Layout(c), Layout(d))
        /\ MakesTable(<<>>, words, d, V) /\ Sound(d, V)
  BY <1>0
<1>2. Layout(d) = Layout(c)
  BY <1>1, MakesNothing
<1>3. d = c
  BY <1>2 DEF Layout
<1>4. \A p \in 0..(c - 1) : V[p] = words[p]
  BY <1>1, <1>3, MakesNothing DEF MakesTable
<1>5. V = Table(c)
  BY <1>3, <1>4 DEF Table, Tables
<1> QED BY <1>1, <1>3, <1>5

(* A section begins with a plan that is whole.                             *)
LEMMA SectionWhole ==
  ASSUME OneHandle, SeqInv, WholeInv, NEW t \in Threads, NEW q, Section(t, q), Whole(q, words, CapH)
  PROVE WholeInv'
<1>1. /\ pc[t] = "idle" /\ write_lock = 0
      /\ todo' = [todo EXCEPT ![t] = q] /\ pc' = [pc EXCEPT ![t] = "seq_begin"]
      /\ UNCHANGED <<words, hash_capacity>>
  BY DEF Section, Goto
<1>2. \A u \in Threads : pc[u] \notin SectionLabels
  BY <1>1 DEF SeqInv, Held
<1>3. \A u \in Threads : u # t => pc'[u] = pc[u]
  BY <1>1 DEF SeqInv, LocalTypes
<1>4. todo'[t] = q
  BY <1>1 DEF SeqInv, MemTypes
<1>5. \A u \in Threads : pc'[u] \in PlanLabels => u = t
  BY <1>2, <1>3 DEF PlanLabels, WriteLabels, SectionLabels
<1>6. CapH' = CapH /\ Table(CapH)' = Table(CapH)
  BY <1>1 DEF CapH, Table
<1>7. NoneWrites
  BY <1>2 DEF NoneWrites, WriteLabels, SectionLabels
<1>8. Sound(CapH, Table(CapH))'
  BY <1>6, <1>7 DEF WholeInv
<1>9. \A u \in Threads : pc'[u] \in PlanLabels => Whole(todo'[u], words', CapH')
  BY <1>1, <1>4, <1>5, <1>6
<1> QED BY <1>8, <1>9 DEF WholeInv

(* The table before a section.                                             *)
LEMMA SoundBefore ==
  ASSUME OneHandle, SeqInv, WholeInv, NEW t \in Threads, pc[t] = "idle", write_lock = 0
  PROVE Sound(CapH, Table(CapH)) /\ \A p \in 0..(CapH - 1) : Table(CapH)[p] = words[p]
<1>1. NoneWrites
  BY DEF SeqInv, Held, NoneWrites, WriteLabels, SectionLabels
<1> QED BY <1>1 DEF WholeInv, Table

(* ef_index_put                                                            *)
LEMMA PutWhole ==
  ASSUME OneHandle, SeqInv, WholeInv, NEW t \in Threads, NEW k \in Keys, NEW s \in Slots, Put(t, k, s)
  PROVE WholeInv'
<1> DEFINE T == Table(CapH)
           off == Offset(CapH, s)
           now == [payload EXCEPT ![s] = k]
<1>1. CapNow(t) = CapH
  BY SameHandle
<1>2. (\A p \in DOMAIN T : T[p].off # off) /\ Section(t, PutStores(T, k, off))
  BY <1>1 DEF Put
<1>3. pc[t] = "idle" /\ write_lock = 0
  BY <1>2 DEF Section
<1>4. /\ T \in FineTable(CapH, payload) /\ CapH \in Caps /\ CapH \in Nat /\ CapH # 0
      /\ payload \in [Slots -> Nat]
  BY <1>3, BeforeSection
<1>5. Sound(CapH, T) /\ \A p \in 0..(CapH - 1) : T[p] = words[p]
  BY <1>3, SoundBefore
<1>6. off # 0
  <2>1. SlotsBase(CapH) \in Nat /\ s \in Nat \ {0}
    BY <1>4, BaseNat, SeqKeys
  <2> QED BY <2>1 DEF Offset
<1> HIDE DEF T
<1>7. /\ \A e \in FineEntry(CapH, payload) : e.off # off => e \in FineEntry(CapH, now)
      /\ [key |-> k, off |-> off] \in FineEntry(CapH, now)
  BY <1>4, PayloadStored
<1> HIDE DEF off, now
<1>8. T \in FineTable(CapH, now)
  BY <1>2, <1>4, <1>7 DEF FineTable
<1>9. PutStores(T, k, off) \in Seq(FineStore(CapH, now))
  BY <1>4, <1>7, <1>8, PutStoresFine
<1>10. PICK V : V \in FineTable(CapH, now) /\ Sound(CapH, V)
                /\ MakesTable(PutStores(T, k, off), T, CapH, V)
  BY <1>4, <1>5, <1>6, <1>7, <1>8, PutMakes
<1>11. V \in Tables(CapH, Nat)
  BY <1>4, <1>10, FineIsTable
<1>12. Whole(PutStores(T, k, off), words, CapH)
  BY <1>4, <1>5, <1>9, <1>10, <1>11, WholeStays
<1> QED BY <1>2, <1>12, SectionWhole

(* ef_index_remove, ef_index_clear, ef_index_rehash_to, and a section      *)
(* without a store.                                                        *)
LEMMA OtherSectionsWhole ==
  ASSUME OneHandle, SeqInv, WholeInv, NEW t \in Threads,
         (\E k \in Keys : Remove(t, k)) \/ Clear(t) \/ NoChange(t) \/ (\E c \in Caps : Rehash(t, c))
  PROVE WholeInv'
<1> DEFINE T == Table(CapH)
<1>1. pc[t] = "idle" /\ write_lock = 0
  BY DEF Remove, Clear, NoChange, Rehash, Section
<1>2. /\ T \in FineTable(CapH, payload) /\ CapH \in Caps /\ CapH \in Nat /\ CapH # 0
      /\ CapNow(t) = CapH
  BY <1>1, BeforeSection
<1>3. Sound(CapH, T) /\ \A p \in 0..(CapH - 1) : T[p] = words[p]
  BY <1>1, SoundBefore
<1>4. T \in Tables(CapH, Nat)
  BY <1>2, FineIsTable
<1> HIDE DEF T
<1>5. CASE \E k \in Keys : Remove(t, k)
  <2>1. PICK k \in Keys : Remove(t, k)
    BY <1>5
  <2>2. Found(T, k) /\ Section(t, RemoveStores(T, k))
    BY <1>2, <2>1 DEF Remove, T
  <2>3. k \in Nat
    BY SeqKeys
  <2>4. RemoveStores(T, k) \in Seq(FineStore(CapH, payload))
    BY <1>2, <2>2, <2>3, RemoveStoresFine
  <2>5. PICK V \in Tables(CapH, Nat) : Sound(CapH, V) /\ MakesTable(RemoveStores(T, k), T, CapH, V)
    BY <1>2, <1>3, <2>2, <2>3, RemoveMakes
  <2>6. Whole(RemoveStores(T, k), words, CapH)
    BY <1>2, <1>3, <2>4, <2>5, WholeStays
  <2> QED BY <2>2, <2>6, SectionWhole
<1>6. CASE Clear(t)
  <2>1. Section(t, ClearStores(CapH))
    BY <1>2, <1>6 DEF Clear
  <2>2. ClearStores(CapH) \in Seq(FineStore(CapH, payload))
    BY <1>2, ClearStoresFine
  <2>3. EmptyTable(CapH) \in Tables(CapH, Nat) /\ Sound(CapH, EmptyTable(CapH))
    BY <1>2, EmptyTableGood
  <2>4. MakesTable(ClearStores(CapH), T, CapH, EmptyTable(CapH))
    BY <1>2, ClearMakes
  <2>5. Whole(ClearStores(CapH), words, CapH)
    BY <1>2, <1>3, <2>2, <2>3, <2>4, WholeStays
  <2> QED BY <2>1, <2>5, SectionWhole
<1>7. CASE NoChange(t)
  <2>1. Section(t, <<>>) /\ <<>> \in Seq(FineStore(CapH, payload))
    BY <1>7 DEF NoChange
  <2>2. MakesTable(<<>>, T, CapH, T)
    BY MakesNothing DEF MakesTable
  <2>3. Whole(<<>>, words, CapH)
    BY <1>2, <1>3, <1>4, <2>1, <2>2, WholeStays
  <2> QED BY <2>1, <2>3, SectionWhole
<1>8. CASE \E c \in Caps : Rehash(t, c)
  <2>1. PICK c \in Caps : Rehash(t, c)
    BY <1>8
  <2>2. Section(t, RehashStores(T, c))
    BY <1>2, <2>1 DEF Rehash, T
  <2>3. Whole(RehashStores(T, c), words, CapH)
    BY <1>2, RehashWhole
  <2> QED BY <2>2, <2>3, SectionWhole
<1> QED BY <1>5, <1>6, <1>7, <1>8

(* A step inside a section: the thread that makes it is the only one that  *)
(* has stores to come.                                                     *)
LEMMA WriterWhole ==
  ASSUME OneHandle, SeqInv, NEW t \in Threads, NEW l \in WriteLabels,
         pc[t] \in SectionLabels, pc' = [pc EXCEPT ![t] = l], Whole(todo'[t], words', CapH')
  PROVE WholeInv'
<1>1. \A u \in Threads : pc'[u] = IF u = t THEN l ELSE pc[u]
  BY DEF SeqInv, LocalTypes
<1>2. \A u \in Threads : pc[u] \in SectionLabels => u = t
  BY DEF SeqInv, Held
<1>3. \A u \in Threads : pc'[u] \in PlanLabels => u = t
  BY <1>1, <1>2 DEF PlanLabels, WriteLabels, SectionLabels
<1>4. ~NoneWrites'
  BY <1>1 DEF NoneWrites
<1> QED BY <1>3, <1>4 DEF WholeInv

(* ef_sb_index_write_seq_begin *)
LEMMA SeqBeginWhole ==
  ASSUME OneHandle, SeqInv, WholeInv, NEW t \in Threads, SeqBegin(t)
  PROVE WholeInv'
<1> DEFINE l == NextStore(todo[t])
<1>1. pc[t] = "seq_begin" /\ pc' = [pc EXCEPT ![t] = l] /\ UNCHANGED <<words, hash_capacity, todo>>
  BY DEF SeqBegin, Goto
<1>2. l \in WriteLabels
  BY NextStoreAt
<1>3. pc[t] \in PlanLabels /\ pc[t] \in SectionLabels
  BY <1>1 DEF PlanLabels, SectionLabels
<1>4. CapH' = CapH
  BY <1>1 DEF CapH
<1>5. Whole(todo'[t], words', CapH')
  BY <1>1, <1>3, <1>4 DEF WholeInv
<1> HIDE DEF l
<1> QED BY <1>1, <1>2, <1>3, <1>5, WriterWhole

(* What a thread that stores finds.                                        *)
LEMMA WholeAt ==
  ASSUME OneHandle, SeqInv, WholeInv, NEW t \in Threads, pc[t] \in WriteLabels
  PROVE /\ pc[t] \in SectionLabels /\ todo[t] \in Seq(AnyStore) /\ AtStore(pc[t], todo[t], words)
        /\ Planned(todo[t], words, CapH, payload) /\ CapH \in Caps /\ CapH \in Nat /\ words \in Words
        /\ Whole(todo[t], words, CapH)
<1>1. /\ pc[t] \in SectionLabels /\ AtStore(pc[t], todo[t], words)
      /\ Planned(todo[t], words, CapH, payload) /\ CapH \in Caps /\ CapH \in Nat /\ words \in Words
  BY WriterAt
<1>2. todo[t] \in Seq(AnyStore)
  BY <1>1 DEF Planned
<1>3. Whole(todo[t], words, CapH)
  BY DEF WholeInv, PlanLabels
<1> QED BY <1>1, <1>2, <1>3

(* ef_hash_entry_store_atomic, the key                                     *)
LEMMA StoreKeyWhole ==
  ASSUME OneHandle, SeqInv, WholeInv, NEW t \in Threads, StoreKey(t)
  PROVE WholeInv'
<1> DEFINE q == todo[t]
           p == Head(q).at
<1>1. /\ pc[t] = "store_key" /\ words' = [words EXCEPT ![p].key = Head(q).entry.key]
      /\ pc' = [pc EXCEPT ![t] = "store_off"] /\ UNCHANGED <<hash_capacity, todo>>
  BY DEF StoreKey, Goto
<1>2. pc[t] \in WriteLabels /\ "store_off" \in WriteLabels
  BY <1>1 DEF WriteLabels
<1>3. /\ pc[t] \in SectionLabels /\ q \in Seq(AnyStore) /\ AtStore(pc[t], q, words)
      /\ Whole(q, words, CapH)
  BY <1>2, WholeAt
<1>4. q # <<>>
  BY <1>1, <1>3 DEF AtStore
<1>5. \A x \in Nat : x # p => words'[x] = words[x]
  BY <1>1
<1>6. Whole(q, words', CapH)
  BY <1>3, <1>4, <1>5, WholeHalf
<1>7. CapH' = CapH /\ todo'[t] = q
  BY <1>1 DEF CapH
<1>8. Whole(todo'[t], words', CapH')
  BY <1>6, <1>7
<1> QED BY <1>1, <1>2, <1>3, <1>8, WriterWhole

(* ef_hash_entry_store_atomic, the offset                                  *)
LEMMA StoreOffWhole ==
  ASSUME OneHandle, SeqInv, WholeInv, NEW t \in Threads, StoreOff(t)
  PROVE WholeInv'
<1> DEFINE q == todo[t]
           p == Head(q).at
           e == Head(q).entry
           l == NextStore(Tail(q))
<1>1. /\ pc[t] = "store_off" /\ words' = [words EXCEPT ![p].off = e.off]
      /\ todo' = [todo EXCEPT ![t] = Tail(q)] /\ pc' = [pc EXCEPT ![t] = l]
      /\ UNCHANGED hash_capacity
  BY DEF StoreOff, Goto
<1>2. pc[t] \in WriteLabels
  BY <1>1 DEF WriteLabels
<1>3. /\ pc[t] \in SectionLabels /\ q \in Seq(AnyStore) /\ AtStore(pc[t], q, words)
      /\ Planned(q, words, CapH, payload) /\ CapH \in Caps /\ words \in Words
      /\ Whole(q, words, CapH)
  BY <1>2, WholeAt
<1>4. q # <<>> /\ p # -1 /\ words[p].key = e.key
  BY <1>1, <1>3 DEF AtStore
<1>5. p \in 0..(Largest - 1) /\ e \in Word
  BY <1>3, <1>4, PlanAt
<1>6. words[p] \in Word /\ DOMAIN words = 0..(Largest - 1)
  BY <1>3, <1>5 DEF Words
<1>7. [words[p] EXCEPT !.off = e.off] = e
  BY <1>4, <1>5, <1>6 DEF Word
<1>8. words'[p] = e /\ \A x \in Nat : x # p => words'[x] = words[x]
  BY <1>1, <1>5, <1>6, <1>7
<1>9. Whole(Tail(q), words', CapH)
  BY <1>3, <1>4, <1>8, WholeStored
<1>10. CapH' = CapH /\ todo'[t] = Tail(q)
  BY <1>1 DEF CapH, SeqInv, MemTypes
<1>11. Whole(todo'[t], words', CapH')
  BY <1>9, <1>10
<1>12. l \in WriteLabels
  BY NextStoreAt
<1> HIDE DEF l
<1> QED BY <1>1, <1>3, <1>11, <1>12, WriterWhole

(* ef_index_bind_layout                                                    *)
LEMMA BindLayoutWhole ==
  ASSUME OneHandle, SeqInv, WholeInv, NEW t \in Threads, BindLayout(t)
  PROVE WholeInv'
<1> DEFINE q == todo[t]
           c == Head(q).entry.off
           l == NextStore(Tail(q))
<1>1. /\ pc[t] = "bind" /\ hash_capacity' = [hash_capacity EXCEPT ![HandleOf[t]] = c]
      /\ todo' = [todo EXCEPT ![t] = Tail(q)] /\ pc' = [pc EXCEPT ![t] = l]
      /\ UNCHANGED words
  BY DEF BindLayout, Goto
<1>2. pc[t] \in WriteLabels
  BY <1>1 DEF WriteLabels
<1>3. /\ pc[t] \in SectionLabels /\ q \in Seq(AnyStore) /\ AtStore(pc[t], q, words)
      /\ Planned(q, words, CapH, payload) /\ CapH \in Nat /\ Whole(q, words, CapH)
  BY <1>2, WholeAt
<1>4. q # <<>> /\ Head(q).at = -1
  BY <1>1, <1>3 DEF AtStore
<1>5. Head(q) = Bind(c)
  BY <1>3, <1>4, PlanBinds
<1>6. Whole(Tail(q), words, c)
  BY <1>3, <1>4, <1>5, WholeBinds
<1>7. H \in Handles /\ HandleOf[t] = H
  BY SameHandle
<1>8. CapH' = c /\ todo'[t] = Tail(q)
  BY <1>1, <1>7 DEF SeqInv, MemTypes, CapH
<1>9. Whole(todo'[t], words', CapH')
  BY <1>1, <1>6, <1>8
<1>10. l \in WriteLabels
  BY NextStoreAt
<1> HIDE DEF l
<1> QED BY <1>1, <1>3, <1>9, <1>10, WriterWhole

(* ef_sb_index_write_seq_end                                               *)
LEMMA SeqEndWhole ==
  ASSUME OneHandle, SeqInv, WholeInv, NEW t \in Threads, SeqEnd(t)
  PROVE WholeInv'
<1>1. pc[t] = "seq_end" /\ pc' = [pc EXCEPT ![t] = "unlock"] /\ UNCHANGED <<words, hash_capacity>>
  BY DEF SeqEnd, Goto
<1>2. pc[t] \in WriteLabels
  BY <1>1 DEF WriteLabels
<1>3. /\ pc[t] \in SectionLabels /\ AtStore(pc[t], todo[t], words)
      /\ CapH \in Nat /\ Whole(todo[t], words, CapH)
  BY <1>2, WholeAt
<1>4. todo[t] = <<>>
  BY <1>1, <1>3 DEF AtStore
<1>5. Sound(CapH, Table(CapH))
  BY <1>3, <1>4, WholeDone
<1>6. CapH' = CapH /\ Table(CapH)' = Table(CapH)
  BY <1>1 DEF CapH, Table
<1>7. \A u \in Threads : pc'[u] = IF u = t THEN "unlock" ELSE pc[u]
  BY <1>1 DEF SeqInv, LocalTypes
<1>8. \A u \in Threads : pc[u] \in SectionLabels => u = t
  BY <1>3 DEF SeqInv, Held
<1>9. \A u \in Threads : pc'[u] \notin PlanLabels
  BY <1>7, <1>8 DEF PlanLabels, WriteLabels, SectionLabels
<1> QED BY <1>5, <1>6, <1>9 DEF WholeInv

(* A step that leaves words, capacity and plans alone, of a thread that    *)
(* has none: of a reader, or at the end of a section.                      *)
LEMMA OutsideWhole ==
  ASSUME WholeInv, UNCHANGED <<words, hash_capacity, todo>>,
         NEW t \in Threads, pc[t] \notin PlanLabels, pc'[t] \notin PlanLabels,
         \A u \in Threads : u # t => pc'[u] = pc[u]
  PROVE WholeInv'
<1>1. CapH' = CapH /\ Table(CapH)' = Table(CapH)
  BY DEF CapH, Table
<1>2. \A u \in Threads : pc'[u] \in PlanLabels => pc'[u] = pc[u]
  OBVIOUS
<1>3. NoneWrites' => NoneWrites
  BY DEF NoneWrites, PlanLabels
<1>4. NoneWrites' => Sound(CapH, Table(CapH))'
  BY <1>1, <1>3 DEF WholeInv
<1>5. \A u \in Threads : pc'[u] \in PlanLabels => Whole(todo'[u], words', CapH')
  BY <1>1, <1>2 DEF WholeInv
<1> QED BY <1>4, <1>5 DEF WholeInv

(* The step of a thread outside a section.                                 *)
LEMMA ReaderWhole ==
  ASSUME OneHandle, SeqInv, WholeInv, NEW t \in Readers,
         \/ \E k \in Keys : GetCall(t, k)
         \/ GetSeq(t) \/ GetCapacity(t) \/ GetOff(t) \/ GetKey(t) \/ GetEmpty(t)
         \/ GetCheck(t) \/ GetSlot(t)
         \/ IterCall(t) \/ IterBegin(t) \/ IterOff(t) \/ IterKey(t) \/ IterEmpty(t) \/ IterSeq(t)
  PROVE WholeInv'
<1> DEFINE To(l) == pc' = [pc EXCEPT ![t] = l]
<1>1. t \in Threads
  BY DEF Threads
<1>2. UNCHANGED <<words, hash_capacity, todo>>
  BY DEF memVars, GetCall, GetSeq, GetCapacity, GetOff, GetKey, GetEmpty, GetCheck, GetSlot,
         IterCall, IterBegin, IterOff, IterKey, IterEmpty, IterSeq
<1>3. pc[t] \in ReadLabels
  BY DEF ReadLabels, GetLabels, IterLabels, GetCall, GetSeq, GetCapacity, GetOff, GetKey, GetEmpty,
         GetCheck, GetSlot, IterCall, IterBegin, IterOff, IterKey, IterEmpty, IterSeq
<1>4. Finish(t) => To("idle")
  BY DEF Finish, Goto
<1>5. Retry(t) => To("idle") \/ To("get_seq")
  BY <1>4 DEF Retry, Goto
<1>6. IterNext(t) => To("idle") \/ To("iter_off")
  BY <1>4 DEF IterNext, Goto
<1>7. \E l \in ReadLabels : To(l)
  <2> USE DEF Goto
  <2> DEFINE Goes == \/ To("idle") \/ To("get_seq") \/ To("get_capacity") \/ To("get_off") \/ To("get_key")
                     \/ To("get_empty") \/ To("get_check") \/ To("get_slot") \/ To("iter_begin")
                     \/ To("iter_off") \/ To("iter_key") \/ To("iter_empty") \/ To("iter_seq")
  <2>1. CASE (\E k \in Keys : GetCall(t, k)) \/ GetSeq(t) \/ GetCapacity(t) \/ GetOff(t) \/ GetKey(t)
    <3>1. Goes
      BY <1>5, <2>1 DEF GetCall, GetSeq, GetCapacity, GetOff, GetKey
    <3> QED BY <3>1 DEF ReadLabels, GetLabels, IterLabels
  <2>2. CASE GetEmpty(t) \/ GetCheck(t) \/ GetSlot(t)
    <3>1. Goes
      BY <1>4, <1>5, <2>2 DEF GetEmpty, GetCheck, GetSlot
    <3> QED BY <3>1 DEF ReadLabels, GetLabels, IterLabels
  <2>3. CASE IterCall(t) \/ IterBegin(t) \/ IterOff(t) \/ IterKey(t) \/ IterEmpty(t) \/ IterSeq(t)
    <3>1. Goes
      BY <1>4, <1>6, <2>3 DEF IterCall, IterBegin, IterOff, IterKey, IterEmpty, IterSeq
    <3> QED BY <3>1 DEF ReadLabels, GetLabels, IterLabels
  <2> QED BY <2>1, <2>2, <2>3
<1>8. PICK l \in ReadLabels : To(l)
  BY <1>7
<1>9. pc'[t] = l /\ \A u \in Threads : u # t => pc'[u] = pc[u]
  BY <1>1, <1>8 DEF SeqInv, LocalTypes
<1>10. ReadLabels \cap PlanLabels = {}
  BY DEF ReadLabels, GetLabels, IterLabels, PlanLabels, WriteLabels
<1>11. pc[t] \notin PlanLabels /\ pc'[t] \notin PlanLabels
  BY <1>3, <1>8, <1>9, <1>10
<1> QED BY <1>1, <1>2, <1>9, <1>11, OutsideWhole

(* ef_sb_index_write_lock_release                                          *)
LEMMA UnlockWhole ==
  ASSUME OneHandle, SeqInv, WholeInv, NEW t \in Threads, Unlock(t)
  PROVE WholeInv'
<1>1. /\ pc[t] = "unlock" /\ pc' = [pc EXCEPT ![t] = "idle"]
      /\ UNCHANGED <<words, hash_capacity, todo>>
  BY DEF Unlock, Goto
<1>2. pc'[t] = "idle" /\ \A u \in Threads : u # t => pc'[u] = pc[u]
  BY <1>1 DEF SeqInv, LocalTypes
<1>3. pc[t] \notin PlanLabels /\ pc'[t] \notin PlanLabels
  BY <1>1, <1>2 DEF PlanLabels, WriteLabels
<1> QED BY <1>1, <1>2, <1>3, OutsideWhole

(* An empty table is a Robin Hood table.                                   *)
LEMMA InitWhole ==
  ASSUME OneHandle, Init
  PROVE WholeInv
<1>1. SeqInv
  BY InitKeeps
<1>2. \A t \in Threads : pc[t] = "idle"
  BY DEF Init
<1>3. \A t \in Threads : pc[t] \notin WriteLabels /\ pc[t] \notin PlanLabels
  BY <1>2 DEF PlanLabels, WriteLabels
<1>4. H \in Handles /\ hash_capacity = [h \in Handles |-> InitCap] /\ content = EmptyTable(InitCap)
  BY SameHandle DEF Init
<1>5. CapH = InitCap
  BY <1>4 DEF CapH
<1>6. content = Table(CapH)
  BY <1>1, <1>3 DEF SeqInv, Quiet, NoneWrites
<1>7. InitCap \in Nat /\ InitCap # 0
  BY SeqCaps
<1>8. Sound(InitCap, EmptyTable(InitCap))
  BY <1>7, EmptyTableGood
<1> QED BY <1>3, <1>4, <1>5, <1>6, <1>8 DEF WholeInv

(* Every step keeps both invariants.                                       *)
LEMMA WholeStep ==
  ASSUME OneHandle, SeqInv, WholeInv, [Next]_vars
  PROVE WholeInv'
<1>1. CASE UNCHANGED vars
  <2>1. UNCHANGED <<words, hash_capacity, pc, todo>>
    BY <1>1 DEF vars, memVars
  <2> QED BY <2>1 DEF WholeInv, CapH, Table, NoneWrites
<1>2. ASSUME NEW t \in Readers,
             \/ \E k \in Keys : GetCall(t, k)
             \/ GetSeq(t) \/ GetCapacity(t) \/ GetOff(t) \/ GetKey(t) \/ GetEmpty(t)
             \/ GetCheck(t) \/ GetSlot(t)
             \/ IterCall(t) \/ IterBegin(t) \/ IterOff(t) \/ IterKey(t) \/ IterEmpty(t) \/ IterSeq(t)
      PROVE WholeInv'
  BY <1>2, ReaderWhole
<1>3. ASSUME NEW t \in Writers, NEW pair \in Pairs, Put(t, pair[1], pair[2]) PROVE WholeInv'
  <2>1. t \in Threads /\ pair[1] \in Keys /\ pair[2] \in Slots
    BY SeqKeys DEF Threads
  <2> QED BY <1>3, <2>1, PutWhole
<1>4. ASSUME NEW t \in Writers,
             \/ \E k \in Keys : Remove(t, k)
             \/ Clear(t) \/ NoChange(t) \/ \E c \in Caps : Rehash(t, c)
      PROVE WholeInv'
  <2>1. t \in Threads
    BY DEF Threads
  <2> QED BY <1>4, <2>1, OtherSectionsWhole
<1>5. ASSUME NEW t \in Writers,
             SeqBegin(t) \/ StoreKey(t) \/ StoreOff(t) \/ BindLayout(t) \/ SeqEnd(t) \/ Unlock(t)
      PROVE WholeInv'
  <2>1. t \in Threads
    BY DEF Threads
  <2> QED BY <1>5, <2>1, SeqBeginWhole, StoreKeyWhole, StoreOffWhole, BindLayoutWhole, SeqEndWhole,
             UnlockWhole
<1>6. CASE Next
  BY <1>2, <1>3, <1>4, <1>5, <1>6 DEF Next
<1> QED BY <1>1, <1>6

(* While no writer is at work, every entry of the table is found by a      *)
(* lookup of its key and refers to a slot with the record of that key: the *)
(* half stores of ef_index_put_entry, ef_index_remove_by_hash,             *)
(* ef_index_clear and ef_index_rehash_to add up to a Robin Hood table      *)
(* whose offsets fit the layout (SectionsWhole of EfSeqlock).              *)
THEOREM SectionsTheorem == ASSUME OneHandle PROVE Spec => []SectionsWhole
<1>1. SeqInv /\ WholeInv => SectionsWhole
  <2> SUFFICES ASSUME SeqInv, WholeInv, write_lock = 0, NEW h \in Handles,
                      NEW p \in DOMAIN Table(hash_capacity[h])
               PROVE LET c == hash_capacity[h]
                         T == Table(c) IN
                     IF T[p].off = 0 THEN T[p] = Empty
                     ELSE FindPos(T, T[p].key) = p /\ payload[SlotId(c, T[p].off)] = T[p].key
    BY DEF SectionsWhole
  <2> DEFINE c == CapH
             T == Table(c)
  <2>1. h = H
    BY SameHandle DEF Handles
  <2>2. \A t \in Threads : pc[t] \notin SectionLabels
    BY DEF SeqInv, Held
  <2>3. NoneWrites
    BY <2>2 DEF NoneWrites, SectionLabels, WriteLabels
  <2>4. c \in Nat /\ c # 0
    BY HandleTypes DEF SeqInv
  <2>5. T \in FineTable(c, payload)
    BY <2>3, QuietTable DEF SeqInv
  <2>6. Sound(c, T)
    BY <2>3 DEF WholeInv
  <2>7. p \in 0..(c - 1)
    BY <2>1 DEF Table, CapH
  <2> HIDE DEF c, T
  <2>8. T[p] \in FineEntry(c, payload) /\ T \in Tables(c, Nat)
    BY <2>4, <2>5, <2>7, FineIsTable DEF FineTable
  <2>9. ASSUME T[p].off = 0 PROVE T[p] = Empty
    BY <2>8, <2>9 DEF FineEntry, Empty
  <2>10. ASSUME T[p].off # 0
         PROVE FindPos(T, T[p].key) = p /\ payload[SlotId(c, T[p].off)] = T[p].key
    <3>1. FindPos(T, T[p].key) = p
      BY <2>4, <2>6, <2>7, <2>8, <2>10, SoundFinds DEF Occ
    <3>2. payload[SlotId(c, T[p].off)] = T[p].key
      BY <2>8, <2>10 DEF FineEntry
    <3> QED BY <3>1, <3>2
  <2> QED BY <2>1, <2>9, <2>10 DEF c, T, CapH
<1>2. Init => WholeInv
  BY InitWhole
<1>3. SeqInv /\ WholeInv /\ [Next]_vars => WholeInv'
  BY WholeStep
<1> QED BY <1>1, <1>2, <1>3, SeqInvariant, PTL DEF Spec

=============================================================================
