--------------------------- MODULE EfIndexProofs ---------------------------
(***************************************************************************)
(* Proofs about EfIndex, for every number of threads, keys and slots and   *)
(* for all capacities, limits and backends: the critical sections of the   *)
(* index write lock, in whatever order the threads take them, keep the     *)
(* table in order and its count exact, and change it as a map.             *)
(***************************************************************************)
EXTENDS EfIndex, EfTableProofs

LOCAL INSTANCE FiniteSetsExt    \* Min

-----------------------------------------------------------------------------
(* The inductive invariant.                                                *)

Offs == Slots \cup {0}

(* The table holds keys and slots, in order.                               *)
KeysOnly(c, T) == \A p \in 0..(c - 1) : Occ(T, p) => T[p].key \in Keys

TableGood(T) ==
  LET c == Capacity(T) IN
  /\ c \in Nat /\ c # 0
  /\ T \in Tables(c, Offs)
  /\ Sound(c, T)
  /\ KeysOnly(c, T)

Labels == {"idle", "grow", "rehash", "insert", "shrink", "clear_shrink"}

(* A put that waits for the table to grow keeps its arguments.             *)
Waiting ==
  /\ pc \in [Threads -> Labels]
  /\ key \in [Threads -> Keys \cup {0}]
  /\ off \in [Threads -> Offs]
  /\ \A t \in Threads :
       pc[t] \in {"grow", "rehash", "insert"} => key[t] \in Keys /\ off[t] \in Slots

IndexInv ==
  /\ TableGood(table)
  /\ Waiting
  /\ CountExact

-----------------------------------------------------------------------------
(* What the operations make of a good table.                               *)

(* The keys are positive numbers, and 0 is not a slot.                     *)
LEMMA KeyIsNat ==
  ASSUME NEW k \in Keys
  PROVE k \in Nat /\ k # 0
BY IndexKeys

(* A table with no keys but those of the model, by its entries.            *)
LEMMA KeysIn ==
  ASSUME NEW c, NEW T
  PROVE KeysOnly(c, T) <=> \A e : In(c, T, e) => e.key \in Keys
BY DEF KeysOnly, In

(* The section of a put.                                                   *)
LEMMA InsertGood ==
  ASSUME NEW T, TableGood(T), NEW k \in Keys, NEW s \in Slots
  PROVE LET c == Capacity(T)
            r == PutEntry(T, k, s) IN
        /\ TableGood(r.table) /\ Capacity(r.table) = c
        /\ r.added \in BOOLEAN /\ PutDone(c, T, k, s, r)
        /\ Entries(T) \in Nat
        /\ Entries(r.table) = IF r.err = "OK" /\ r.added THEN Entries(T) + 1 ELSE Entries(T)
<1> DEFINE c == Capacity(T)
           r == PutEntry(T, k, s)
           V == r.table
<1>1. c \in Nat /\ c # 0 /\ T \in Tables(c, Offs) /\ Sound(c, T) /\ KeysOnly(c, T)
  BY DEF TableGood
<1>2. k \in Nat /\ s # 0 /\ s \in Offs
  BY KeyIsNat, IndexKeys DEF Offs
<1>3. Cell(k, s) \in Cells(Offs)
  BY <1>2 DEF Cell, Cells
<1>4. r \in PutStates(c, Offs) /\ PutDone(c, T, k, s, r)
  BY <1>1, <1>2, <1>3, PutEntryGood
<1> HIDE DEF r, c
<1>5. V \in Tables(c, Offs) /\ r.added \in BOOLEAN
  BY <1>4 DEF PutStates
<1>6. Capacity(V) = c
  BY <1>1, <1>5, CapacityIs DEF Tables
<1>7. Sound(c, V) /\ \A e : In(c, V, e) => In(c, T, e) \/ e = Cell(k, s)
  BY <1>4 DEF PutDone, PutAdded, PutReplaced, PutFull
<1>8. KeysOnly(c, V)
  <2>1. Cell(k, s).key \in Keys
    BY DEF Cell
  <2>2. \A e : In(c, T, e) => e.key \in Keys
    BY <1>1, KeysIn
  <2>3. \A e : In(c, V, e) => e.key \in Keys
    BY <1>7, <2>1, <2>2
  <2> QED BY <2>3, KeysIn
<1>9. TableGood(V)
  BY <1>1, <1>5, <1>6, <1>7, <1>8 DEF TableGood
<1>10. Entries(T) \in Nat
  BY <1>1, EntriesIs
<1>11. Entries(V) = IF r.err = "OK" /\ r.added THEN Entries(T) + 1 ELSE Entries(T)
  <2>1. CASE r.err = "OK" /\ r.added /\ PutAdded(c, T, k, s, V)
    <3>1. PICK f \in 0..(c - 1) : ~Occ(T, f) /\ Occ(V, f)
                                  /\ \A p \in 0..(c - 1) : p # f => (Occ(V, p) <=> Occ(T, p))
      BY <2>1 DEF PutAdded
    <3>2. Entries(V) = Entries(T) + 1
      BY <1>1, <1>5, <3>1, EntriesAdded
    <3> QED BY <2>1, <3>2
  <2>2. CASE ~(r.err = "OK" /\ r.added) /\ SameOcc(c, T, V)
    <3>1. Entries(V) = Entries(T)
      BY <1>1, <1>5, <2>2, EntriesSame
    <3> QED BY <2>2, <3>1
  <2> QED BY <1>4, <2>1, <2>2 DEF PutDone, PutReplaced, PutFull
<1> QED BY <1>4, <1>5, <1>6, <1>9, <1>10, <1>11 DEF r, c

(* The section of a removal.                                               *)
LEMMA RemoveGood ==
  ASSUME NEW T, TableGood(T), NEW k \in Keys, Found(T, k)
  PROVE LET c == Capacity(T)
            V == RemoveByHash(T, k) IN
        /\ TableGood(V) /\ Capacity(V) = c
        /\ Entries(V) \in Nat /\ Entries(T) = Entries(V) + 1
        /\ In(c, T, Find(T, k)) /\ Find(T, k).key = k
        /\ \A e : In(c, V, e) <=> In(c, T, e) /\ e # Find(T, k)
<1> DEFINE c == Capacity(T)
           V == RemoveByHash(T, k)
           p == FindPos(T, k)
<1>1. c \in Nat /\ c # 0 /\ T \in Tables(c, Offs) /\ Sound(c, T) /\ KeysOnly(c, T)
  BY DEF TableGood
<1> HIDE DEF c
<1>2. k \in Nat /\ 0 \in Offs /\ DOMAIN T = 0..(c - 1)
  BY <1>1, KeyIsNat DEF Offs, Tables
<1>3. p \in 0..(c - 1) /\ Find(T, k) = T[p] /\ Occ(T, p) /\ T[p].key = k
  BY <1>1, <1>2, FoundIs
<1>4. V = BackShift(T, p)
  BY DEF RemoveByHash
<1> HIDE DEF p, V
<1>6. /\ V \in Tables(c, Offs) /\ Sound(c, V)
      /\ \A e : In(c, V, e) <=> In(c, T, e) /\ e # T[p]
      /\ \E f \in 0..(c - 1) : /\ Occ(T, f) /\ ~Occ(V, f)
                               /\ \A q \in 0..(c - 1) : q # f => (Occ(V, q) <=> Occ(T, q))
  BY <1>1, <1>2, <1>3, <1>4, BackShiftGood
<1>7. Capacity(V) = c
  BY <1>1, <1>6, CapacityIs DEF Tables
<1>8. KeysOnly(c, V)
  BY <1>1, <1>6, KeysIn
<1>9. TableGood(V)
  BY <1>1, <1>6, <1>7, <1>8 DEF TableGood
<1>10. Entries(T) = Entries(V) + 1
  BY <1>1, <1>6, EntriesAdded
<1>11. Entries(V) \in Nat
  BY <1>1, <1>6, EntriesIs
<1>12. In(c, T, T[p])
  BY <1>3 DEF In
<1> QED BY <1>3, <1>6, <1>7, <1>9, <1>10, <1>11, <1>12 DEF V, c

(* The section of a rehash.                                                *)
LEMMA MoveGood ==
  ASSUME NEW T, TableGood(T), NEW d \in Nat, d # 0
  PROVE LET c == Capacity(T)
            r == Refill(T, d) IN
        /\ TableGood(r.table) /\ Capacity(r.table) = d /\ r.err \in {"OK", "INDEX_FULL"}
        /\ \A e : In(d, r.table, e) => In(c, T, e)
        /\ r.err = "OK" /\ Entries(T) <= d =>
             Entries(r.table) = Entries(T) /\ \A e : In(c, T, e) => In(d, r.table, e)
<1> DEFINE c == Capacity(T)
           r == Refill(T, d)
<1>1. c \in Nat /\ c # 0 /\ T \in Tables(c, Offs) /\ Sound(c, T) /\ KeysOnly(c, T) /\ 0 \in Offs
  BY DEF TableGood, Offs
<1> HIDE DEF c
<1>2. /\ r.table \in Tables(d, Offs) /\ Sound(d, r.table) /\ r.err \in {"OK", "INDEX_FULL"}
      /\ \A e : In(d, r.table, e) => In(c, T, e)
      /\ r.err = "OK" /\ Entries(T) <= d =>
           Entries(r.table) = Entries(T) /\ \A e : In(c, T, e) => In(d, r.table, e)
  BY <1>1, RefillGood
<1> HIDE DEF r
<1>3. Capacity(r.table) = d
  BY <1>2, CapacityIs DEF Tables
<1>4. KeysOnly(d, r.table)
  BY <1>1, <1>2, KeysIn
<1>5. TableGood(r.table)
  BY <1>2, <1>3, <1>4 DEF TableGood
<1> QED BY <1>2, <1>3, <1>5 DEF r, c

(* The section of a clear, and the table at the start.                     *)
LEMMA ClearGood ==
  ASSUME NEW c \in Nat, c # 0
  PROVE LET T == EmptyTable(c) IN
        TableGood(T) /\ Capacity(T) = c /\ Entries(T) = 0 /\ \A e : ~In(c, T, e)
<1> DEFINE T == EmptyTable(c)
<1>1. 0 \in Offs
  BY DEF Offs
<1>2. T \in Tables(c, Offs) /\ Sound(c, T) /\ Entries(T) = 0 /\ \A e : ~In(c, T, e)
  BY <1>1, EmptyTableGood
<1> HIDE DEF T
<1>3. Capacity(T) = c
  BY <1>2, CapacityIs DEF Tables
<1>4. KeysOnly(c, T)
  BY <1>2, KeysIn
<1> QED BY <1>2, <1>3, <1>4 DEF TableGood, T

-----------------------------------------------------------------------------
(* What a step does to the table: nothing, or it is the section of a put,  *)
(* a removal, a rehash or a clear.                                         *)

Quiet ==
  /\ table' = table
  /\ last'.call = "none"
  /\ counted' => count' = Entries(table)

Dropped(k) ==
  /\ Found(table, k)
  /\ table' = RemoveByHash(table, k)
  /\ count' = IF count > 0 THEN count - 1 ELSE 0
  /\ last' = Section("remove", k, 0, "OK")
  /\ counted' = counted

Cleared ==
  /\ table' = EmptyTable(Cap)
  /\ count' = 0
  /\ last' = Section("clear", 0, 0, "OK")

AnySection ==
  \/ Quiet
  \/ \E k \in Keys, s \in Slots : Insert(k, s)
  \/ \E k \in Keys : Dropped(k)
  \/ \E c \in Nat \ {0}, shrinking \in BOOLEAN : RehashMoves(c, shrinking)
  \/ Cleared

(* A section that changes nothing.                                         *)
LEMMA NoChangeQuiet ==
  ASSUME CountExact, NEW e, NoChange(e)
  PROVE Quiet
BY DEF NoChange, Quiet, Section, CountExact

(* The lookup that a removal starts with has found the key.                *)
LEMMA DropSection ==
  ASSUME CountExact, NEW t, NEW k \in Keys, Found(table, k), Drop(t, k)
  PROVE Dropped(k)
BY DEF Drop, Dropped

(* The capacity that ef_index_rehash_to accepts is a positive number.      *)
LEMMA GoesTo ==
  ASSUME NEW c, NEW shrinking, RehashGoes(c, shrinking)
  PROVE c \in Nat \ {0}
<1>1. PowerOfTwo(c)
  BY DEF RehashGoes, RehashRefused
<1>2. PICK e \in 0..c : c = 2^e
  BY <1>1 DEF PowerOfTwo
<1>3. c >= 1
  BY <1>1 DEF PowerOfTwo
<1>4. c \in Int
  BY <1>2
<1> QED BY <1>3, <1>4

(* The sections of ef_index_rehash_to.                                     *)
LEMMA RehashSection ==
  ASSUME CountExact, NEW c, NEW shrinking \in BOOLEAN, RehashTo(c, shrinking)
  PROVE AnySection
<1>1. CASE RehashMoves(c, shrinking)
  <2>1. c \in Nat \ {0}
    BY <1>1, GoesTo DEF RehashMoves
  <2> QED BY <1>1, <2>1 DEF AnySection
<1>2. CASE \E e \in Errors : NoChange(e)
  BY <1>2, NoChangeQuiet DEF AnySection
<1> QED BY <1>1, <1>2 DEF RehashTo

(* The first entry with a slot.                                            *)
LEMMA SlotEntry ==
  ASSUME TableGood(table), NEW s, NEW here,
         here = {p \in Occupied(table) : table[p].off = s}, here # {}
  PROVE table[Min(here)].key \in Keys /\ Found(table, table[Min(here)].key)
<1> DEFINE c == Capacity(table)
           m == Min(here)
<1>1. c \in Nat /\ c # 0 /\ table \in Tables(c, Offs) /\ Sound(c, table) /\ KeysOnly(c, table)
  BY DEF TableGood
<1>2. Occupied(table) = {p \in 0..(c - 1) : Occ(table, p)}
  BY <1>1, EntriesIs
<1>3. here \subseteq Nat
  BY <1>1, <1>2
<1>4. m \in here
  BY <1>3, LeastOf
<1> HIDE DEF m
<1>5. m \in 0..(c - 1) /\ Occ(table, m)
  BY <1>2, <1>4
<1> HIDE DEF c
<1>6. Find(table, table[m].key) = table[m]
  BY <1>1, <1>5, SoundFinds
<1> QED BY <1>1, <1>5, <1>6 DEF KeysOnly, Found, Occ, m

(* Every step is one of them.                                              *)
LEMMA StepSection ==
  ASSUME IndexInv, Next
  PROVE AnySection
<1> USE DEF IndexInv
<1>1. CASE Reopen
  <2>1. Quiet
    BY <1>1 DEF Reopen, Quiet, Section
  <2> QED BY <2>1 DEF AnySection
<1>2. ASSUME NEW t \in Threads, NEW ks \in Pairs, Put(t, ks[1], ks[2]) PROVE AnySection
  <2>1. ks[1] \in Keys /\ ks[2] \in Slots \cup {0}
    BY IndexKeys
  <2>2. CASE \E e : NoChange(e)
    BY <2>2, NoChangeQuiet DEF AnySection
  <2>3. CASE ks[2] # 0 /\ Insert(ks[1], ks[2])
    BY <2>1, <2>3 DEF AnySection
  <2>4. (\E e : NoChange(e)) \/ (ks[2] # 0 /\ Insert(ks[1], ks[2]))
    BY <1>2 DEF Put, LockBusy
  <2> QED BY <2>2, <2>3, <2>4
<1>3. ASSUME NEW t \in Threads, GrowForInsert(t) PROVE AnySection
  <2>1. \E e : NoChange(e)
    BY <1>3 DEF GrowForInsert, LockBusy
  <2> QED BY <2>1, NoChangeQuiet DEF AnySection
<1>4. ASSUME NEW t \in Threads, GrowRehash(t) PROVE AnySection
  <2>1. RehashTo(target[t], FALSE)
    BY <1>4 DEF GrowRehash
  <2> QED BY <2>1, RehashSection
<1>5. ASSUME NEW t \in Threads, InsertAfterGrow(t) PROVE AnySection
  <2>1. key[t] \in Keys /\ off[t] \in Slots
    BY <1>5 DEF InsertAfterGrow, Waiting
  <2>2. (\E e : NoChange(e)) \/ Insert(key[t], off[t])
    BY <1>5 DEF InsertAfterGrow, LockBusy
  <2>3. CASE \E e : NoChange(e)
    BY <2>3, NoChangeQuiet DEF AnySection
  <2>4. CASE Insert(key[t], off[t])
    BY <2>1, <2>4 DEF AnySection
  <2> QED BY <2>2, <2>3, <2>4
<1>6. ASSUME NEW t \in Threads, NEW k \in Keys, Remove(t, k) PROVE AnySection
  <2>1. CASE \E e : NoChange(e)
    BY <2>1, NoChangeQuiet DEF AnySection
  <2>2. CASE Found(table, k) /\ Drop(t, k)
    BY <2>2, DropSection DEF AnySection
  <2>3. (\E e : NoChange(e)) \/ (Found(table, k) /\ Drop(t, k))
    BY <1>6 DEF Remove, LockBusy
  <2> QED BY <2>1, <2>2, <2>3
<1>7. ASSUME NEW t \in Threads, NEW s \in Slots, RemoveBySlot(t, s) PROVE AnySection
  <2> DEFINE here == {p \in Occupied(table) : table[p].off = s}
             k == table[Min(here)].key
  <2>1. CASE \E e : NoChange(e)
    BY <2>1, NoChangeQuiet DEF AnySection
  <2>2. CASE here # {} /\ Drop(t, k)
    <3>1. k \in Keys /\ Found(table, k)
      BY <2>2, SlotEntry
    <3> HIDE DEF k
    <3> QED BY <2>2, <3>1, DropSection DEF AnySection
  <2>3. (\E e : NoChange(e)) \/ (here # {} /\ Drop(t, k))
    BY <1>7 DEF RemoveBySlot, LockBusy
  <2> QED BY <2>1, <2>2, <2>3
<1>8. ASSUME NEW t \in Threads, Clear(t) PROVE AnySection
  <2>1. CASE \E e : NoChange(e)
    BY <2>1, NoChangeQuiet DEF AnySection
  <2>2. CASE Cleared
    BY <2>2 DEF AnySection
  <2>3. (\E e : NoChange(e)) \/ Cleared
    BY <1>8 DEF Clear, LockBusy, Cleared
  <2> QED BY <2>1, <2>2, <2>3
<1>9. ASSUME NEW t \in Threads, AutoShrink(t) PROVE AnySection
  <2>1. RehashTo(target[t], TRUE)
    BY <1>9 DEF AutoShrink
  <2> QED BY <2>1, RehashSection
<1>10. ASSUME NEW t \in Threads, NEW c \in ManualCaps, Rehash(t, c) \/ Shrink(t, c) PROVE AnySection
  <2>1. RehashTo(c, FALSE) \/ RehashTo(c, TRUE)
    BY <1>10 DEF Rehash, Shrink
  <2> QED BY <2>1, RehashSection
<1> QED BY <1>1, <1>2, <1>3, <1>4, <1>5, <1>6, <1>7, <1>8, <1>9, <1>10 DEF Next

-----------------------------------------------------------------------------
(* The invariant is inductive.                                             *)

(* The sections keep the table good and the count exact.                   *)
LEMMA SectionKeeps ==
  ASSUME IndexInv, AnySection
  PROVE TableGood(table') /\ CountExact'
<1>1. TableGood(table) /\ CountExact
  BY DEF IndexInv
<1>2. CASE Quiet
  BY <1>1, <1>2 DEF Quiet, CountExact
<1>3. ASSUME NEW k \in Keys, NEW s \in Slots, Insert(k, s) PROVE TableGood(table') /\ CountExact'
  <2> DEFINE r == PutEntry(table, k, s)
  <2>1. /\ table' = r.table /\ counted' = counted
        /\ count' = IF r.err = "OK" /\ r.added THEN count + 1 ELSE count
    BY <1>3 DEF Insert
  <2>2. /\ TableGood(r.table) /\ Entries(table) \in Nat
        /\ Entries(r.table) = IF r.err = "OK" /\ r.added THEN Entries(table) + 1 ELSE Entries(table)
    BY <1>1, InsertGood
  <2> HIDE DEF r
  <2>3. ASSUME counted' PROVE count' = Entries(table')
    <3>1. count = Entries(table)
      BY <1>1, <2>1, <2>3 DEF CountExact
    <3> QED BY <2>1, <2>2, <3>1
  <2> QED BY <2>1, <2>2, <2>3 DEF CountExact
<1>4. ASSUME NEW k \in Keys, Dropped(k) PROVE TableGood(table') /\ CountExact'
  <2> DEFINE V == RemoveByHash(table, k)
  <2>1. /\ Found(table, k)
        /\ table' = V /\ counted' = counted
        /\ count' = IF count > 0 THEN count - 1 ELSE 0
    BY <1>4 DEF Dropped
  <2>2. TableGood(V) /\ Entries(V) \in Nat /\ Entries(table) = Entries(V) + 1
    BY <1>1, <2>1, RemoveGood
  <2> HIDE DEF V
  <2>3. ASSUME counted' PROVE count' = Entries(table')
    <3>1. count = Entries(V) + 1
      BY <1>1, <2>1, <2>2, <2>3 DEF CountExact
    <3>2. count > 0 /\ count - 1 = Entries(V)
      BY <2>2, <3>1
    <3> QED BY <2>1, <3>2
  <2> QED BY <2>1, <2>2, <2>3 DEF CountExact
<1>5. ASSUME NEW c \in Nat \ {0}, NEW shrinking, RehashMoves(c, shrinking)
      PROVE TableGood(table') /\ CountExact'
  <2> DEFINE r == Refill(table, c)
  <2>1. /\ table' = r.table /\ counted' = (r.err = "OK" /\ Entries(table) <= c)
        /\ count' \in IF r.err = "OK" THEN {Entries(table)} ELSE BoundCounts(c)
    BY <1>5 DEF RehashMoves
  <2>2. /\ TableGood(r.table)
        /\ r.err = "OK" /\ Entries(table) <= c => Entries(r.table) = Entries(table)
    BY <1>1, MoveGood
  <2> HIDE DEF r
  <2>3. ASSUME counted' PROVE count' = Entries(table')
    BY <2>1, <2>2, <2>3
  <2> QED BY <2>1, <2>2, <2>3 DEF CountExact
<1>6. CASE Cleared
  <2>1. Cap \in Nat /\ Cap # 0
    BY <1>1 DEF TableGood, Cap
  <2>2. table' = EmptyTable(Cap) /\ count' = 0
    BY <1>6 DEF Cleared
  <2>3. TableGood(EmptyTable(Cap)) /\ Entries(EmptyTable(Cap)) = 0
    BY <2>1, ClearGood
  <2>4. TableGood(table') /\ Entries(table') = 0
    BY <2>2, <2>3
  <2> QED BY <2>2, <2>4 DEF CountExact
<1> QED BY <1>2, <1>3, <1>4, <1>5, <1>6 DEF AnySection

(* A thread goes on, with arguments where it needs them.                   *)
LEMMA ContinueKeeps ==
  ASSUME Waiting, NEW t \in Threads, NEW label \in Labels, NEW k \in Keys \cup {0},
         NEW s \in Offs, NEW c, Continue(t, label, k, s, c),
         label \in {"grow", "rehash", "insert"} => k \in Keys /\ s \in Slots
  PROVE Waiting'
<1>1. /\ pc' = [pc EXCEPT ![t] = label] /\ key' = [key EXCEPT ![t] = k]
      /\ off' = [off EXCEPT ![t] = s]
  BY DEF Continue
<1>2. pc' \in [Threads -> Labels] /\ key' \in [Threads -> Keys \cup {0}] /\ off' \in [Threads -> Offs]
  BY <1>1 DEF Waiting
<1>3. ASSUME NEW u \in Threads, pc'[u] \in {"grow", "rehash", "insert"}
      PROVE key'[u] \in Keys /\ off'[u] \in Slots
  <2>1. CASE u = t
    BY <1>1, <1>3, <2>1 DEF Waiting
  <2>2. CASE u # t
    BY <1>1, <1>3, <2>2 DEF Waiting
  <2> QED BY <2>1, <2>2
<1> QED BY <1>2, <1>3 DEF Waiting

(* A call returns.                                                         *)
LEMMA ReturnKeeps ==
  ASSUME Waiting, NEW t \in Threads, Return(t)
  PROVE Waiting'
<1>1. Continue(t, "idle", 0, 0, 0) /\ "idle" \in Labels /\ 0 \in Keys \cup {0} /\ 0 \in Offs
  BY DEF Return, Labels, Offs
<1>2. "idle" \notin {"grow", "rehash", "insert"}
  OBVIOUS
<1> QED BY <1>1, <1>2, ContinueKeeps

(* A removal goes on to shrink the table, or returns.                      *)
LEMMA DropKeeps ==
  ASSUME Waiting, NEW t \in Threads, NEW k \in Keys, Drop(t, k)
  PROVE Waiting'
<1>1. Return(t) \/ \E c : Continue(t, "shrink", 0, 0, c)
  BY DEF Drop
<1>2. "shrink" \in Labels /\ 0 \in Keys \cup {0} /\ 0 \in Offs
  BY DEF Labels, Offs
<1>3. CASE \E c : Continue(t, "shrink", 0, 0, c)
  BY <1>2, <1>3, ContinueKeeps
<1> QED BY <1>1, <1>3, ReturnKeeps

(* What a put carries from section to section.                             *)
LEMMA WaitingKept ==
  ASSUME IndexInv, Next
  PROVE Waiting'
<1>1. TableGood(table) /\ Waiting
  BY DEF IndexInv
<1>2. Labels = {"idle", "grow", "rehash", "insert", "shrink", "clear_shrink"}
      /\ 0 \in Keys \cup {0} /\ 0 \in Offs
  BY DEF Labels, Offs
<1>3. CASE Reopen
  BY <1>1, <1>3 DEF Reopen, callVars, Waiting
<1>4. ASSUME NEW t \in Threads, NEW ks \in Pairs, Put(t, ks[1], ks[2]) PROVE Waiting'
  <2>1. ks[1] \in Keys /\ ks[2] \in Slots \cup {0}
    BY IndexKeys
  <2>2. Return(t) \/ (ks[2] # 0 /\ Continue(t, "grow", ks[1], ks[2], 0))
    BY <1>4 DEF Put, LockBusy
  <2>3. CASE ks[2] # 0 /\ Continue(t, "grow", ks[1], ks[2], 0)
    <3>1. ks[2] \in Slots /\ ks[2] \in Offs /\ ks[1] \in Keys \cup {0} /\ "grow" \in Labels
      BY <1>2, <2>1, <2>3 DEF Offs
    <3> QED BY <1>1, <2>1, <2>3, <3>1, ContinueKeeps
  <2> QED BY <1>1, <2>2, <2>3, ReturnKeeps
<1>5. ASSUME NEW t \in Threads, NEW label \in {"rehash", "insert"}, NEW c,
             pc[t] \in {"grow", "rehash", "insert"},
             Continue(t, label, key[t], off[t], c)
      PROVE Waiting'
  <2>1. key[t] \in Keys /\ off[t] \in Slots
    BY <1>1, <1>5 DEF Waiting
  <2>2. key[t] \in Keys \cup {0} /\ off[t] \in Offs /\ label \in Labels
    BY <1>2, <2>1 DEF Offs
  <2> QED BY <1>1, <1>5, <2>1, <2>2, ContinueKeeps
<1>6. ASSUME NEW t \in Threads, GrowForInsert(t) PROVE Waiting'
  <2>1. pc[t] = "grow" /\ (Return(t) \/ \E c : Continue(t, "rehash", key[t], off[t], c))
    BY <1>6 DEF GrowForInsert, LockBusy
  <2> QED BY <1>1, <1>5, <2>1, ReturnKeeps
<1>7. ASSUME NEW t \in Threads, GrowRehash(t) PROVE Waiting'
  <2>1. pc[t] = "rehash" /\ (Return(t) \/ Continue(t, "insert", key[t], off[t], 0))
    BY <1>7 DEF GrowRehash
  <2> QED BY <1>1, <1>5, <2>1, ReturnKeeps
<1>8. ASSUME NEW t \in Threads, InsertAfterGrow(t) PROVE Waiting'
  <2>1. Return(t)
    BY <1>8 DEF InsertAfterGrow, LockBusy
  <2> QED BY <1>1, <2>1, ReturnKeeps
<1>9. ASSUME NEW t \in Threads, NEW k \in Keys, Remove(t, k) PROVE Waiting'
  <2>1. Return(t) \/ Drop(t, k)
    BY <1>9 DEF Remove, LockBusy
  <2> QED BY <1>1, <2>1, ReturnKeeps, DropKeeps
<1>10. ASSUME NEW t \in Threads, NEW s \in Slots, RemoveBySlot(t, s) PROVE Waiting'
  <2> DEFINE here == {p \in Occupied(table) : table[p].off = s}
             k == table[Min(here)].key
  <2>1. \/ Return(t) \/ (here # {} /\ Drop(t, k))
        \/ \E c : Continue(t, "shrink", 0, 0, c)
    BY <1>10 DEF RemoveBySlot, LockBusy
  <2>2. CASE here # {} /\ Drop(t, k)
    <3>1. k \in Keys
      BY <1>1, <2>2, SlotEntry
    <3> HIDE DEF k
    <3> QED BY <1>1, <2>2, <3>1, DropKeeps
  <2>3. CASE \E c : Continue(t, "shrink", 0, 0, c)
    <3>1. "shrink" \in Labels
      BY <1>2
    <3> QED BY <1>1, <1>2, <2>3, <3>1, ContinueKeeps
  <2> QED BY <1>1, <2>1, <2>2, <2>3, ReturnKeeps
<1>11. ASSUME NEW t \in Threads, Clear(t) PROVE Waiting'
  <2>1. Return(t) \/ \E c : Continue(t, "clear_shrink", 0, 0, c)
    BY <1>11 DEF Clear, LockBusy
  <2>2. CASE \E c : Continue(t, "clear_shrink", 0, 0, c)
    <3>1. "clear_shrink" \in Labels
      BY <1>2
    <3> QED BY <1>1, <1>2, <2>2, <3>1, ContinueKeeps
  <2> QED BY <1>1, <2>1, <2>2, ReturnKeeps
<1>12. ASSUME NEW t \in Threads, AutoShrink(t) PROVE Waiting'
  BY <1>1, <1>12, ReturnKeeps DEF AutoShrink
<1>13. ASSUME NEW t \in Threads, NEW c \in ManualCaps, Rehash(t, c) \/ Shrink(t, c) PROVE Waiting'
  BY <1>1, <1>13, ReturnKeeps DEF Rehash, Shrink
<1> QED BY <1>3, <1>4, <1>6, <1>7, <1>8, <1>9, <1>10, <1>11, <1>12, <1>13 DEF Next

(* The invariant holds at the start.                                       *)
LEMMA IndexInit ==
  ASSUME Init
  PROVE IndexInv
<1>1. HashMin \in Nat /\ HashMin # 0
  BY IndexSizes
<1>2. TableGood(EmptyTable(HashMin)) /\ Entries(EmptyTable(HashMin)) = 0
  BY <1>1, ClearGood
<1>3. TableGood(table) /\ CountExact
  BY <1>2 DEF Init, CountExact
<1>4. Waiting
  BY DEF Init, Waiting, Labels, Offs
<1> QED BY <1>3, <1>4 DEF IndexInv

(* Every step keeps it.                                                    *)
LEMMA IndexStep ==
  ASSUME IndexInv, [Next]_vars
  PROVE IndexInv'
<1>1. CASE Next
  <2>1. AnySection
    BY <1>1, StepSection
  <2>2. TableGood(table') /\ CountExact'
    BY <2>1, SectionKeeps
  <2>3. Waiting'
    BY <1>1, WaitingKept
  <2> QED BY <2>2, <2>3 DEF IndexInv, TableGood
<1>2. CASE UNCHANGED vars
  BY <1>2 DEF IndexInv, vars, callVars, TableGood, Waiting, CountExact
<1> QED BY <1>1, <1>2

(* It is an invariant.                                                     *)
LEMMA IndexAlways == Spec => []IndexInv
BY IndexInit, IndexStep, PTL DEF Spec

(* Every entry is where a lookup of its key arrives, whatever sections the *)
(* threads have executed in whatever order: EveryEntryFound of EfIndex,    *)
(* about ef_index_put_entry, ef_index_remove_by_hash, ef_index_rehash_to.  *)
THEOREM EntriesAreFound == Spec => []EveryEntryFound
<1>1. IndexInv => EveryEntryFound
  <2> SUFFICES ASSUME IndexInv, NEW p \in Occupied(table)
               PROVE FindPos(table, table[p].key) = p
    BY DEF EveryEntryFound
  <2> DEFINE c == Capacity(table)
  <2>1. c \in Nat /\ c # 0 /\ table \in Tables(c, Offs) /\ Sound(c, table)
    BY DEF IndexInv, TableGood
  <2>2. p \in 0..(c - 1) /\ Occ(table, p)
    BY <2>1, EntriesIs
  <2> HIDE DEF c
  <2> QED BY <2>1, <2>2, SoundFinds
<1> QED BY <1>1, IndexAlways, PTL

(* hash_entry_count is the number of entries as long as it was not taken   *)
(* over from where it is known to be wrong: CountExact of EfIndex.         *)
THEOREM CountIsExact == Spec => []CountExact
<1>1. IndexInv => CountExact
  BY DEF IndexInv
<1> QED BY <1>1, IndexAlways, PTL

-----------------------------------------------------------------------------
(* The table as a map.                                                     *)
MapOf(T) == [k \in Keys |-> Find(T, k).off]

(* A key has the slot of its entry, and 0 if it has none.                  *)
LEMMA MapAt ==
  ASSUME NEW T, TableGood(T), NEW k \in Keys
  PROVE LET c == Capacity(T) IN
        /\ \A e : In(c, T, e) /\ e.key = k => MapOf(T)[k] = e.off /\ e.off # 0
        /\ (\A e : In(c, T, e) => e.key # k) => MapOf(T)[k] = 0
        /\ MapOf(T)[k] # 0 => \E e : In(c, T, e) /\ e.key = k
<1> DEFINE c == Capacity(T)
<1>1. c \in Nat /\ c # 0 /\ T \in Tables(c, Offs) /\ Sound(c, T) /\ k \in Nat
  BY KeyIsNat DEF TableGood
<1>2. MapOf(T)[k] = Find(T, k).off
  BY DEF MapOf
<1> HIDE DEF c
<1>3. ASSUME NEW e, In(c, T, e), e.key = k PROVE MapOf(T)[k] = e.off /\ e.off # 0
  <2>1. Find(T, k) = e
    BY <1>1, <1>3, FindIn
  <2>2. e.off # 0
    BY <1>3 DEF In, Occ
  <2> QED BY <1>2, <2>1, <2>2
<1>4. ASSUME \A e : In(c, T, e) => e.key # k PROVE MapOf(T)[k] = 0
  BY <1>1, <1>2, <1>4, FindIn
<1>5. ASSUME MapOf(T)[k] # 0 PROVE \E e : In(c, T, e) /\ e.key = k
  BY <1>4, <1>5
<1> QED BY <1>3, <1>4, <1>5 DEF c

(* Tables with the same entries of a key agree on it.                      *)
LEMMA MapSame ==
  ASSUME NEW T, TableGood(T), NEW V, TableGood(V), NEW k \in Keys,
         \A e : e.key = k => (In(Capacity(V), V, e) <=> In(Capacity(T), T, e))
  PROVE MapOf(V)[k] = MapOf(T)[k]
<1>1. CASE \E e : In(Capacity(T), T, e) /\ e.key = k
  <2>1. PICK e : In(Capacity(T), T, e) /\ e.key = k
    BY <1>1
  <2>2. In(Capacity(V), V, e)
    BY <2>1
  <2> QED BY <2>1, <2>2, MapAt
<1>2. CASE \A e : In(Capacity(T), T, e) => e.key # k
  <2>1. \A e : In(Capacity(V), V, e) => e.key # k
    BY <1>2
  <2> QED BY <1>2, <2>1, MapAt
<1> QED BY <1>1, <1>2

(* An entry more, for a key that had none.                                 *)
LEMMA MapAdded ==
  ASSUME NEW T, TableGood(T), NEW V, TableGood(V), Capacity(V) = Capacity(T),
         NEW k \in Keys, NEW s, PutAdded(Capacity(T), T, k, s, V)
  PROVE MapOf(V) = [MapOf(T) EXCEPT ![k] = s]
<1> DEFINE c == Capacity(T)
<1>1. \A e : In(c, V, e) <=> In(c, T, e) \/ e = Cell(k, s)
  BY DEF PutAdded
<1>2. Cell(k, s).key = k /\ Cell(k, s).off = s
  BY DEF Cell
<1>3. MapOf(V)[k] = s
  BY <1>1, <1>2, MapAt
<1>4. ASSUME NEW q \in Keys, q # k PROVE MapOf(V)[q] = MapOf(T)[q]
  <2>1. \A e : e.key = q => (In(Capacity(V), V, e) <=> In(Capacity(T), T, e))
    BY <1>1, <1>2, <1>4
  <2> QED BY <2>1, MapSame
<1>5. DOMAIN MapOf(V) = Keys /\ DOMAIN MapOf(T) = Keys
      /\ MapOf(V) = [q \in Keys |-> MapOf(V)[q]]
  BY DEF MapOf
<1> QED BY <1>3, <1>4, <1>5

(* The entry of a key gets another slot.                                   *)
LEMMA MapReplaced ==
  ASSUME NEW T, TableGood(T), NEW V, TableGood(V), Capacity(V) = Capacity(T),
         NEW k \in Keys, NEW s, NEW p \in 0..(Capacity(T) - 1), s # 0,
         Occ(T, p), T[p].key = k, V[p] = Cell(k, s),
         \A q \in 0..(Capacity(T) - 1) : q # p => V[q] = T[q]
  PROVE MapOf(V) = [MapOf(T) EXCEPT ![k] = s]
<1> DEFINE c == Capacity(T)
<1>1. Cell(k, s).key = k /\ Cell(k, s).off = s
  BY DEF Cell
<1>3. V[p] = Cell(k, s) /\ \A q \in 0..(c - 1) : q # p => V[q] = T[q]
  OBVIOUS
<1>4. In(c, V, Cell(k, s))
  BY <1>1, <1>3 DEF In, Occ
<1>5. MapOf(V)[k] = s
  BY <1>1, <1>4, MapAt
<1>6. ASSUME NEW j \in Keys, j # k PROVE MapOf(V)[j] = MapOf(T)[j]
  <2>1. ASSUME NEW e, e.key = j PROVE In(c, V, e) <=> In(c, T, e)
    <3>1. \A q \in 0..(c - 1) : V[q] = e \/ T[q] = e => q # p
      BY <1>1, <1>3, <1>6, <2>1
    <3> QED BY <1>3, <3>1 DEF In, Occ
  <2> QED BY <2>1, MapSame
<1>7. DOMAIN MapOf(T) = Keys /\ MapOf(V) = [q \in Keys |-> MapOf(V)[q]]
  BY DEF MapOf
<1> QED BY <1>5, <1>6, <1>7

(* An entry less.                                                          *)
LEMMA MapRemoved ==
  ASSUME NEW T, TableGood(T), NEW V, TableGood(V), Capacity(V) = Capacity(T),
         NEW k \in Keys, NEW x, x.key = k, In(Capacity(T), T, x),
         \A e : In(Capacity(T), V, e) <=> In(Capacity(T), T, e) /\ e # x
  PROVE MapOf(T)[k] # 0 /\ MapOf(V) = [MapOf(T) EXCEPT ![k] = 0]
<1>1. MapOf(T)[k] = x.off /\ x.off # 0
  BY MapAt
<1>2. \A e : In(Capacity(V), V, e) => e.key # k
  <2>1. SUFFICES ASSUME NEW e, In(Capacity(T), V, e), e.key = k PROVE FALSE
    OBVIOUS
  <2>2. In(Capacity(T), T, e) /\ e # x
    BY <2>1
  <2>3. PICK p \in 0..(Capacity(T) - 1) : Occ(T, p) /\ T[p] = e
    BY <2>2 DEF In
  <2>4. PICK q \in 0..(Capacity(T) - 1) : Occ(T, q) /\ T[q] = x
    BY DEF In
  <2>5. p = q
    BY <2>1, <2>3, <2>4 DEF TableGood, Sound, Distinct
  <2> QED BY <2>2, <2>3, <2>4, <2>5
<1>3. MapOf(V)[k] = 0
  BY <1>2, MapAt
<1>4. ASSUME NEW j \in Keys, j # k PROVE MapOf(V)[j] = MapOf(T)[j]
  <2>1. \A e : e.key = j => (In(Capacity(V), V, e) <=> In(Capacity(T), T, e))
    BY <1>4
  <2> QED BY <2>1, MapSame
<1>5. DOMAIN MapOf(T) = Keys /\ MapOf(V) = [q \in Keys |-> MapOf(V)[q]]
  BY DEF MapOf
<1> QED BY <1>1, <1>3, <1>4, <1>5

(* A put that gives up has changed nothing, or put the key in the place of *)
(* another one.                                                            *)
LEMMA MapFull ==
  ASSUME NEW T, TableGood(T), NEW V, TableGood(V), Capacity(V) = Capacity(T),
         NEW k \in Keys, NEW s, PutFull(Capacity(T), T, k, s, V)
  PROVE /\ MapOf(T)[k] = 0
        /\ \/ MapOf(V) = MapOf(T)
           \/ \E victim \in Keys \ {k} :
                MapOf(T)[victim] # 0 /\ MapOf(V) = [MapOf(T) EXCEPT ![k] = s, ![victim] = 0]
<1> DEFINE c == Capacity(T)
<1>1. MapOf(T)[k] = 0
  <2>1. \A e : In(c, T, e) => e.key # k
    BY DEF PutFull, NoKey, In
  <2> QED BY <2>1, MapAt
<1>2. CASE V = T
  BY <1>1, <1>2
<1>3. CASE \E x : /\ In(c, T, x) /\ x.key # k /\ NoKey(c, V, x.key)
                  /\ \A e : (In(c, V, e) \/ e = x) <=> (In(c, T, e) \/ e = Cell(k, s))
  <2>1. PICK x : /\ In(c, T, x) /\ x.key # k /\ NoKey(c, V, x.key)
                 /\ \A e : (In(c, V, e) \/ e = x) <=> (In(c, T, e) \/ e = Cell(k, s))
    BY <1>3
  <2> DEFINE v == x.key
  <2>2. v \in Keys
    BY <2>1, KeysIn DEF TableGood
  <2>3. Cell(k, s).key = k /\ Cell(k, s).off = s
    BY DEF Cell
  <2>4. MapOf(T)[v] # 0
    BY <2>1, <2>2, MapAt
  <2>5. MapOf(V)[v] = 0
    <3>1. \A e : In(Capacity(V), V, e) => e.key # v
      BY <2>1 DEF NoKey, In
    <3> QED BY <2>2, <3>1, MapAt
  <2>6. MapOf(V)[k] = s
    <3>1. In(c, V, Cell(k, s))
      BY <2>1, <2>3
    <3> QED BY <2>3, <3>1, MapAt
  <2>7. ASSUME NEW j \in Keys, j # k, j # v PROVE MapOf(V)[j] = MapOf(T)[j]
    <3>1. \A e : e.key = j => (In(Capacity(V), V, e) <=> In(Capacity(T), T, e))
      BY <2>1, <2>3, <2>7
    <3> QED BY <3>1, MapSame
  <2>8. DOMAIN MapOf(T) = Keys /\ MapOf(V) = [q \in Keys |-> MapOf(V)[q]]
    BY DEF MapOf
  <2>9. v # k
    BY <2>1
  <2> HIDE DEF v
  <2>10. MapOf(V) = [MapOf(T) EXCEPT ![k] = s, ![v] = 0]
    BY <2>2, <2>5, <2>6, <2>7, <2>8, <2>9
  <2> QED BY <1>1, <2>2, <2>4, <2>9, <2>10
<1> QED BY <1>2, <1>3 DEF PutFull

(* The steps, seen through lookups.                                        *)
LEMMA MapStep ==
  ASSUME IndexInv, AnySection, HasRoom
  PROVE Map!MapNext
<1>1. TableGood(table)
  BY DEF IndexInv
<1> DEFINE M == MapOf(table)
           N == MapOf(table')
<1>2. CASE Quiet
  BY <1>2 DEF Quiet, Map!MapNext, Map!Refused
<1>3. ASSUME NEW k \in Keys, NEW s \in Slots, Insert(k, s) PROVE Map!MapNext
  <2> DEFINE r == PutEntry(table, k, s)
             V == r.table
  <2>1. table' = V /\ last' = Section("put", k, s, r.err)
    BY <1>3 DEF Insert
  <2>2. TableGood(V) /\ Capacity(V) = Cap /\ PutDone(Cap, table, k, s, r)
    BY <1>1, InsertGood DEF Cap
  <2>3. s # 0
    BY IndexKeys
  <2> HIDE DEF r
  <2>4. CASE r.err = "OK" /\ PutAdded(Cap, table, k, s, V)
    <3>1. MapOf(V) = [MapOf(table) EXCEPT ![k] = s]
      BY <1>1, <2>2, <2>4, MapAdded DEF Cap
    <3> QED BY <2>1, <2>4, <3>1 DEF Map!MapNext, Map!Set, Map!Section, Section, MapOf
  <2>5. CASE r.err = "OK" /\ PutReplaced(Cap, table, k, s, V)
    <3>1. Cap \in Nat /\ Cap # 0 /\ table \in Tables(Cap, Offs)
      BY <1>1 DEF TableGood, Cap
    <3>2. (\E f \in 0..(Cap - 1) : ~Occ(table, f)) \/ ~NoKey(Cap, table, k)
      <4>1. Entries(table) < Cap \/ Found(table, k)
        BY <2>1 DEF HasRoom, Section
      <4>2. k \in Nat /\ DOMAIN table = 0..(Cap - 1)
        BY <3>1, KeyIsNat DEF Tables
      <4>3. Found(table, k) => ~NoKey(Cap, table, k)
        BY <3>1, <4>2, FoundIs DEF NoKey
      <4> QED BY <3>1, <4>1, <4>3, EntriesIs
    <3>3. PICK p \in 0..(Cap - 1) : /\ Occ(table, p) /\ table[p].key = k
                                    /\ V = [table EXCEPT ![p] = Cell(k, s)]
      BY <2>5, <3>2 DEF PutReplaced
    <3>5. p \in 0..(Capacity(table) - 1) /\ Capacity(V) = Capacity(table)
      BY <2>2, <3>3 DEF Cap
    <3>6. V[p] = Cell(k, s) /\ \A q \in 0..(Capacity(table) - 1) : q # p => V[q] = table[q]
      BY <3>1, <3>3 DEF Cap, Tables
    <3>7. TableGood(V) /\ Occ(table, p) /\ table[p].key = k
      BY <2>2, <3>3
    <3> HIDE DEF V
    <3>4. MapOf(V) = [MapOf(table) EXCEPT ![k] = s]
      BY <1>1, <2>3, <3>5, <3>6, <3>7, MapReplaced
    <3> QED BY <2>1, <2>5, <3>4 DEF Map!MapNext, Map!Set, Map!Section, Section, MapOf
  <2>6. CASE r.err = "INDEX_FULL" /\ PutFull(Cap, table, k, s, V)
    <3>1. /\ MapOf(table)[k] = 0
          /\ \/ MapOf(V) = MapOf(table)
             \/ \E victim \in Keys \ {k} :
                  /\ MapOf(table)[victim] # 0
                  /\ MapOf(V) = [MapOf(table) EXCEPT ![k] = s, ![victim] = 0]
      BY <1>1, <2>2, <2>6, MapFull DEF Cap
    <3>2. Map!SetFails(k, s)
      BY <2>1, <2>6, <3>1 DEF Map!SetFails, Map!Section, Section, MapOf
    <3> QED BY <3>2 DEF Map!MapNext
  <2> QED BY <2>2, <2>4, <2>5, <2>6 DEF PutDone
<1>4. ASSUME NEW k \in Keys, Dropped(k) PROVE Map!MapNext
  <2> DEFINE V == RemoveByHash(table, k)
             x == Find(table, k)
  <2>1. /\ table' = V /\ last' = Section("remove", k, 0, "OK")
        /\ Found(table, k)
    BY <1>4 DEF Dropped
  <2>2. /\ TableGood(V) /\ Capacity(V) = Capacity(table)
        /\ In(Capacity(table), table, x) /\ x.key = k
        /\ \A e : In(Capacity(table), V, e) <=> In(Capacity(table), table, e) /\ e # x
    BY <1>1, <2>1, RemoveGood
  <2> HIDE DEF V, x
  <2>3. MapOf(table)[k] # 0 /\ MapOf(V) = [MapOf(table) EXCEPT ![k] = 0]
    BY <1>1, <2>2, MapRemoved
  <2>4. Map!Unset(k)
    BY <2>1, <2>3 DEF Map!Unset, Map!Section, Section, MapOf
  <2> QED BY <2>4 DEF Map!MapNext
<1>5. ASSUME NEW c \in Nat \ {0}, NEW shrinking, RehashMoves(c, shrinking) PROVE Map!MapNext
  <2> DEFINE r == Refill(table, c)
             V == r.table
  <2>1. table' = V /\ last' = Section("rehash", 0, 0, r.err)
    BY <1>5 DEF RehashMoves
  <2>2. /\ TableGood(V) /\ Capacity(V) = c /\ r.err \in {"OK", "INDEX_FULL"}
        /\ \A e : In(Capacity(V), V, e) => In(Capacity(table), table, e)
        /\ r.err = "OK" /\ Entries(table) <= c =>
             \A e : In(Capacity(table), table, e) => In(Capacity(V), V, e)
    BY <1>1, MoveGood
  <2> HIDE DEF r
  <2>3. CASE r.err = "OK"
    <3>1. Entries(table) <= c
      BY <2>1, <2>2, <2>3 DEF HasRoom, Section, Cap
    <3>2. \A k \in Keys : MapOf(V)[k] = MapOf(table)[k]
      BY <1>1, <2>2, <2>3, <3>1, MapSame
    <3>3. MapOf(V) = MapOf(table)
      BY <3>2 DEF MapOf
    <3>4. Map!Moves
      BY <2>1, <2>3, <3>3 DEF Map!Moves, Map!Section, Section, MapOf
    <3> QED BY <3>4 DEF Map!MapNext
  <2>4. CASE r.err = "INDEX_FULL"
    <3>1. ASSUME NEW k \in Keys PROVE MapOf(V)[k] \in {MapOf(table)[k], 0}
      <4>1. CASE MapOf(V)[k] # 0
        <5>1. PICK e : In(Capacity(V), V, e) /\ e.key = k
          BY <2>2, <4>1, MapAt
        <5>2. MapOf(V)[k] = e.off
          BY <2>2, <5>1, MapAt
        <5>3. MapOf(table)[k] = e.off
          BY <1>1, <2>2, <5>1, MapAt
        <5> QED BY <5>2, <5>3
      <4> QED BY <4>1
    <3>2. Map!MoveFails
      BY <2>1, <2>4, <3>1 DEF Map!MoveFails, Map!Section, Section, MapOf
    <3> QED BY <3>2 DEF Map!MapNext
  <2> QED BY <2>2, <2>3, <2>4
<1>6. CASE Cleared
  <2>1. Cap \in Nat /\ Cap # 0
    BY <1>1 DEF TableGood, Cap
  <2> DEFINE V == EmptyTable(Cap)
  <2>2. table' = V /\ last' = Section("clear", 0, 0, "OK")
    BY <1>6 DEF Cleared
  <2>3. TableGood(V) /\ Capacity(V) = Cap /\ \A e : ~In(Cap, V, e)
    BY <2>1, ClearGood
  <2> HIDE DEF V
  <2>4. \A k \in Keys : MapOf(V)[k] = 0
    BY <2>3, MapAt
  <2>5. Map!Empties
    BY <2>2, <2>4 DEF Map!Empties, Map!Section, Section, MapOf
  <2> QED BY <2>5 DEF Map!MapNext
<1> QED BY <1>2, <1>3, <1>4, <1>5, <1>6 DEF AnySection

(* The empty table is the empty map.                                       *)
LEMMA MapStart ==
  ASSUME Init
  PROVE Map!MapInit
<1>1. HashMin \in Nat /\ HashMin # 0
  BY IndexSizes
<1> DEFINE V == EmptyTable(HashMin)
<1>2. TableGood(V) /\ Capacity(V) = HashMin /\ \A e : ~In(HashMin, V, e)
  BY <1>1, ClearGood
<1>3. table = V /\ last = Section("none", 0, 0, "OK")
  BY DEF Init
<1> HIDE DEF V
<1>4. \A k \in Keys : MapOf(V)[k] = 0
  BY <1>2, MapAt
<1> QED BY <1>3, <1>4 DEF Map!MapInit, Map!Section, Section, MapOf

(* The index implements the map: every section of every thread, through    *)
(* lookups, is a step of EfMap (ImplementsMap of EfIndex, about            *)
(* ef_index_put, ef_index_remove, ef_index_rehash_to and ef_index_clear).  *)
THEOREM IndexIsMap == Spec => ImplementsMap
<1>1. Init => Map!MapInit
  BY MapStart
<1>2. IndexInv /\ [Next]_vars =>
        [HasRoom => Map!MapNext]_<<table, last>>
  <2>1. CASE UNCHANGED vars
    BY <2>1 DEF vars
  <2>2. ASSUME IndexInv, Next, HasRoom
        PROVE Map!MapNext
    BY <2>2, StepSection, MapStep
  <2> QED BY <2>1, <2>2
<1> QED BY <1>1, <1>2, IndexAlways, PTL DEF Spec, ImplementsMap
=============================================================================
