---------------------------- MODULE EfHashTable ----------------------------
(***************************************************************************)
(* The Robin Hood table of src/src/ef_index.c as operators on its value: a *)
(* table of capacity c is a function from 0..c-1 to entries.  A key is its *)
(* 64-bit hash, a positive number (ef_key_hash never returns 0), so that   *)
(* the numbers chosen for a model decide which keys collide.  Slots stand  *)
(* for their offsets; 0 is the offset no slot has.                         *)
(***************************************************************************)
EXTENDS Integers, FiniteSets, Sequences

LOCAL INSTANCE FiniteSetsExt    \* Min

Empty == [key |-> 0, off |-> 0]
EmptyTable(c) == [p \in 0..(c - 1) |-> Empty]
Capacity(T) == Cardinality(DOMAIN T)

(* The positions that are occupied, and their number.                      *)
Occupied(T) == {p \in DOMAIN T : T[p].off # 0}
Entries(T) == Cardinality(Occupied(T))

Home(c, k) == k % c
ProbeDist(c, home, pos) == (pos + c - home) % c

-----------------------------------------------------------------------------
(* One turn of the loop of ef_index_put_entry, with loop variable i.       *)
PutStep(k, s, st, i) ==
  LET c == Capacity(st.table)
      pos == i % c
      cur == st.table[pos] IN
  IF st.err # "LOOP" THEN st
  ELSE IF i >= st.home + c THEN [st EXCEPT !.err = "INDEX_FULL"]
  ELSE IF cur.off = 0
    THEN [st EXCEPT !.table[pos] = st.incoming, !.added = TRUE, !.err = "OK"]
  ELSE IF cur.key = k
    THEN [st EXCEPT !.table[pos] = [key |-> k, off |-> s], !.err = "OK"]
  ELSE IF ProbeDist(c, st.home, pos) > ProbeDist(c, Home(c, cur.key), pos)
    THEN [st EXCEPT !.table[pos] = st.incoming, !.incoming = cur, !.home = Home(c, cur.key)]
  ELSE st

(* The variables of ef_index_put_entry before the loop.                    *)
PutStart(T, k, s) ==
  [table |-> T, incoming |-> [key |-> k, off |-> s], home |-> Home(Capacity(T), k),
   added |-> FALSE, err |-> "LOOP"]

(* ef_index_put_entry: the loop starts at the home of k and runs to home + *)
(* capacity, where home moves to that of the entry being displaced; it     *)
(* takes fewer than 2 capacity turns.                                      *)
PutEntry(T, k, s) ==
  LET c == Capacity(T)
      turn[n \in 0..(2 * c)] ==
        IF n = 0 THEN PutStart(T, k, s)
        ELSE PutStep(k, s, turn[n - 1], Home(c, k) + n - 1) IN
  turn[2 * c]

(* ef_index_find_entry_unlocked: the first position from home on that is   *)
(* empty or holds the key; Empty stands for EF_ERR_NOT_FOUND.              *)
FindPos(T, k) ==
  LET c == Capacity(T)
      stops == {d \in 0..(c - 1) : T[(Home(c, k) + d) % c].off = 0 \/ T[(Home(c, k) + d) % c].key = k} IN
  IF stops = {} THEN -1 ELSE (Home(c, k) + Min(stops)) % c

Find(T, k) ==
  LET p == FindPos(T, k) IN IF p = -1 THEN Empty ELSE T[p]

Found(T, k) == Find(T, k).off # 0

(* One turn of the loop of ef_index_remove_by_hash that closes the gap at  *)
(* hole: the entry behind it moves into it, unless there is none or it is  *)
(* at home; then the position is cleared, and the loop is done.            *)
ShiftStep(st) ==
  LET c == Capacity(st.table)
      pos == (st.hole + 1) % c
      next == st.table[pos] IN
  IF st.done THEN st
  ELSE IF next.off = 0 \/ ProbeDist(c, Home(c, next.key), pos) = 0
    THEN [st EXCEPT !.table[st.hole] = Empty, !.done = TRUE]
  ELSE [st EXCEPT !.table[st.hole] = next, !.hole = pos]

(* The loop when it has found the entry to remove, at position p.          *)
ShiftStart(T, p) == [table |-> T, hole |-> p, done |-> FALSE]

(* Mutant: the loop is bounded by the capacity, like that of a lookup.     *)
BackShiftOnce(T, p) ==
  LET c == Capacity(T)
      turn[n \in 0..c] == IF n = 0 THEN ShiftStart(T, p) ELSE ShiftStep(turn[n - 1]) IN
  turn[c].table

(* The loop.  In a full table with no entry at home it goes round, over    *)
(* entries it has moved before, until one of them has come home; that      *)
(* takes at most as many rounds as there are positions.                    *)
BackShift(T, p) ==
  LET c == Capacity(T)
      turn[n \in 0..(c * c)] == IF n = 0 THEN ShiftStart(T, p) ELSE ShiftStep(turn[n - 1]) IN
  turn[c * c].table

(* ef_index_remove_by_hash; T itself for EF_ERR_NOT_FOUND.                  *)
RemoveByHash(T, k) == IF Found(T, k) THEN BackShift(T, FindPos(T, k)) ELSE T

(* Mutant: the last entry is not copied.                                   *)
BackupOneShort(T) ==
  SubSeq([i \in 1..Entries(T) |->
            T[CHOOSE p \in Occupied(T) : Cardinality({q \in Occupied(T) : q < p}) = i - 1]],
         1, Entries(T) - 1)

(* ef_index_rehash_to: the copy of the entries, in the order of their      *)
(* positions, and the new table filled with them, up to the first that     *)
(* does not fit.                                                           *)
Backup(T) ==
  [i \in 1..Entries(T) |->
     T[CHOOSE p \in Occupied(T) : Cardinality({q \in Occupied(T) : q < p}) = i - 1]]

Refill(T, c) ==
  LET old == Backup(T)
      filled[n \in 0..Len(old)] ==
        IF n = 0 THEN [table |-> EmptyTable(c), err |-> "OK"]
        ELSE LET st == filled[n - 1]
                 r == PutEntry(st.table, old[n].key, old[n].off) IN
             IF st.err # "OK" THEN st ELSE [table |-> r.table, err |-> r.err] IN
  filled[Len(old)]

-----------------------------------------------------------------------------
(* ef_index_needs_grow: would one more entry exceed 3/4 of the capacity?   *)
NeedsGrow(count, c) == (count + 1) * 4 > c * 3

=============================================================================
