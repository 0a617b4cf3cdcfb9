------------------------------ MODULE EfIndex ------------------------------
(***************************************************************************)
(* The writers of the index, src/src/ef_index.c: put, remove, remove by    *)
(* slot, rehash, shrink and clear, called by several threads through one   *)
(* handle of a schema 5 database, outside a transaction.  A step is one    *)
(* critical section of the index write lock; the calls that leave the lock *)
(* and take it again (a put that grows the table, a removal that shrinks   *)
(* it) are several steps, and what they carry across the gap can be stale. *)
(* Readers, which take no lock, are the subject of EfSeqlock.              *)
(*                                                                         *)
(* A rehash moves the slots and adjusts every stored offset; here an entry *)
(* holds the slot itself, so that nothing is left to adjust.               *)
(***************************************************************************)
EXTENDS EfHashTable

LOCAL INSTANCE FiniteSetsExt    \* Min

CONSTANTS
  Threads,        \* callers of the API
  Keys,           \* the hashes of the keys, positive numbers
  Slots,          \* the slots of the file
  Pairs,          \* the <<key, slot>> pairs callers pass to ef_index_put; no slot is 0
  HashMin,        \* EF_DEFAULT_HASH_MIN, also the capacity at the start
  MaxCap,         \* EF_INDEX_MAX_CAPACITY, one less than a power of two
  MapCap,         \* the largest capacity for which a memory buffer has room
  Backends,       \* where the database may be: "file", "memory" or both
  ManualCaps,     \* the capacities passed to ef_index_rehash and ef_index_shrink
  MaxReopens      \* bound: how often the database is closed and opened

ASSUME IndexKeys == Keys \subseteq Nat \ {0} /\ 0 \notin Slots /\ Pairs \subseteq Keys \X (Slots \cup {0})
ASSUME IndexSizes == HashMin \in Nat \ {0} /\ MaxCap \in Nat /\ HashMin <= MaxCap
ASSUME IndexBackends == Backends \subseteq {"file", "memory"}

VARIABLES
  backend,    \* db->backend
  table,      \* db->hash_index and db->hash_capacity
  count,      \* db->hash_entry_count
  pc,         \* the section a thread executes next
  key, off,   \* the arguments of a put that waits for the table to grow
  target,     \* the capacity a thread has decided on
  last,       \* the last section: what it did, for which key and slot, its result
  reopens,    \* the number of times the database was opened again
  counted,    \* auxiliary: count was last set from the table, or kept up since
  owed        \* auxiliary: the keys whose last successful change was a put

callVars == <<pc, key, off, target>>
opened == <<backend, reopens>>
vars == <<opened, table, count, callVars, last, counted, owed>>

Cap == Capacity(table)

FileBackend == backend = "file"

Section(call, k, s, e) == [call |-> call, key |-> k, off |-> s, err |-> e]

Init ==
  /\ backend \in Backends
  /\ table = EmptyTable(HashMin)
  /\ count = 0
  /\ pc = [t \in Threads |-> "idle"]
  /\ key = [t \in Threads |-> 0]
  /\ off = [t \in Threads |-> 0]
  /\ target = [t \in Threads |-> 0]
  /\ last = Section("none", 0, 0, "OK")
  /\ reopens = 0
  /\ counted = TRUE
  /\ owed = {}

(* Thread t goes on at label, with arguments k and s and capacity c.       *)
Continue(t, label, k, s, c) ==
  /\ pc' = [pc EXCEPT ![t] = label]
  /\ key' = [key EXCEPT ![t] = k]
  /\ off' = [off EXCEPT ![t] = s]
  /\ target' = [target EXCEPT ![t] = c]

Return(t) == Continue(t, "idle", 0, 0, 0)

(* The section ends with e and has changed nothing.                        *)
NoChange(e) ==
  /\ last' = Section("none", 0, 0, e)
  /\ UNCHANGED <<table, count, opened, counted, owed>>

(* ef_index_write_begin gives up: the call returns EF_ERR_INDEX_BUSY.      *)
LockBusy(t) == NoChange("INDEX_BUSY") /\ Return(t)

-----------------------------------------------------------------------------
(* Capacities.                                                             *)

PowerOfTwo(c) == c >= 1 /\ \E e \in 0..c : c = 2^e

(* ef_index_pick_capacity: the first of least, 2 least, 4 least, ... that  *)
(* is large enough; 0 when doubling would pass the limit.                  *)
PickCapacity(entries, least) ==
  LET start == IF least < HashMin THEN HashMin ELSE least
      fits == {d \in 0..entries : (start * 2^d * 3) \div 4 >= entries}
      cap == start * 2^Min(fits) IN
  IF entries > (MaxCap * 3) \div 4 \/ (cap # start /\ cap \div 2 > MaxCap \div 2) THEN 0 ELSE cap

(* ef_index_should_shrink_snap, of a snapshot of count and capacity.       *)
ShouldShrink(entries, c) == entries = 0 \/ entries * 8 < c

(* ef_index_pick_shrink_capacity: the smallest power of two from HashMin   *)
(* on with room for the entries at 3/4 load, 0 when it is no smaller than  *)
(* c.  The loop at the end of the function never lowers it further.        *)
PickShrink(entries, c) ==
  LET fits == {d \in 0..entries : HashMin * 2^d * 3 >= entries * 4}
      cap == HashMin * 2^Min(fits) IN
  IF cap >= c \/ ~ShouldShrink(entries, c) THEN 0 ELSE cap

-----------------------------------------------------------------------------
(* Mutant: an overwritten key is counted again.                            *)
InsertRecounts(k, s) ==
  LET r == PutEntry(table, k, s) IN
  /\ table' = r.table
  /\ count' = IF r.err = "OK" THEN count + 1 ELSE count
  /\ last' = Section("put", k, s, r.err)
  /\ owed' = IF r.err = "OK" THEN owed \cup {k} ELSE owed
  /\ UNCHANGED <<opened, counted>>

(* The section that inserts, with no second look at the load.              *)
Insert(k, s) ==
  LET r == PutEntry(table, k, s) IN
  /\ table' = r.table
  /\ count' = IF r.err = "OK" /\ r.added THEN count + 1 ELSE count
  /\ last' = Section("put", k, s, r.err)
  /\ owed' = IF r.err = "OK" THEN owed \cup {k} ELSE owed
  /\ UNCHANGED <<opened, counted>>

(* ef_index_put; s = 0 stands for an id that ef_slot_to_offset rejects.    *)
Put(t, k, s) ==
  /\ pc[t] = "idle"
  /\ \/ LockBusy(t)
     \/ s = 0 /\ NoChange("SLOT_ID") /\ Return(t)
     \/ /\ s # 0
        /\ NeedsGrow(count, Cap) /\ ~Found(table, k)
        /\ NoChange("OK")
        /\ Continue(t, "grow", k, s, 0)
     \/ /\ s # 0
        /\ ~NeedsGrow(count, Cap) \/ Found(table, k)
        /\ Insert(k, s)
        /\ Return(t)

(* ef_index_grow_for_insert: choose the capacity, under the lock.          *)
GrowForInsert(t) ==
  LET c == PickCapacity(count + 1, 2 * Cap) IN
  /\ pc[t] = "grow"
  /\ \/ LockBusy(t)
     \/ c <= Cap /\ NoChange("INDEX_FULL") /\ Return(t)
     \/ c > Cap /\ NoChange("OK") /\ Continue(t, "rehash", key[t], off[t], c)

(* ef_index_rehash_to ends before it touches anything.                     *)
RehashRefused(c, shrinking, e) ==
  \/ e = "GROW" /\ (~PowerOfTwo(c) \/ c > MaxCap)
  \/ /\ PowerOfTwo(c) /\ c <= MaxCap
     /\ \/ e = "INDEX_BUSY"
        \/ e = "OK" /\ ~shrinking /\ c <= Cap
        \/ e = "GROW" /\ shrinking /\ (c >= Cap \/ FileBackend)
        \/ e = "GROW" /\ shrinking /\ c < Cap /\ count # 0 /\ count * 4 >= c * 3

RehashGoes(c, shrinking) == ~ \E e \in {"OK", "GROW"} : RehashRefused(c, shrinking, e)

(* ... or for want of memory for the backup, of room in the buffer, or of  *)
(* disk space, with nothing changed either.                                *)
RehashStarved(c, shrinking, e) ==
  /\ RehashGoes(c, shrinking)
  /\ \/ e = "OOM" /\ Entries(table) > 0
     \/ e = "FILE_SIZE" /\ ~FileBackend /\ c > MapCap
     \/ e = "IO" /\ FileBackend

(* ef_index_bind_layout counts the entries of the table before it is       *)
(* cleared: what is left of the old one and, behind it, bytes of slots.    *)
BoundCounts(c) ==
  LET old == Cardinality({p \in Occupied(table) : p < c}) IN
  IF c <= Cap THEN {old} ELSE old..(old + c - Cap)

(* ef_index_rehash_to moves the table.  An entry that finds no place ends  *)
(* it, with the rest of the entries gone and the count of bind_layout.     *)
RehashMoves(c, shrinking) ==
  LET r == Refill(table, c) IN
  /\ RehashGoes(c, shrinking)
  /\ FileBackend \/ c <= MapCap
  /\ table' = r.table
  /\ count' \in IF r.err = "OK" THEN {Entries(table)} ELSE BoundCounts(c)
  /\ last' = Section("rehash", 0, 0, r.err)
  /\ counted' = (r.err = "OK" /\ Entries(table) <= c)
  /\ UNCHANGED <<opened, owed>>

Errors == {"OK", "INDEX_BUSY", "INDEX_FULL", "SLOT_ID", "NOT_FOUND", "GROW", "OOM", "FILE_SIZE", "IO"}

RehashTo(c, shrinking) ==
  \/ RehashMoves(c, shrinking)
  \/ \E e \in Errors :
       /\ RehashRefused(c, shrinking, e) \/ RehashStarved(c, shrinking, e)
       /\ NoChange(e)

(* The put grows the table; it goes on only if that went well.             *)
GrowRehash(t) ==
  /\ pc[t] = "rehash"
  /\ RehashTo(target[t], FALSE)
  /\ IF last'.err = "OK" THEN Continue(t, "insert", key[t], off[t], 0) ELSE Return(t)

(* ... and inserts, in a table that others may have changed meanwhile.     *)
InsertAfterGrow(t) ==
  /\ pc[t] = "insert"
  /\ LockBusy(t) \/ (Insert(key[t], off[t]) /\ Return(t))

-----------------------------------------------------------------------------
(* The section that removes key k, and what ef_index_remove does with the  *)
(* count and the capacity it saw there.                                    *)
Drop(t, k) ==
  LET n == IF count > 0 THEN count - 1 ELSE 0
      c == PickShrink(n, Cap) IN
  /\ table' = RemoveByHash(table, k)
  /\ count' = n
  /\ last' = Section("remove", k, 0, "OK")
  /\ owed' = owed \ {k}
  /\ UNCHANGED <<opened, counted>>
  /\ IF c # 0 THEN Continue(t, "shrink", 0, 0, c) ELSE Return(t)

(* ef_index_remove *)
Remove(t, k) ==
  /\ pc[t] = "idle"
  /\ \/ LockBusy(t)
     \/ ~Found(table, k) /\ NoChange("NOT_FOUND") /\ Return(t)
     \/ Found(table, k) /\ Drop(t, k)

(* ef_index_remove_by_slot: the first entry with the slot, if any; the     *)
(* shrinking is considered in both cases.                                  *)
RemoveBySlot(t, s) ==
  LET here == {p \in Occupied(table) : table[p].off = s}
      c == PickShrink(count, Cap) IN
  /\ pc[t] = "idle"
  /\ \/ LockBusy(t)
     \/ /\ here = {}
        /\ NoChange("OK")
        /\ IF c # 0 THEN Continue(t, "shrink", 0, 0, c) ELSE Return(t)
     \/ here # {} /\ Drop(t, table[Min(here)].key)

(* ef_index_clear *)
Clear(t) ==
  /\ pc[t] = "idle"
  /\ \/ LockBusy(t)
     \/ /\ table' = EmptyTable(Cap)
        /\ count' = 0
        /\ last' = Section("clear", 0, 0, "OK")
        /\ counted' = TRUE
        /\ owed' = {}
        /\ UNCHANGED opened
        /\ IF Cap > HashMin THEN Continue(t, "clear_shrink", 0, 0, PickShrink(0, Cap)) ELSE Return(t)

(* The shrinking that ends a removal or a clear; its result is ignored.    *)
AutoShrink(t) ==
  /\ pc[t] \in {"shrink", "clear_shrink"}
  /\ RehashTo(target[t], TRUE)
  /\ Return(t)

(* ef_index_rehash and ef_index_shrink *)
Rehash(t, c) == pc[t] = "idle" /\ RehashTo(c, FALSE) /\ Return(t)
Shrink(t, c) == pc[t] = "idle" /\ RehashTo(c, TRUE) /\ Return(t)

(* Close and open, with no call in progress: the new handle starts with    *)
(* hash_entry_count = 0, and ef_db_init_mapped does not count the entries. *)
Reopen ==
  /\ \A t \in Threads : pc[t] = "idle"
  /\ reopens < MaxReopens
  /\ reopens' = reopens + 1
  /\ count' = 0
  /\ counted' = (Entries(table) = 0)
  /\ last' = Section("none", 0, 0, "OK")
  /\ UNCHANGED <<backend, table, callVars, owed>>

Next ==
  \/ Reopen
  \/ \E t \in Threads :
       \/ \E ks \in Pairs : Put(t, ks[1], ks[2])
       \/ GrowForInsert(t) \/ GrowRehash(t) \/ InsertAfterGrow(t)
       \/ \E k \in Keys : Remove(t, k)
       \/ \E s \in Slots : RemoveBySlot(t, s)
       \/ Clear(t) \/ AutoShrink(t)
       \/ \E c \in ManualCaps : Rehash(t, c) \/ Shrink(t, c)

Spec == Init /\ [][Next]_vars

-----------------------------------------------------------------------------
(* Every entry of the table is the one a lookup of its key arrives at: no  *)
(* key is stored twice or behind a gap.  ef_index_find_entry_unlocked and  *)
(* ef_index_remove_by_hash stop at the first empty position, so this is    *)
(* what displacement, back-shifting and refilling have to maintain.        *)
EveryEntryFound == \A p \in Occupied(table) : FindPos(table, table[p].key) = p

(* hash_entry_count, kept up by increments and decrements in sections of   *)
(* different threads, is the number of entries in the table, but for a     *)
(* count taken over from a failed rehash, from opening the database, or    *)
(* from a shrink to fewer positions than there are entries, see below.     *)
CountExact == counted => count = Entries(table)

(* Seen through lookups the table is a map, and every section changes it   *)
(* as EfMap says: put and remove change their own key only, a rehash that  *)
(* ends well loses nothing, and no key gets the slot of another, whatever  *)
(* ran while the lock was released and however full the table is.  A new   *)
(* key put into a full table may cost another key although the call        *)
(* returns EF_OK, and so may a shrink that puts more entries than the new  *)
(* table has positions; ef_index_needs_grow and the guard of               *)
(* ef_index_rehash_to prevent both only through a handle that knows the    *)
(* number of entries.                                                      *)
Map == INSTANCE EfMap WITH map <- [k \in Keys |-> Find(table, k).off]

HasRoom ==
  /\ last'.call = "put" => Entries(table) < Cap \/ Found(table, last'.key)
  /\ last'.err = "OK" => Entries(table) <= Cap'

ImplementsMap ==
  /\ Map!MapInit
  /\ [][HasRoom => Map!MapNext]_<<table, last>>

(* A key that was put with EF_OK and not removed since is in the index     *)
(* (ef_index_put, ef_index_rehash_to).                                     *)
KeysKept == \A k \in owed : Found(table, k)
=============================================================================
