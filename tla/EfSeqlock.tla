----------------------------- MODULE EfSeqlock -----------------------------
(***************************************************************************)
(* Readers of the index against a writer, src/src/ef_index.c and the       *)
(* seqlock of src/src/ef_sb_layout.c.  An entry is two 64-bit words, and   *)
(* every load and store of a word is a step.  A writer works under the     *)
(* index write lock and holds index_seq odd; a reader takes no lock, and   *)
(* believes what it read only if index_seq was even and is unchanged.      *)
(* index_seq is a field of the handle (struct ef_db), one for each handle  *)
(* on the same file.                                                       *)
(*                                                                         *)
(* The database is in a memory buffer: the table, and behind it the slots, *)
(* begin where the capacity says.  A rehash moves the slots, over a part   *)
(* of the table or away from one, and changes db->hash_capacity and        *)
(* db->slots_base, which a reader loads when it needs them: the capacity   *)
(* before it reads the table, the base to turn the offset it has found     *)
(* into a slot.  A writing call is one section; EfIndex says how the       *)
(* sections of a put that grows the table, or of a removal that shrinks    *)
(* it, follow each other.  Loads and stores take effect in program order,  *)
(* as the fences around the section and the acquire and release forms of   *)
(* the word accesses provide.                                              *)
(***************************************************************************)
EXTENDS EfHashTable

LOCAL INSTANCE FiniteSetsExt    \* Max

CONSTANTS
  Writers,      \* threads that change the index
  Readers,      \* threads that read it; a thread can be both
  HandleOf,     \* the handle each thread calls through
  Keys,         \* as in EfIndex
  Slots,        \* the slots, numbered from 1
  Pairs,        \* the <<key, slot>> pairs that writers put
  InitCap,      \* the capacity at the start
  Caps,         \* the capacities: powers of two
  PerSlot,      \* EF_SLOT_SIZE / EF_HASH_ENTRY_SIZE, at most the smallest capacity
  MaxWrites,    \* bound: the number of sections
  MaxTries      \* EF_SB_INDEX_SEQ_READ_MAX, the attempts of a lookup

ASSUME SeqKeys ==
  Keys \subseteq Nat \ {0} /\ Slots \subseteq Nat \ {0} /\ Pairs \subseteq Keys \X Slots
ASSUME SeqCaps == Caps \subseteq Nat \ {0} /\ InitCap \in Caps /\ PerSlot \in Nat \ {0}
ASSUME SeqLargest == \E m \in Caps : \A c \in Caps : c <= m
ASSUME SeqBounds == MaxWrites \in Nat /\ MaxTries \in Nat \ {0}

VARIABLES
  words,        \* the mapping, as far as the table may reach, as entries
  write_lock,   \* index_write_lock
  index_seq,    \* db->index_seq of each handle
  hash_capacity,\* db->hash_capacity of each handle, which db->slots_base follows
  payload,      \* the key whose record a slot contains, 0 for none
  pc,
  todo,         \* the stores a writer has yet to make, see Store and Bind
  key,          \* the key looked up
  seq1, capacity, i, cur,   \* locals of a reader: its loads of index_seq and of
                \* hash_capacity, position, entry
  tries,        \* attempts made
  res,          \* the entry a lookup has found, Empty for NOT_FOUND
  writes,       \* the number of writing calls made
  content       \* auxiliary: the table as of the last complete section

memVars == <<words, write_lock, index_seq, hash_capacity, payload>>
readVars == <<key, seq1, capacity, i, cur, tries, res>>
vars == <<memVars, pc, todo, readVars, writes, content>>

Threads == Writers \cup Readers
Handles == {HandleOf[t] : t \in Threads}
SeqNow(t) == index_seq[HandleOf[t]]
CapNow(t) == hash_capacity[HandleOf[t]]

(* The table of capacity c; ef_index_slots_base, in slots; the offset of   *)
(* slot s, and the slot that ef_offset_to_slot_id makes of an offset.      *)
Table(c) == [p \in 0..(c - 1) |-> words[p]]
SlotsBase(c) == c \div PerSlot
Offset(c, s) == SlotsBase(c) + s
SlotId(c, off) == off - SlotsBase(c)

(* Bytes of a slot, read as words of an entry: anything.                   *)
SlotBytes == [key |-> -1, off |-> -1]
LoadOff(p) == IF words[p] = SlotBytes THEN {0, 1} ELSE {words[p].off}
LoadKey(p) == IF words[p].key = SlotBytes.key THEN Keys ELSE {words[p].key}

Init ==
  /\ hash_capacity = [h \in Handles |-> InitCap]
  /\ words = [p \in 0..(Max(Caps) - 1) |-> IF p < InitCap THEN Empty ELSE SlotBytes]
  /\ write_lock = 0
  /\ index_seq = [h \in Handles |-> 0]
  /\ payload = [s \in Slots |-> 0]
  /\ pc = [t \in Threads |-> "idle"]
  /\ todo = [t \in Threads |-> <<>>]
  /\ key = [t \in Threads |-> 0]
  /\ seq1 = [t \in Threads |-> 0]
  /\ capacity = [t \in Threads |-> 0]
  /\ i = [t \in Threads |-> 0]
  /\ cur = [t \in Threads |-> Empty]
  /\ tries = [t \in Threads |-> 0]
  /\ res = [t \in Threads |-> Empty]
  /\ writes = 0
  /\ content = EmptyTable(InitCap)

Goto(t, label) == pc' = [pc EXCEPT ![t] = label]

(* A reading call returns; its locals are gone.                            *)
Finish(t) ==
  /\ Goto(t, "idle")
  /\ key' = [key EXCEPT ![t] = 0]
  /\ seq1' = [seq1 EXCEPT ![t] = 0]
  /\ capacity' = [capacity EXCEPT ![t] = 0]
  /\ i' = [i EXCEPT ![t] = 0]
  /\ cur' = [cur EXCEPT ![t] = Empty]
  /\ tries' = [tries EXCEPT ![t] = 0]
  /\ res' = [res EXCEPT ![t] = Empty]

-----------------------------------------------------------------------------
(* The stores of a section, in the order the code makes them.              *)

Store(p, entry) == [at |-> p, entry |-> entry]

(* ef_index_bind_layout: not an entry, but the capacity of the handle.     *)
Bind(c) == [at |-> -1, entry |-> [key |-> 0, off |-> c]]

(* ef_index_put_entry: one store for each entry displaced, one at the end. *)
(* The turn of the loop at position at, after the turns before.            *)
PutTurn(k, off, before, at) ==
  LET after == PutStep(k, off, before.st, at)
      pos == at % Capacity(before.st.table) IN
  [st |-> after,
   stores |-> IF after.table[pos] = before.st.table[pos] THEN before.stores
              ELSE Append(before.stores, Store(pos, after.table[pos]))]

PutStores(T, k, off) ==
  LET c == Capacity(T)
      turn[n \in 0..(2 * c)] ==
        IF n = 0 THEN [st |-> PutStart(T, k, off), stores |-> <<>>]
        ELSE PutTurn(k, off, turn[n - 1], Home(c, k) + n - 1) IN
  turn[2 * c].stores

(* The loop of ef_index_remove_by_hash: a store in each turn, of the entry *)
(* that moves into the gap or of the empty one that ends it.               *)
ShiftTurn(before) ==
  LET after == ShiftStep(before.st)
      hole == before.st.hole IN
  [st |-> after,
   stores |-> IF before.st.done THEN before.stores
              ELSE Append(before.stores, Store(hole, after.table[hole]))]

ShiftStores(T, p) ==
  LET c == Capacity(T)
      turn[n \in 0..(c * c)] ==
        IF n = 0 THEN [st |-> ShiftStart(T, p), stores |-> <<>>] ELSE ShiftTurn(turn[n - 1]) IN
  turn[c * c].stores

(* Mutant: the position left over is not cleared.                          *)
RemoveStoresUncleared(T, k) ==
  LET stores == ShiftStores(T, FindPos(T, k)) IN
  IF Len(stores) = 1 THEN stores ELSE SubSeq(stores, 1, Len(stores) - 1)

(* ef_index_remove_by_hash *)
RemoveStores(T, k) == ShiftStores(T, FindPos(T, k))

(* ef_index_clear: memset, front to rear.                                  *)
ClearStores(c) == [j \in 1..c |-> Store(j - 1, Empty)]

(* Mutant: the entries keep the offsets of the old layout.                 *)
FixupNone(T, c) == Backup(T)

(* ef_index_fixup_offset, of every entry in the copy of the table.         *)
Fixup(T, c) ==
  [n \in 1..Entries(T) |->
     [Backup(T)[n] EXCEPT !.off = @ + (SlotsBase(c) - SlotsBase(Capacity(T)))]]

(* ef_index_rehash_to puts the entry e into the table made so far.         *)
RefillTurn(r, e) ==
  LET put == PutEntry(r.table, e.key, e.off) IN
  IF r.err # "OK" THEN r
  ELSE [table |-> put.table, err |-> put.err,
        stores |-> r.stores \o PutStores(r.table, e.key, e.off)]

(* ef_index_rehash_to: the slots move, over the end of the table when it   *)
(* shrinks; then the capacity, an empty table, and its entries one by one, *)
(* up to the first that does not fit.                                      *)
RehashStores(T, c) ==
  LET entries == Fixup(T, c)
      moved == [j \in 1..(Capacity(T) - c) |-> Store(c + j - 1, SlotBytes)]
      refill[n \in 0..Len(entries)] ==
        IF n = 0 THEN [table |-> EmptyTable(c), err |-> "OK", stores |-> <<>>]
        ELSE RefillTurn(refill[n - 1], entries[n]) IN
  moved \o <<Bind(c)>> \o ClearStores(c) \o refill[Len(entries)].stores

-----------------------------------------------------------------------------
(* Writers.                                                                *)

(* A section begins: the lock is taken, for the stores that are to come.   *)
Section(t, stores) ==
  /\ pc[t] = "idle" /\ write_lock = 0 /\ writes < MaxWrites
  /\ write_lock' = 1
  /\ writes' = writes + 1
  /\ todo' = [todo EXCEPT ![t] = stores]
  /\ Goto(t, "seq_begin")
  /\ UNCHANGED <<words, index_seq, hash_capacity, readVars, content>>

(* ef_index_put where the table need not grow, of a slot that no key       *)
(* refers to and that received the record of k before the call.            *)
Put(t, k, s) ==
  LET T == Table(CapNow(t))
      off == Offset(CapNow(t), s) IN
  /\ \A p \in DOMAIN T : T[p].off # off
  /\ ~NeedsGrow(Entries(T), CapNow(t)) \/ Found(T, k)
  /\ payload' = [payload EXCEPT ![s] = k]
  /\ Section(t, PutStores(T, k, off))

(* ef_index_remove *)
Remove(t, k) ==
  LET T == Table(CapNow(t)) IN
  /\ Found(T, k)
  /\ Section(t, RemoveStores(T, k))
  /\ UNCHANGED payload

Clear(t) ==
  /\ Section(t, ClearStores(CapNow(t)))
  /\ UNCHANGED payload

(* ef_index_rehash_to: growth, or to a capacity that the entries leave a   *)
(* quarter of free.                                                        *)
Rehash(t, c) ==
  LET T == Table(CapNow(t)) IN
  /\ c # CapNow(t)
  /\ c < CapNow(t) /\ Entries(T) # 0 => Entries(T) * 4 < c * 3
  /\ Section(t, RehashStores(T, c))
  /\ UNCHANGED payload

(* A section that changes nothing: a key that is not there, a table that   *)
(* must grow first, a rehash that is refused.                              *)
NoChange(t) ==
  /\ Section(t, <<>>)
  /\ UNCHANGED payload

(* Where a writer goes on when it has the stores q to make.                *)
NextStore(q) ==
  IF q = <<>> THEN "seq_end" ELSE IF Head(q).at = -1 THEN "bind" ELSE "store_key"

(* ef_sb_index_write_seq_begin *)
SeqBegin(t) ==
  /\ pc[t] = "seq_begin"
  /\ index_seq' = [index_seq EXCEPT ![HandleOf[t]] = @ + 1]
  /\ Goto(t, NextStore(todo[t]))
  /\ UNCHANGED <<words, write_lock, hash_capacity, payload, todo, readVars, writes, content>>

(* ef_hash_entry_store_atomic: the word of the key, then the word of the   *)
(* offset.                                                                 *)
StoreKey(t) ==
  /\ pc[t] = "store_key"
  /\ LET st == Head(todo[t]) IN words' = [words EXCEPT ![st.at].key = st.entry.key]
  /\ Goto(t, "store_off")
  /\ UNCHANGED <<write_lock, index_seq, hash_capacity, payload, todo, readVars, writes, content>>

StoreOff(t) ==
  /\ pc[t] = "store_off"
  /\ LET st == Head(todo[t]) IN words' = [words EXCEPT ![st.at].off = st.entry.off]
  /\ todo' = [todo EXCEPT ![t] = Tail(@)]
  /\ Goto(t, NextStore(Tail(todo[t])))
  /\ UNCHANGED <<write_lock, index_seq, hash_capacity, payload, readVars, writes, content>>

(* ef_index_bind_layout *)
BindLayout(t) ==
  /\ pc[t] = "bind"
  /\ hash_capacity' = [hash_capacity EXCEPT ![HandleOf[t]] = Head(todo[t]).entry.off]
  /\ todo' = [todo EXCEPT ![t] = Tail(@)]
  /\ Goto(t, NextStore(Tail(todo[t])))
  /\ UNCHANGED <<words, write_lock, index_seq, payload, readVars, writes, content>>

(* ef_sb_index_write_seq_end: the section is complete for readers.         *)
SeqEnd(t) ==
  /\ pc[t] = "seq_end"
  /\ index_seq' = [index_seq EXCEPT ![HandleOf[t]] = @ + 1]
  /\ content' = Table(CapNow(t))
  /\ Goto(t, "unlock")
  /\ UNCHANGED <<words, write_lock, hash_capacity, payload, todo, readVars, writes>>

Unlock(t) ==
  /\ pc[t] = "unlock"
  /\ write_lock' = 0
  /\ Goto(t, "idle")
  /\ UNCHANGED <<words, index_seq, hash_capacity, payload, todo, readVars, writes, content>>

-----------------------------------------------------------------------------
(* Lookups: ef_index_get, and ef_index_get_slot.                           *)

GetCall(t, k) ==
  /\ pc[t] = "idle"
  /\ key' = [key EXCEPT ![t] = k]
  /\ Goto(t, "get_seq")
  /\ UNCHANGED <<memVars, todo, seq1, capacity, i, cur, tries, res, writes, content>>

(* An attempt failed: another one, or EF_ERR_INDEX_BUSY.                   *)
Retry(t) ==
  IF tries[t] + 1 = MaxTries THEN Finish(t)
  ELSE /\ tries' = [tries EXCEPT ![t] = @ + 1]
       /\ i' = [i EXCEPT ![t] = 0]
       /\ cur' = [cur EXCEPT ![t] = Empty]
       /\ res' = [res EXCEPT ![t] = Empty]
       /\ Goto(t, "get_seq")
       /\ UNCHANGED <<key, seq1, capacity>>

(* ef_index_find_entry: the first load of index_seq.                       *)
GetSeq(t) ==
  /\ pc[t] = "get_seq"
  /\ \/ SeqNow(t) % 2 = 1 /\ Retry(t)
     \/ /\ SeqNow(t) % 2 = 0
        /\ seq1' = [seq1 EXCEPT ![t] = SeqNow(t)]
        /\ Goto(t, "get_capacity")
        /\ UNCHANGED <<key, capacity, i, cur, tries, res>>
  /\ UNCHANGED <<memVars, todo, writes, content>>

(* ef_index_find_entry_unlocked *)
GetCapacity(t) ==
  /\ pc[t] = "get_capacity"
  /\ capacity' = [capacity EXCEPT ![t] = CapNow(t)]
  /\ Goto(t, "get_off")
  /\ UNCHANGED <<memVars, todo, key, seq1, i, cur, tries, res, writes, content>>

Pos(t) == (Home(capacity[t], key[t]) + i[t]) % capacity[t]

(* ef_hash_entry_load_atomic: the offset, then the key.                    *)
GetOff(t) ==
  /\ pc[t] = "get_off"
  /\ \E off \in LoadOff(Pos(t)) : cur' = [cur EXCEPT ![t].off = off]
  /\ Goto(t, "get_key")
  /\ UNCHANGED <<memVars, todo, key, seq1, capacity, i, tries, res, writes, content>>

GetKey(t) ==
  /\ pc[t] = "get_key"
  /\ \E k \in LoadKey(Pos(t)) : cur' = [cur EXCEPT ![t].key = k]
  /\ Goto(t, "get_empty")
  /\ UNCHANGED <<memVars, todo, key, seq1, capacity, i, tries, res, writes, content>>

(* ef_hash_entry_empty_atomic loads the offset once more: the verdict      *)
(* NOT_FOUND, the entry, or on to the next position.                       *)
GetEmpty(t) ==
  /\ pc[t] = "get_empty"
  /\ \E off \in LoadOff(Pos(t)) :
       LET match == off # 0 /\ cur[t].key = key[t] IN
       IF off = 0 \/ match \/ i[t] + 1 = capacity[t]
       THEN /\ res' = [res EXCEPT ![t] = IF match THEN cur[t] ELSE Empty]
            /\ Goto(t, "get_check")
            /\ UNCHANGED i
       ELSE /\ i' = [i EXCEPT ![t] = @ + 1]
            /\ Goto(t, "get_off")
            /\ UNCHANGED res
  /\ UNCHANGED <<memVars, todo, key, seq1, capacity, cur, tries, writes, content>>

(* Mutant: only the parity of index_seq is looked at.                      *)
StableIfEven(t) == SeqNow(t) % 2 = 0

(* ef_sb_index_seq_read_stable *)
Stable(t) == SeqNow(t) = seq1[t] /\ SeqNow(t) % 2 = 0

GetCheck(t) ==
  /\ pc[t] = "get_check"
  /\ \/ ~Stable(t) /\ Retry(t)
     \/ Stable(t) /\ res[t].off = 0 /\ Finish(t)
     \/ /\ Stable(t) /\ res[t].off # 0
        /\ Goto(t, "get_slot")
        /\ UNCHANGED readVars
  /\ UNCHANGED <<memVars, todo, writes, content>>

(* The slot that ef_index_get returns and whose payload ef_index_get_slot  *)
(* copies; an offset outside the slots is an error.                        *)
GetSlot(t) ==
  /\ pc[t] = "get_slot"
  /\ Finish(t)
  /\ UNCHANGED <<memVars, todo, writes, content>>

Result(t) == SlotId(CapNow(t), res[t].off)

-----------------------------------------------------------------------------
(* ef_index_iterate_until: the capacity, then index_seq, odd or even, and  *)
(* index_seq again before each callback.                                   *)
IterCall(t) ==
  /\ pc[t] = "idle"
  /\ capacity' = [capacity EXCEPT ![t] = CapNow(t)]
  /\ Goto(t, "iter_begin")
  /\ UNCHANGED <<memVars, todo, key, seq1, i, cur, tries, res, writes, content>>

IterBegin(t) ==
  /\ pc[t] = "iter_begin"
  /\ seq1' = [seq1 EXCEPT ![t] = SeqNow(t)]
  /\ Goto(t, "iter_off")
  /\ UNCHANGED <<memVars, todo, key, capacity, i, cur, tries, res, writes, content>>

IterOff(t) ==
  /\ pc[t] = "iter_off"
  /\ \E off \in LoadOff(i[t]) : cur' = [cur EXCEPT ![t].off = off]
  /\ Goto(t, "iter_key")
  /\ UNCHANGED <<memVars, todo, key, seq1, capacity, i, tries, res, writes, content>>

IterKey(t) ==
  /\ pc[t] = "iter_key"
  /\ \E k \in LoadKey(i[t]) : cur' = [cur EXCEPT ![t].key = k]
  /\ Goto(t, "iter_empty")
  /\ UNCHANGED <<memVars, todo, key, seq1, capacity, i, tries, res, writes, content>>

IterNext(t) ==
  IF i[t] + 1 = capacity[t] THEN Finish(t)
  ELSE /\ i' = [i EXCEPT ![t] = @ + 1]
       /\ Goto(t, "iter_off")
       /\ UNCHANGED <<key, seq1, capacity, cur, tries, res>>

IterEmpty(t) ==
  /\ pc[t] = "iter_empty"
  /\ \E off \in LoadOff(i[t]) :
       \/ off = 0 /\ IterNext(t)
       \/ off # 0 /\ Goto(t, "iter_seq") /\ UNCHANGED readVars
  /\ UNCHANGED <<memVars, todo, writes, content>>

(* Mutant: the first entry is passed on without a second look.             *)
DeliversFirst(t) == pc[t] = "iter_seq" /\ (i[t] = 0 \/ SeqNow(t) = seq1[t])

(* The callback is called with the entry that was read.                    *)
Delivers(t) == pc[t] = "iter_seq" /\ SeqNow(t) = seq1[t]

(* EF_ERR_INDEX_BUSY, or the callback, which lets the iteration go on or   *)
(* ends it.                                                                *)
IterSeq(t) ==
  /\ pc[t] = "iter_seq"
  /\ Finish(t) \/ (Delivers(t) /\ IterNext(t))
  /\ UNCHANGED <<memVars, todo, writes, content>>

Next ==
  \/ \E t \in Writers :
       \/ \E pair \in Pairs : Put(t, pair[1], pair[2])
       \/ \E k \in Keys : Remove(t, k)
       \/ Clear(t) \/ NoChange(t) \/ \E c \in Caps : Rehash(t, c)
       \/ SeqBegin(t) \/ StoreKey(t) \/ StoreOff(t) \/ BindLayout(t) \/ SeqEnd(t) \/ Unlock(t)
  \/ \E t \in Readers :
       \/ \E k \in Keys : GetCall(t, k)
       \/ GetSeq(t) \/ GetCapacity(t) \/ GetOff(t) \/ GetKey(t) \/ GetEmpty(t)
       \/ GetCheck(t) \/ GetSlot(t)
       \/ IterCall(t) \/ IterBegin(t) \/ IterOff(t) \/ IterKey(t) \/ IterEmpty(t) \/ IterSeq(t)

Spec == Init /\ [][Next]_vars

-----------------------------------------------------------------------------
(* A lookup is linearizable: what ef_index_find_entry takes for stable,    *)
(* put together from loads between the stores of other threads and with    *)
(* the bytes of slots where a table was or will be, is what the table of   *)
(* the last complete section says of the key, both when it finds the key   *)
(* and when it reports EF_ERR_NOT_FOUND.                                   *)
LookupTrue ==
  \A t \in Threads :
    pc[t] = "get_check" /\ Stable(t) => res[t] = Find(content, key[t])

(* As long as no further section has begun, the slot that ef_index_get     *)
(* returns, computed from the offset it found and from db->slots_base, is  *)
(* one that contains the record of the key, however often rehashes have    *)
(* moved the slots and adjusted the offsets in between.                    *)
GetTrue ==
  \A t \in Threads :
    pc[t] = "get_slot" /\ SeqNow(t) = seq1[t] =>
      Result(t) \in Slots /\ payload[Result(t)] = key[t]

(* While no writer is at work, every entry in the words of the table is    *)
(* found by a lookup, and no two words of different entries are paired:    *)
(* the stores of a section, each half an entry, add up to whole ones, with *)
(* offsets that fit where the slots now are.                               *)
SectionsWhole ==
  write_lock = 0 =>
    \A h \in Handles :
      LET c == hash_capacity[h]
          T == Table(c) IN
      \A p \in DOMAIN T :
        IF T[p].off = 0 THEN T[p] = Empty
        ELSE FindPos(T, T[p].key) = p /\ payload[SlotId(c, T[p].off)] = T[p].key

(* ef_index_iterate_until passes to its callback only whole entries of the *)
(* table, unless a writer was at work already when it read index_seq, or   *)
(* rehashed the table after it had read the capacity.                      *)
IterTrue ==
  \A t \in Threads :
    Delivers(t) /\ seq1[t] % 2 = 0 /\ capacity[t] = Capacity(content) =>
      cur[t] = content[i[t]]
=============================================================================
