------------------------------ MODULE EfSlots ------------------------------
(***************************************************************************)
(* The calls that change slots, as functions from a database to the        *)
(* database they leave, the error they return and the undo records they    *)
(* append inside a transaction: src/src/endfields.c (the slot API),        *)
(* ef_blob.c (blobs and overflow chains), ef_grow.c, the index calls they  *)
(* use, and ef_queue.c as one thread sees it.  EfBlob and EfTxn run them.  *)
(*                                                                         *)
(* A database is [slot, head, count, index, qhead, qtail]: the slots by    *)
(* number, where 0 stands for an offset where no slot is, the head of the  *)
(* free list and its counter, the slot of every key, the dummy and the     *)
(* last node of the queue.  Keys are numbered in the order of their places *)
(* in the table; the table itself is the subject of EfIndex.               *)
(*                                                                         *)
(* A payload is [first, rest]: the eight bytes that an undo record can     *)
(* hold, and what follows them.  In the head of a blob first is the        *)
(* header, <<1, length>>; data is measured in pieces.                      *)
(***************************************************************************)
EXTENDS Integers, Sequences, FiniteSets

LOCAL INSTANCE FiniteSetsExt    \* Min

CONSTANTS
  InlineCap,    \* pieces of a blob that fit in its head, EF_PAYLOAD_SIZE - 8
  ChunkCap,     \* pieces that fit in an overflow slot, EF_PAYLOAD_SIZE
  CountMod      \* free_count is a number below this one, 2^32

ASSUME CapAssumption ==
  /\ InlineCap \in Nat \ {0} /\ ChunkCap \in Nat \ {0} /\ CountMod \in Nat \ {0}

ZeroPayload == [first |-> <<0, 0>>, rest |-> << >>]

(* What is in a slot before it is first used; crc << >> is a crc of 0.     *)
EmptySlot == [status |-> "FREE", next |-> 0, payload |-> ZeroPayload, crc |-> << >>]

(* ef_slot_status_uses_link_crc and ef_slot_status_has_crc; nothing sets   *)
(* QUEUE_LINK and QUEUE_DEQ any more.                                      *)
LinkCrc(status) == status \in {"QUEUED", "QUEUE_DUMMY"}
HasCrc(status) == status \in {"USED", "OVERFLOW"} \/ LinkCrc(status)

(* ef_slot_header_crc_compute_full, _link and _compute: two contents never *)
(* have the same sum.                                                      *)
FullSum(slot) == <<slot.status, slot.next, slot.payload>>
Sum(slot) == IF LinkCrc(slot.status) THEN <<slot.status, slot.next>> ELSE FullSum(slot)

(* ef_slot_header_crc_store and ef_slot_header_crc_valid.                  *)
Stamp(slot) == [slot EXCEPT !.crc = Sum(slot)]
CrcValid(slot) ==
  HasCrc(slot.status) => slot.crc = Sum(slot) \/ (LinkCrc(slot.status) /\ slot.crc = FullSum(slot))

(* ef_get_slot: a slot whose crc is wrong is not handed out.               *)
GetSlot(d, s) == CrcValid(d.slot[s])

-----------------------------------------------------------------------------
(* Undo records (struct ef_undo_record): the fields a kind does not use    *)
(* keep their defaults.                                                    *)

Rec(kind, s) ==
  [kind |-> kind, slot |-> s, status |-> "FREE", crc |-> << >>, next |-> 0,
   first |-> <<0, 0>>, key |-> 0, delta |-> 0, tail |-> 0]

StatusRec(s, slot) == [Rec("SLOT_STATUS", s) EXCEPT !.status = slot.status, !.crc = slot.crc]
NextRec(s, slot) == [Rec("SLOT_NEXT", s) EXCEPT !.next = slot.next]
PayloadRec(s, slot) == [Rec("SLOT_PAYLOAD", s) EXCEPT !.first = slot.payload.first]
FreeRec(s, slot) == [Rec("SLOT_FREE", s) EXCEPT !.next = slot.next, !.status = slot.status]
KeyRec(kind, k, s) == [Rec(kind, s) EXCEPT !.key = k]
CountRec(delta) == [Rec("FREE_COUNT", 0) EXCEPT !.delta = delta]
PushRec(s, next) == [Rec("QUEUE_PUSH", s) EXCEPT !.next = next]
PopRec(s, next, tail) == [Rec("QUEUE_POP", s) EXCEPT !.next = next, !.tail = tail]

(* What a call leaves and returns; got is the slot an allocation hands     *)
(* out, and marked says that it called ef_db_mark_meta_dirty.              *)
Result(d, e, recs) == [db |-> d, err |-> e, recs |-> recs, got |-> 0, marked |-> FALSE]
Refuse(d, e) == Result(d, e, << >>)
Marked(d, e, recs) == [Result(d, e, recs) EXCEPT !.marked = TRUE]

-----------------------------------------------------------------------------
(* The free list.                                                          *)

Size(d) == Len(d.slot)

(* The free list as the code walks it: at most one step per slot and one.  *)
Cursor(d) ==
  LET c[k \in 0..Size(d)] ==
        IF k = 0 THEN d.head ELSE IF c[k - 1] = 0 THEN 0 ELSE d.slot[c[k - 1]].next
  IN c

(* ef_alloc_slot: ef_free_list_pop_atomic and its two records.  The status *)
(* of the slot at the head is not looked at.                               *)
AllocSlot(d) ==
  LET s == d.head
      slot == [EmptySlot EXCEPT !.status = "USED"] IN
  IF s = 0 \/ d.count = 0 THEN Refuse(d, "SLOT_FULL")
  ELSE [Marked([d EXCEPT !.head = d.slot[s].next, !.count = @ - 1, !.slot[s] = Stamp(slot)],
               "OK", <<Rec("SLOT_ALLOC", s), CountRec(-1)>>) EXCEPT !.got = s]

(* ef_index_remove_by_slot: the first entry of the slot, and only that;    *)
(* it appends no record.                                                   *)
RemoveBySlot(d, s) ==
  LET keys == {k \in DOMAIN d.index : d.index[k] = s} IN
  IF keys = {} THEN d ELSE [d EXCEPT !.index[Min(keys)] = 0]

(* ef_return_slot_to_pool: the index entry, then ef_free_list_push_atomic. *)
ReturnSlot(d, s) ==
  LET e == RemoveBySlot(d, s) IN
  [e EXCEPT !.slot[s] = [EmptySlot EXCEPT !.next = d.head], !.head = s,
            !.count = (@ + 1) % CountMod]

(* ef_unlink_free_slot, of a slot whose status is FREE.                    *)
Unlink(d, s) ==
  LET c == Cursor(d)
      before == {k \in DOMAIN c : c[k] # 0 /\ d.slot[c[k]].next = s} IN
  IF d.head = s
  THEN Result([d EXCEPT !.head = d.slot[s].next, !.slot[s].next = 0], "OK", << >>)
  ELSE IF before = {} THEN Refuse(d, "NOT_FOUND")
  ELSE Result([d EXCEPT !.slot[c[Min(before)]].next = d.slot[s].next, !.slot[s].next = 0],
              "OK", << >>)

(* Mutant: the slot stays on the free list.                                *)
ClaimSlotLinked(d, s) ==
  Result([d EXCEPT !.slot[s] = Stamp([@ EXCEPT !.status = "USED"]), !.count = @ - 1], "OK", << >>)

(* ef_claim_slot, of a FREE slot: no record is appended.                   *)
ClaimSlot(d, s) ==
  LET u == Unlink(d, s) IN
  IF u.err # "OK" THEN u
  ELSE [u EXCEPT !.db.slot[s] = Stamp([@ EXCEPT !.status = "USED"]),
                 !.db.count = IF @ > 0 THEN @ - 1 ELSE 0,
                 !.marked = TRUE]

(* ef_db_refresh_checksums, of the slots.                                  *)
RefreshChecksums(d) ==
  [d EXCEPT !.slot = [s \in 1..Size(d) |->
                        IF HasCrc(d.slot[s].status) THEN Stamp(d.slot[s]) ELSE d.slot[s]]]

(* Mutant: only the statuses that callers see count as in use.             *)
RebuildFreeListOld(d) ==
  LET free == {s \in 1..Size(d) : d.slot[s].status \notin {"USED", "OVERFLOW"}}
      first(set) == IF set = {} THEN 0 ELSE Min(set) IN
  RefreshChecksums(
    [d EXCEPT !.slot = [s \in 1..Size(d) |->
                          IF s \in free
                          THEN [EmptySlot EXCEPT !.next = first({t \in free : t > s})]
                          ELSE d.slot[s]],
              !.head = first(free),
              !.count = Cardinality(free)])

(* ef_rebuild_free_list: every FREE slot, in ascending order.              *)
RebuildFreeList(d) ==
  LET free == {s \in 1..Size(d) : d.slot[s].status = "FREE"}
      first(set) == IF set = {} THEN 0 ELSE Min(set) IN
  RefreshChecksums(
    [d EXCEPT !.slot = [s \in 1..Size(d) |->
                          IF s \in free
                          THEN [d.slot[s] EXCEPT !.next = first({t \in free : t > s})]
                          ELSE d.slot[s]],
              !.head = first(free),
              !.count = Cardinality(free)])

(* ef_grow by one slot; room is the number of slots the buffer can hold.   *)
GrowSlots(d, room, txn) ==
  IF txn THEN Refuse(d, "GROW")
  ELSE IF Size(d) >= room THEN Refuse(d, "FILE_SIZE")
  ELSE Marked([d EXCEPT !.slot = Append(@, [EmptySlot EXCEPT !.next = d.head]),
                        !.head = Size(d) + 1, !.count = (@ + 1) % CountMod], "OK", << >>)

(* ef_alloc: an allocation that grows the database when it is full.        *)
AllocGrowing(d, room, txn) ==
  LET a == AllocSlot(d)
      g == GrowSlots(d, room, txn) IN
  IF a.err # "SLOT_FULL" THEN a ELSE IF g.err # "OK" THEN g
  ELSE [AllocSlot(g.db) EXCEPT !.marked = TRUE]

-----------------------------------------------------------------------------
(* Overflow chains.                                                        *)

(* ef_slot_has_overflow_chain *)
HasChain(d, s) ==
  LET t == d.slot[s].next IN t # 0 /\ d.slot[t].status = "OVERFLOW"

StampSlot(d, t) == [d EXCEPT !.slot[t] = Stamp(@)]

(* One turn of the loops that release the chain of a blob, where got is    *)
(* the slot they have come to: they stop with NOT_FOUND at a slot that is  *)
(* no overflow slot.  An overflow slot whose next has been set to 0 goes   *)
(* back to the pool, or, in a transaction, keeps its status.               *)
WalkStep(w, txn) ==
  LET t == w.got
      cut == [w.db EXCEPT !.slot[t].next = 0] IN
  IF t = 0 \/ w.err # "OK" THEN w
  ELSE IF w.db.slot[t].status # "OVERFLOW" THEN [w EXCEPT !.err = "NOT_FOUND"]
  ELSE [w EXCEPT !.db = IF txn THEN StampSlot(cut, t) ELSE ReturnSlot(cut, t),
                 !.got = w.db.slot[t].next,
                 !.marked = @ \/ ~txn]

(* The whole loop, from the head s on, which loses its next first.         *)
WalkChain(d, s, txn) ==
  LET start == [Refuse([d EXCEPT !.slot[s] = Stamp([@ EXCEPT !.next = 0])], "OK")
                  EXCEPT !.got = d.slot[s].next]
      walk[k \in 0..Size(d) + 1] == IF k = 0 THEN start ELSE WalkStep(walk[k - 1], txn)
  IN [walk[Size(d) + 1] EXCEPT !.got = 0]

(* Mutant: only the first overflow slot is returned.                       *)
ReleaseChainFirst(d, s) ==
  LET t == d.slot[s].next
      e == [d EXCEPT !.slot[s] = Stamp([@ EXCEPT !.next = 0])] IN
  IF HasChain(d, s) THEN Refuse(ReturnSlot(e, t), "OK") ELSE Refuse(e, "OK")

(* ef_blob_release_chain, and ef_blob_unlink_chain_in_txn, which leaves    *)
(* the overflow slots with their status and without an owner.              *)
ReleaseChain(d, s) == WalkChain(d, s, FALSE)

UnlinkChain(d, s) == WalkChain(d, s, TRUE)

-----------------------------------------------------------------------------
(* The slot API.  Arguments are slots of the database.                     *)

(* ef_free_slot; the record holds the next of the slot before its chain is *)
(* released.  Releasing fails when next is a link to a slot in use.        *)
FreeSlot(d, s) ==
  LET r == IF d.slot[s].status = "USED" THEN ReleaseChain(d, s) ELSE Refuse(d, "OK") IN
  IF d.slot[s].status = "FREE" THEN Refuse(d, "SLOT_FREE")
  ELSE IF LinkCrc(d.slot[s].status) THEN Refuse(d, "SLOT_BUSY")
  ELSE IF ~CrcValid(d.slot[s]) THEN Refuse(d, "BAD_CHECKSUM")
  ELSE IF r.err # "OK" THEN r
  ELSE Marked(ReturnSlot(r.db, s), "OK", <<FreeRec(s, d.slot[s]), CountRec(1)>>)

(* ef_set_status *)
SetStatus(d, s, status) ==
  LET slot == d.slot[s]
      marked == [slot EXCEPT !.status = status] IN
  IF status = "FREE" THEN FreeSlot(d, s)
  ELSE IF status = "USED" /\ slot.status = "FREE" THEN ClaimSlot(d, s)
  ELSE IF status = "USED" /\ slot.status = "USED" THEN Refuse(d, "OK")
  ELSE Result([d EXCEPT !.slot[s] = Stamp(marked)], "OK", <<StatusRec(s, slot)>>)

(* Mutant: the crc is left as it was.                                      *)
SetNextUnstamped(d, s, t) ==
  IF d.slot[s].status # "USED" \/ HasChain(d, s) THEN Refuse(d, "SLOT_BUSY")
  ELSE Result([d EXCEPT !.slot[s].next = t], "OK", <<NextRec(s, d.slot[s])>>)

(* ef_set_next_offset; t = 0 unlinks.                                      *)
SetNext(d, s, t) ==
  LET slot == d.slot[s] IN
  IF ~GetSlot(d, s) THEN Refuse(d, "BAD_CHECKSUM")
  ELSE IF slot.status # "USED" THEN Refuse(d, "SLOT_FREE")
  ELSE IF HasChain(d, s) THEN Refuse(d, "SLOT_BUSY")
  ELSE Result([d EXCEPT !.slot[s] = Stamp([slot EXCEPT !.next = t])], "OK",
              IF slot.next = t THEN << >> ELSE <<NextRec(s, slot)>>)

(* ef_write_payload: a FREE slot is claimed first, and only its status is  *)
(* recorded; an overflow slot becomes USED.                                *)
WritePayload(d, s, payload) ==
  LET slot == d.slot[s]
      c == IF slot.status = "FREE" THEN ClaimSlot(d, s) ELSE Refuse(d, "OK") IN
  IF c.err # "OK" THEN c
  ELSE IF ~CrcValid(c.db.slot[s]) THEN Refuse(d, "BAD_CHECKSUM")
  ELSE [Result([c.db EXCEPT !.slot[s] = Stamp([@ EXCEPT !.payload = payload, !.status = "USED"])],
               "OK", <<IF slot.status = "FREE" THEN StatusRec(s, slot) ELSE PayloadRec(s, slot)>>)
          EXCEPT !.marked = c.marked]

(* ef_write_field, of one byte of the first eight of the payload, of the   *)
(* status or of next; field says which, and slot is what the byte makes of *)
(* the slot.  The status that is there is not looked at.  Only byte 0, the *)
(* low byte of the status, is recorded, and as a payload: the record takes *)
(* eight bytes from where there is one, and junk stands for them.          *)
WriteField(d, s, field, slot, junk) ==
  IF ~GetSlot(d, s) THEN Refuse(d, "BAD_CHECKSUM")
  ELSE Result([d EXCEPT !.slot[s] = Stamp(slot)], "OK",
              IF field = "status" THEN <<[Rec("SLOT_PAYLOAD", s) EXCEPT !.first = junk]>>
              ELSE << >>)

(* ef_index_put of a key to a slot, and ef_index_remove.  A new key is     *)
(* refused when the table has no room for it and cannot grow, as it never  *)
(* can in a transaction; only a new key is recorded.                       *)
IndexPut(d, k, s, room, txn) ==
  IF d.index[k] # 0 THEN Marked([d EXCEPT !.index[k] = s], "OK", << >>)
  ELSE IF ~room THEN Refuse(d, IF txn THEN "INDEX_BUSY" ELSE "INDEX_FULL")
  ELSE Marked([d EXCEPT !.index[k] = s], "OK", <<KeyRec("INDEX_PUT", k, s)>>)

IndexRemove(d, k) ==
  IF d.index[k] = 0 THEN Refuse(d, "NOT_FOUND")
  ELSE Marked([d EXCEPT !.index[k] = 0], "OK", <<KeyRec("INDEX_REMOVE", k, d.index[k])>>)

-----------------------------------------------------------------------------
(* Blobs.                                                                  *)

BlobHead(data) ==
  [first |-> <<1, Len(data)>>,
   rest |-> SubSeq(data, 1, IF Len(data) < InlineCap THEN Len(data) ELSE InlineCap)]

(* Mutant: every overflow slot is linked to the head.                      *)
WriteChainAtHead(d, s, data, room, txn) ==
  LET loop[k \in 0..Len(data)] ==
        IF k = 0 THEN Refuse(d, "OK")
        ELSE LET w == loop[k - 1]
                 a == AllocGrowing(w.db, room, txn)
                 i == InlineCap + (k - 1) * ChunkCap + 1
                 ov == [EmptySlot EXCEPT !.status = "OVERFLOW", !.next = w.db.slot[s].next,
                                         !.payload.rest = SubSeq(data, i, i + ChunkCap - 1)] IN
             IF w.err # "OK" \/ i > Len(data) THEN w
             ELSE IF a.err # "OK" THEN [w EXCEPT !.err = a.err, !.db = a.db]
             ELSE [a EXCEPT !.db.slot[s].next = a.got, !.db.slot[a.got] = Stamp(ov)]
  IN loop[Len(data)]

(* One turn of the loop of ef_write_blob over the data that did not fit in *)
(* the head: got is the tail of the chain, and the pieces from position i  *)
(* on are still to be written.  ef_alloc_overflow_slot allocates and marks *)
(* the slot.                                                               *)
WriteStep(w, data, i, room, txn) ==
  LET a == AllocGrowing(w.db, room, txn)
      last == IF Len(data) < i + ChunkCap - 1 THEN Len(data) ELSE i + ChunkCap - 1
      ov == [EmptySlot EXCEPT !.status = "OVERFLOW", !.payload.rest = SubSeq(data, i, last)] IN
  IF w.err # "OK" \/ i > Len(data) THEN w
  ELSE IF a.err # "OK" THEN [w EXCEPT !.err = a.err, !.db = a.db, !.marked = @ \/ a.marked]
  ELSE [a EXCEPT !.db.slot[w.got] = Stamp([@ EXCEPT !.next = a.got]),
                 !.db.slot[a.got] = Stamp(ov),
                 !.recs = w.recs \o @]

WriteChain(d, s, data, room, txn) ==
  LET loop[k \in 0..Len(data)] ==
        IF k = 0 THEN [Refuse(d, "OK") EXCEPT !.got = s]
        ELSE WriteStep(loop[k - 1], data, InlineCap + (k - 1) * ChunkCap + 1, room, txn)
  IN loop[Len(data)]

(* What ef_write_blob does when an allocation fails.                       *)
DropBlob(w, s) ==
  LET r == ReleaseChain(w.db, s) IN
  [w EXCEPT !.db = StampSlot([r.db EXCEPT !.slot[s].payload = ZeroPayload], s),
            !.marked = @ \/ r.marked]

(* ef_write_blob, of a database in memory, where growing moves nothing.    *)
WriteBlob(d, s, data, room, txn) ==
  LET claimed == IF d.slot[s].status = "FREE" THEN ClaimSlot(d, s) ELSE Refuse(d, "OK")
      c == claimed.db
      r == IF txn THEN UnlinkChain(c, s) ELSE ReleaseChain(c, s)
      head == PayloadRec(s, r.db.slot[s])
      written == [r.db EXCEPT !.slot[s].payload = BlobHead(data)]
      w == WriteChain(written, s, data, room, txn)
      end == IF w.err # "OK" THEN DropBlob(w, s) ELSE [w EXCEPT !.db = StampSlot(@, s)] IN
  IF ~GetSlot(d, s) THEN Refuse(d, "BAD_CHECKSUM")
  ELSE IF claimed.err # "OK" THEN claimed
  ELSE IF c.slot[s].status # "USED" THEN [claimed EXCEPT !.err = "SLOT_BUSY"]
  ELSE IF r.err # "OK" THEN [r EXCEPT !.marked = @ \/ claimed.marked]
  ELSE [end EXCEPT !.recs = <<head>> \o @, !.got = 0,
                   !.marked = @ \/ claimed.marked \/ r.marked]

(* ef_read_blob into a buffer that is large enough.                        *)
ReadBlob(d, s) ==
  LET need == d.slot[s].payload.first[2]
      start == [err |-> "OK", data |-> d.slot[s].payload.rest, at |-> d.slot[s].next]
      walk[k \in 0..Size(d)] ==
        IF k = 0 THEN start
        ELSE LET w == walk[k - 1] IN
             IF w.err # "OK" \/ Len(w.data) >= need \/ w.at = 0 THEN w
             ELSE IF ~GetSlot(d, w.at) THEN [w EXCEPT !.err = "BAD_CHECKSUM"]
             ELSE IF d.slot[w.at].status # "OVERFLOW" THEN [w EXCEPT !.err = "NOT_FOUND"]
             ELSE [w EXCEPT !.data = @ \o d.slot[w.at].payload.rest, !.at = d.slot[w.at].next]
      fail(e) == [start EXCEPT !.err = e, !.data = << >>] IN
  IF ~GetSlot(d, s) THEN fail("BAD_CHECKSUM")
  ELSE IF d.slot[s].status # "USED" THEN fail("SLOT_FREE")
  ELSE IF d.slot[s].payload.first[1] # 1 THEN fail("NOT_FOUND")
  ELSE walk[Size(d)]

-----------------------------------------------------------------------------
(* The queue.                                                              *)

(* ef_queue_dummy_offset: when there is a head already that is no dummy,   *)
(* the slot that was allocated to be one goes back, without a record.      *)
QueueDummy(d) ==
  LET a == AllocSlot(d)
      s == a.got IN
  IF d.qhead # 0 /\ d.slot[d.qhead].status = "QUEUE_DUMMY" THEN Refuse(d, "OK")
  ELSE IF a.err # "OK" THEN a
  ELSE IF d.qhead # 0 THEN [a EXCEPT !.db = ReturnSlot(a.db, s)]
  ELSE [a EXCEPT !.db.slot[s] = Stamp([EmptySlot EXCEPT !.status = "QUEUE_DUMMY"]),
                 !.db.qhead = s, !.db.qtail = s]

(* ef_queue_push with ef_queue_enqueue_mpmc, of one message v.  A node that*)
(* cannot be linked goes back to the pool, without a record of that.       *)
QueuePush(d, v, room, txn) ==
  LET a == AllocGrowing(d, room, txn)
      n == a.got
      q == QueueDummy([a.db EXCEPT !.slot[n].payload.first = <<0, v>>])
      node == [q.db EXCEPT !.slot[n] = Stamp([@ EXCEPT !.next = 0, !.status = "QUEUED"])]
      t == node.qtail
      recs == a.recs \o q.recs IN
  IF a.err # "OK" THEN a
  ELSE IF q.err # "OK" THEN Marked(ReturnSlot(q.db, n), q.err, recs)
  ELSE IF t = 0 THEN Marked(ReturnSlot(node, n), "OFFSET", recs)
  ELSE Marked([node EXCEPT !.slot[t] = Stamp([@ EXCEPT !.next = n]), !.qtail = n], "OK",
              Append(recs, PushRec(n, node.slot[t].next)))

(* ef_queue_pop with ef_queue_dequeue_mpmc, into a buffer that is large    *)
(* enough; the record does not say that the node goes back to the pool.    *)
QueuePop(d) ==
  LET f == d.slot[d.qhead].next
      next == d.slot[f].next
      popped == [d EXCEPT !.slot[d.qhead] = Stamp([@ EXCEPT !.next = next]),
                          !.qtail = IF @ # f THEN @ ELSE IF next # 0 THEN next ELSE d.qhead] IN
  IF d.qhead = 0 THEN Refuse(d, "QUEUE_EMPTY")
  ELSE IF d.slot[d.qhead].status # "QUEUE_DUMMY" THEN Refuse(d, "NOT_FOUND")
  ELSE IF f = 0 THEN Refuse(d, "QUEUE_EMPTY")
  ELSE IF d.slot[f].status # "QUEUED" THEN Refuse(d, "NOT_FOUND")
  ELSE Marked(ReturnSlot(popped, f), "OK", <<PopRec(f, next, d.qtail)>>)

-----------------------------------------------------------------------------
(* The inverse of one record: the cases of ef_undo_replay_reverse.         *)

(* The case FREE_COUNT: an allocation, recorded as -1, is only given back  *)
(* to a counter that is not 0; a free is taken from any counter.           *)
UndoCount(count, delta) == IF delta < 0 /\ -delta > count THEN 0 ELSE (count - delta) % CountMod

(* The inverses of the changes to a slot; the slots of a record are there, *)
(* since the database cannot grow in a transaction.                        *)
RestoreStatus(d, s, status, crc) ==
  [d EXCEPT !.slot[s] = [@ EXCEPT !.status = status,
                                  !.crc = IF HasCrc(status) THEN crc ELSE << >>]]

RestoreNext(d, s, next) == [d EXCEPT !.slot[s] = Stamp([@ EXCEPT !.next = next])]

RestoreAlloc(d, s) ==
  [d EXCEPT !.slot[s] = [@ EXCEPT !.next = d.head, !.status = "FREE", !.crc = << >>],
            !.head = s]

(* The head of the free list is left alone.                                *)
RestoreFree(d, s, next, status) ==
  LET slot == [d.slot[s] EXCEPT !.next = next, !.status = status] IN
  [d EXCEPT !.slot[s] = IF HasCrc(status) THEN Stamp(slot) ELSE [slot EXCEPT !.crc = << >>]]

(* ef_queue_restore_before_push.  The next of a tail is 0, so that         *)
(* saved_tail_next names no slot: it is the dummy that loses its next, and *)
(* with it every older message, and it gets a crc made with its offset     *)
(* instead of its number.                                                  *)
OtherSum == <<"sum of another slot">>

RestorePush(d, n, saved) ==
  LET unlinked == IF saved = 0
                  THEN [d EXCEPT !.slot[d.qhead] = [@ EXCEPT !.next = 0, !.crc = OtherSum]]
                  ELSE [d EXCEPT !.slot[saved] = Stamp([@ EXCEPT !.next = 0])] IN
  IF d.qtail # n THEN d
  ELSE [unlinked EXCEPT !.qtail = saved, !.slot[n] = Stamp([@ EXCEPT !.status = "USED"])]

(* ef_queue_restore_before_pop.  Of the eight bytes of the saved tail the  *)
(* record holds four; the others are the first four of the record behind   *)
(* it, and if there is one, they make an offset where no slot is.          *)
RestorePop(d, n, next, tail, more) ==
  [d EXCEPT !.slot[d.qhead] = Stamp([@ EXCEPT !.next = n]),
            !.slot[n] = Stamp([@ EXCEPT !.next = next, !.status = "QUEUED"]),
            !.qtail = IF more THEN 0 ELSE tail]

(* The inverse of record r; more says that another record follows it.      *)
UndoRecord(d, r, more) ==
  LET s == r.slot IN
  CASE r.kind = "SLOT_STATUS" -> RestoreStatus(d, s, r.status, r.crc)
    [] r.kind = "SLOT_NEXT" -> RestoreNext(d, s, r.next)
    [] r.kind = "SLOT_PAYLOAD" -> [d EXCEPT !.slot[s] = Stamp([@ EXCEPT !.payload.first = r.first])]
    [] r.kind = "SLOT_ALLOC" -> RestoreAlloc(d, s)
    [] r.kind = "SLOT_FREE" -> RestoreFree(d, s, r.next, r.status)
    [] r.kind = "INDEX_PUT" -> RemoveBySlot(d, s)
    [] r.kind = "INDEX_REMOVE" -> [d EXCEPT !.index[r.key] = s]
    [] r.kind = "QUEUE_PUSH" -> RestorePush(d, s, r.next)
    [] r.kind = "QUEUE_POP" -> RestorePop(d, s, r.next, r.tail, more)
    [] r.kind = "FREE_COUNT" -> [d EXCEPT !.count = UndoCount(@, r.delta)]
=============================================================================
