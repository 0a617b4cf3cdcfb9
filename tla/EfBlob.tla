------------------------------- MODULE EfBlob -------------------------------
(***************************************************************************)
(* Slots, blobs and the free list under any sequence of calls made by one  *)
(* thread outside transactions, on a database in a memory buffer that can  *)
(* be reopened, without keys.  The calls are those of EfSlots; here they   *)
(* share a pool that runs out, grows to the end of its buffer and is       *)
(* rebuilt when the database is opened.                                    *)
(*                                                                         *)
(* A caller knows the slots it allocated or claimed.  It is not told the   *)
(* overflow slots, and passes none to a call.                              *)
(***************************************************************************)
EXTENDS EfSlots

CONSTANTS
  InitSlots,    \* slots of the new database
  Room,         \* slots the buffer has room for
  Values,       \* what a caller writes
  MaxLen,       \* bound: the longest blob, in pieces
  VisitCache,   \* slots that ef_chase_n remembers, EF_CHASE_VISIT_CACHE
  MaxDepth,     \* slots that ef_chase_n visits, EF_CHASE_MAX_DEPTH
  StaleLinks    \* a caller may free a slot that another slot links to

ASSUME BlobAssumption ==
  /\ InitSlots \in Nat /\ Room \in Nat /\ InitSlots <= Room
  /\ VisitCache \in Nat /\ MaxDepth \in Nat
  /\ StaleLinks \in BOOLEAN

LOCAL INSTANCE FiniteSetsExt    \* Min

VARIABLES
  d,        \* the database
  blob      \* auxiliary: the data last written to a slot with ef_write_blob

vars == <<d, blob>>

NoBlob == <<0>>    \* not the data of any blob
Slots == 1..Size(d)

(* ef_build_free_list *)
NewDb(n) ==
  [slot |-> [s \in 1..n |-> [EmptySlot EXCEPT !.next = IF s < n THEN s + 1 ELSE 0]],
   head |-> IF n = 0 THEN 0 ELSE 1, count |-> n, index |-> << >>,
   qhead |-> 0, qtail |-> 0]

Init ==
  /\ d = NewDb(InitSlots)
  /\ blob = [s \in 1..Room |-> NoBlob]

(* A call ends with result r; slot s holds the blob b from now on.         *)
Return(r, s, b) ==
  /\ d' = r.db
  /\ blob' = IF s = 0 THEN blob ELSE [blob EXCEPT ![s] = b]

Gone(r, s) == IF r.err = "OK" THEN s ELSE 0

(* The slots a caller may name.                                            *)
Known(s) == s \in Slots /\ d.slot[s].status # "OVERFLOW"

(* The slots it may free: with care, none that another slot links to.      *)
Freeable(s) ==
  /\ Known(s)
  /\ StaleLinks \/ \A t \in Slots : d.slot[t].status = "USED" => d.slot[t].next # s

Alloc == LET r == AllocGrowing(d, Room, FALSE) IN Return(r, 0, NoBlob)

Free(s) == Freeable(s) /\ LET r == FreeSlot(d, s) IN Return(r, Gone(r, s), NoBlob)

ChangeStatus(s, status) ==
  /\ status = "FREE" => Freeable(s)
  /\ Known(s)
  /\ LET r == SetStatus(d, s, status) IN
     Return(r, IF status = "FREE" THEN Gone(r, s) ELSE 0, NoBlob)

Link(s, t) ==
  /\ Known(s)
  /\ t # 0 => Known(t) /\ d.slot[t].status = "USED"
  /\ Return(SetNext(d, s, t), 0, NoBlob)

(* A payload of at most eight bytes; it replaces the header of a blob.     *)
Write(s, v) ==
  /\ Known(s)
  /\ LET r == WritePayload(d, s, [first |-> <<0, v>>, rest |-> << >>]) IN
     Return(r, Gone(r, s), NoBlob)

WriteB(s, v, n) ==
  /\ Known(s)
  /\ LET data == [i \in 1..n |-> 10 * v + i]
         r == WriteBlob(d, s, data, Room, FALSE) IN
     /\ Return(r, IF r.err \in {"BAD_CHECKSUM", "SLOT_BUSY", "NOT_FOUND"} THEN 0 ELSE s,
               IF r.err = "OK" THEN data ELSE NoBlob)

Grow == Return(GrowSlots(d, Room, FALSE), 0, NoBlob)

(* ef_close and ef_open_memory *)
Reopen == Return(Refuse(RebuildFreeList(d), "OK"), 0, NoBlob)

Next ==
  \/ Alloc
  \/ \E s \in 1..Room : Free(s)
  \/ \E s \in 1..Room, status \in {"FREE", "USED"} : ChangeStatus(s, status)
  \/ \E s \in 1..Room, t \in 0..Room : Link(s, t)
  \/ \E s \in 1..Room, v \in Values : Write(s, v)
  \/ \E s \in 1..Room, v \in Values, n \in 0..MaxLen : WriteB(s, v, n)
  \/ Grow
  \/ Reopen

Spec == Init /\ [][Next]_vars

-----------------------------------------------------------------------------
(* Reading along the links, which changes nothing.  0 stands for NULL.     *)

(* ef_chase *)
Chase(s) ==
  LET t == d.slot[s].next IN IF t # 0 /\ d.slot[t].status = "USED" THEN t ELSE 0

(* Mutant: the last place of the cache stays empty.                        *)
RememberOneLess(seen, s) == IF Cardinality(seen) < VisitCache - 1 THEN seen \cup {s} ELSE seen

(* The slots that a walk remembers after it has visited slot s.            *)
Remember(seen, s) == IF Cardinality(seen) < VisitCache THEN seen \cup {s} ELSE seen

(* ef_chase_n from slot s: the slot it returns, and in done the number it  *)
(* stores in hops_done_out.  The slot after the last hop is not looked at. *)
ChaseN(s, hops) ==
  LET limit == IF hops > MaxDepth THEN MaxDepth ELSE hops
      walk[i \in 0..limit] ==
        IF i = 0 THEN [err |-> "OK", at |-> s, seen |-> {}, end |-> FALSE, done |-> 0]
        ELSE LET w == walk[i - 1]
                 slot == d.slot[w.at] IN
             IF w.err # "OK" \/ w.end THEN w
             ELSE IF w.at \in w.seen THEN [w EXCEPT !.err = "CHASE_CYCLE"]
             ELSE IF slot.status # "USED" THEN [w EXCEPT !.err = "SLOT_FREE"]
             ELSE IF slot.next = 0 THEN [w EXCEPT !.end = TRUE, !.done = i]
             ELSE [w EXCEPT !.at = slot.next, !.seen = Remember(@, w.at), !.done = i]
      last == walk[limit] IN
  IF last.err = "OK" /\ ~last.end /\ hops > MaxDepth
  THEN [last EXCEPT !.err = "CHASE_DEPTH"] ELSE last

(* ef_foreach_used with a visitor that never stops it: the slots visited.  *)
ForeachUsed ==
  LET walk[i \in 0..Size(d)] ==
        IF i = 0 THEN [err |-> "OK", visited |-> {}]
        ELSE LET w == walk[i - 1] IN
             IF w.err # "OK" \/ d.slot[i].status # "USED" THEN w
             ELSE IF CrcValid(d.slot[i]) THEN [w EXCEPT !.visited = @ \cup {i}]
             ELSE [w EXCEPT !.err = "BAD_CHECKSUM"]
  IN walk[Size(d)]

(* ef_slot_iter_next of an iterator that has come to index.                *)
SlotIterNext(index) ==
  LET used == {s \in Slots : s > index /\ d.slot[s].status = "USED"} IN
  IF used = {} THEN [ret |-> 0, index |-> Size(d)]
  ELSE [ret |-> IF CrcValid(d.slot[Min(used)]) THEN 1 ELSE -1, index |-> Min(used)]

-----------------------------------------------------------------------------
(* The chain of overflow slots that hangs on slot s.                       *)
Chain(s) ==
  LET walk[k \in 0..Size(d)] ==
        IF k = 0 THEN {}
        ELSE LET w == walk[k - 1] IN
             w \cup {t \in Slots : /\ d.slot[t].status = "OVERFLOW"
                                   /\ \E u \in w \cup {s} : d.slot[u].next = t}
  IN walk[Size(d)]

Heads == {s \in Slots : d.slot[s].status = "USED"}

(* Every slot that a call can meet passes the check of its crc, with links *)
(* and counter in range: after any calls ef_foreach_used comes to its end  *)
(* and has visited the slots in use, ef_slot_iter_next finds the same, and *)
(* no walk ends with EF_ERR_BAD_CHECKSUM.                                  *)
SlotsReadable ==
  /\ d.head \in 0..Size(d) /\ d.count \in 0..Size(d)
  /\ ForeachUsed = [err |-> "OK", visited |-> Heads]
  /\ \A s \in Heads : SlotIterNext(s - 1) = [ret |-> 1, index |-> s]
  /\ \A s \in Slots : d.slot[s].next \in 0..Size(d) /\ CrcValid(d.slot[s])

(* The free list is the FREE slots, each once, and free_count is their     *)
(* number, after allocations, claims in the middle of the list, frees of   *)
(* whole chains, blob writes that fail half way, growth and reopening      *)
(* (ef_unlink_free_slot, ef_blob_release_chain, ef_grow_append_slots).     *)
PoolExact ==
  LET c == Cursor(d)
      free == {s \in Slots : d.slot[s].status = "FREE"} IN
  /\ d.count = Cardinality(free)
  /\ {c[k] : k \in DOMAIN c} = free \cup {0}
  /\ \A i, j \in DOMAIN c : c[i] = c[j] /\ c[i] # 0 => i = j

(* Every overflow slot hangs on exactly one slot in use: ef_write_blob and *)
(* ef_free_slot neither leak a continuation nor share it between blobs.    *)
ChainsOwned ==
  \A t \in Slots :
    d.slot[t].status = "OVERFLOW" => Cardinality({s \in Heads : t \in Chain(s)}) = 1

(* ef_read_blob gives back what ef_write_blob last stored in the slot,     *)
(* whatever happened to other slots in between.                            *)
BlobKept ==
  \A s \in Slots : blob[s] # NoBlob => ReadBlob(d, s).err = "OK" /\ ReadBlob(d, s).data = blob[s]

(* ef_chase_n goes where as many calls of ef_chase go, and ends where the  *)
(* links do; it reports a cycle only when there is one, and reports every  *)
(* one that it comes back to and that begins among the slots it remembers. *)
(* Asked for more than its depth, it returns no slot of a cycle at all.    *)
ChaseAgrees ==
  \A s \in Heads :
    LET path[k \in 0..MaxDepth] ==
          IF k = 0 THEN s ELSE IF path[k - 1] = 0 THEN 0 ELSE Chase(path[k - 1])
        repeats(m, n) == \E i \in 0..m : path[i] # 0 /\ \E j \in i + 1..n : path[i] = path[j] IN
    /\ repeats(MaxDepth, MaxDepth) => ChaseN(s, MaxDepth + 1).err # "OK"
    /\ \A hops \in 1..MaxDepth :
         LET r == ChaseN(s, hops) IN
         /\ r.err = "CHASE_CYCLE" => repeats(hops, hops)
         /\ repeats(VisitCache - 1, hops - 1) => r.err = "CHASE_CYCLE"
         /\ path[hops] # 0 /\ ~repeats(hops, hops) =>
              r.err = "OK" /\ r.at = path[hops] /\ r.done = hops
         /\ r.err = "OK" /\ r.end => d.slot[r.at].next = 0 /\ r.at = path[r.done - 1]
=============================================================================
