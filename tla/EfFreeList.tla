----------------------------- MODULE EfFreeList -----------------------------
(***************************************************************************)
(* The persistent free list of Endfields DB: ef_alloc_slot_ex,             *)
(* ef_free_slot, ef_return_slot_to_pool, ef_free_list_pop_atomic and       *)
(* ef_free_list_push_atomic of src/src/endfields.c and ef_blob.c, called   *)
(* by any number of threads on one mapped superblock.  Every atomic access *)
(* to shared memory is a step of its own.                                  *)
(*                                                                         *)
(* Slot number k stands for slot id k-1; the file offset 0, which no slot  *)
(* has, is Null.  Payloads and checksums are left out.                     *)
(***************************************************************************)
EXTENDS Integers, FiniteSets

CONSTANTS
  Threads,         \* callers of the API
  MaxSlots,        \* sb->max_slots
  SchemaVersion,   \* sb->schema_version, fixed once the database is open
  CountMax,        \* the largest value of free_count (2^32 - 1 in the code)
  SpinMax          \* EF_QUEUE_SPIN_MAX: tries of a CAS loop

ASSUME ThreadsAssumption == IsFiniteSet(Threads)
ASSUME MaxSlotsAssumption == MaxSlots \in Nat \ {0}
ASSUME SchemaAssumption == SchemaVersion \in 1..5
ASSUME CountAssumption == CountMax \in Nat /\ MaxSlots <= CountMax
ASSUME SpinAssumption == SpinMax \in Nat \ {0}

Slots == 1..MaxSlots
Null == 0

VARIABLES
  free_list_head,    \* sb->free_list_head
  free_count,        \* sb->free_count
  next_offset,       \* slot->next_offset
  status,            \* slot->status: EF_STATUS_FREE or EF_STATUS_USED
  index_write_lock,  \* the lock byte of the superblock, 0 or 1
  pc,                \* where each thread is in the call it makes
  head,              \* local head of the two CAS loops
  next,              \* local next of ef_free_list_pop_atomic
  slot,              \* the slot a call to ef_free_slot is about
  spins,             \* local spins of the two CAS loops
  err,               \* result of each thread's last call
  pos,               \* auxiliary: a slot's height in the list, 0 when off it
  owned,             \* auxiliary: the slots each caller holds
  stray              \* auxiliary: slots no thread holds and no list contains

sharedVars == <<free_list_head, free_count, next_offset, status, index_write_lock>>
localVars == <<pc, head, next, slot, spins, err>>
auxVars == <<pos, owned, stray>>
vars == <<free_list_head, free_count, next_offset, status, index_write_lock,
          pc, head, next, slot, spins, err, pos, owned, stray>>

(* Mutant: the lock is taken from a later schema on than the code's.       *)
HasSeqlockTooLate == SchemaVersion > 5

(* ef_alloc_slot_ex takes the index write lock only from schema 5 on.      *)
HasSeqlock == SchemaVersion >= 5

InList == {s \in Slots : pos[s] > 0}
Depth == Cardinality(InList)

(* atomic_fetch_sub and atomic_fetch_add on an unsigned counter.           *)
FreeCountDec(c) == IF c = 0 THEN CountMax ELSE c - 1
FreeCountInc(c) == IF c = CountMax THEN 0 ELSE c + 1

-----------------------------------------------------------------------------
(* ef_build_free_list and ef_rebuild_free_list: link the slots of F in the *)
(* order of their ids and count them.                                      *)
Least(S) == CHOOSE m \in S : \A x \in S : m <= x
Above(F, s) == {f \in F : f > s}
LinkFrom(F, s) == IF Above(F, s) = {} THEN Null ELSE Least(Above(F, s))
Height(F, s) == IF s \in F THEN Cardinality(Above(F, s)) + 1 ELSE 0

(* Mutant: the rebuild links every slot, whatever its status.              *)
FreeSlotsAll == Slots

FreeSlots == {s \in Slots : status[s] = "FREE"}

Init ==
  /\ free_list_head = LinkFrom(Slots, 0)
  /\ free_count = Cardinality(Slots)
  /\ next_offset = [s \in Slots |-> LinkFrom(Slots, s)]
  /\ status = [s \in Slots |-> "FREE"]
  /\ index_write_lock = 0
  /\ pc = [t \in Threads |-> "idle"]
  /\ head = [t \in Threads |-> Null]
  /\ next = [t \in Threads |-> Null]
  /\ slot = [t \in Threads |-> Null]
  /\ spins = [t \in Threads |-> 0]
  /\ err = [t \in Threads |-> "OK"]
  /\ pos = [s \in Slots |-> Height(Slots, s)]
  /\ owned = [t \in Threads |-> {}]
  /\ stray = {}

(* Close and open again, with no call in progress: ef_rebuild_free_list    *)
(* goes by the status of the slots and ignores the list it finds.          *)
Reopen ==
  /\ \A t \in Threads : pc[t] = "idle"
  /\ free_list_head' = LinkFrom(FreeSlots, 0)
  /\ free_count' = Cardinality(FreeSlots)
  /\ next_offset' = [s \in Slots |-> IF s \in FreeSlots THEN LinkFrom(FreeSlots, s)
                                                        ELSE next_offset[s]]
  /\ pos' = [s \in Slots |-> Height(FreeSlots, s)]
  /\ stray' = {}
  /\ UNCHANGED <<status, index_write_lock, localVars, owned>>

-----------------------------------------------------------------------------
Goto(t, label) == pc' = [pc EXCEPT ![t] = label]

(* A call returns with result e; its locals are gone.                      *)
Return(t, e) ==
  /\ Goto(t, "idle")
  /\ err' = [err EXCEPT ![t] = e]
  /\ head' = [head EXCEPT ![t] = Null]
  /\ next' = [next EXCEPT ![t] = Null]
  /\ slot' = [slot EXCEPT ![t] = Null]
  /\ spins' = [spins EXCEPT ![t] = 0]

(* ef_alloc_slot_ex: enter the pop, under the lock when there is one.      *)
AllocCall(t) ==
  /\ pc[t] = "idle"
  /\ Goto(t, IF HasSeqlock THEN "alloc_lock" ELSE "pop_head")
  /\ UNCHANGED <<sharedVars, head, next, slot, spins, err, auxVars>>

(* ef_sb_index_write_lock_acquire: a CAS from 0 to 1, ...                  *)
LockAcquire(t, from, to) ==
  /\ pc[t] = from
  /\ index_write_lock = 0
  /\ index_write_lock' = 1
  /\ Goto(t, to)
  /\ UNCHANGED <<free_list_head, free_count, next_offset, status,
                 head, next, slot, spins, err, auxVars>>

(* ... which is given up after EF_SB_INDEX_SPIN_MAX tries.                 *)
LockBusy(t, from) ==
  /\ pc[t] = from
  /\ index_write_lock = 1
  /\ Return(t, "INDEX_BUSY")
  /\ UNCHANGED <<sharedVars, auxVars>>

AllocLock(t) == LockAcquire(t, "alloc_lock", "pop_head") \/ LockBusy(t, "alloc_lock")

(* Mutant: an early return that forgets the lock.                          *)
PopFailsUnreleased(t, e) == Goto(t, "idle") /\ err' = [err EXCEPT ![t] = e]

(* ef_free_list_pop_atomic, one memory access a step.                      *)
PopFails(t, e) == Goto(t, "alloc_unlock") /\ err' = [err EXCEPT ![t] = e]

PopHead(t) ==
  /\ pc[t] = "pop_head"
  /\ head' = [head EXCEPT ![t] = free_list_head]
  /\ IF free_list_head = Null THEN PopFails(t, "SLOT_FULL")
                              ELSE Goto(t, "pop_count") /\ UNCHANGED err
  /\ UNCHANGED <<sharedVars, next, slot, spins, auxVars>>

(* Mutant: the pool is reported full with one slot left.                   *)
PopCountOffByOne(t) ==
  /\ pc[t] = "pop_count"
  /\ IF free_count <= 1 THEN PopFails(t, "SLOT_FULL")
                        ELSE Goto(t, "pop_next") /\ UNCHANGED err
  /\ UNCHANGED <<sharedVars, head, next, slot, spins, auxVars>>

PopCount(t) ==
  /\ pc[t] = "pop_count"
  /\ IF free_count = 0 THEN PopFails(t, "SLOT_FULL")
                       ELSE Goto(t, "pop_next") /\ UNCHANGED err
  /\ UNCHANGED <<sharedVars, head, next, slot, spins, auxVars>>

PopNext(t) ==
  /\ pc[t] = "pop_next"
  /\ next' = [next EXCEPT ![t] = next_offset[head[t]]]
  /\ Goto(t, "pop_cas")
  /\ UNCHANGED <<sharedVars, head, slot, spins, err, auxVars>>

(* The CAS that takes the slot: from here on it is the caller's.           *)
PopCas(t) ==
  /\ pc[t] = "pop_cas"
  /\ free_list_head = head[t]
  /\ free_list_head' = next[t]
  /\ pos' = [pos EXCEPT ![head[t]] = 0]
  /\ owned' = [owned EXCEPT ![t] = @ \cup {head[t]}]
  /\ Goto(t, "pop_link")
  /\ UNCHANGED <<free_count, next_offset, status, index_write_lock,
                 head, next, slot, spins, err, stray>>

PopRetry(t) ==
  /\ pc[t] = "pop_cas"
  /\ free_list_head # head[t]
  /\ spins' = [spins EXCEPT ![t] = @ + 1]
  /\ IF spins[t] + 1 < SpinMax THEN Goto(t, "pop_head") /\ UNCHANGED err
                               ELSE PopFails(t, "QUEUE_BUSY")
  /\ UNCHANGED <<sharedVars, head, next, slot, auxVars>>

PopLink(t) ==
  /\ pc[t] = "pop_link"
  /\ next_offset' = [next_offset EXCEPT ![head[t]] = Null]
  /\ Goto(t, "pop_status")
  /\ UNCHANGED <<free_list_head, free_count, status, index_write_lock,
                 head, next, slot, spins, err, auxVars>>

PopStatus(t) ==
  /\ pc[t] = "pop_status"
  /\ status' = [status EXCEPT ![head[t]] = "USED"]
  /\ Goto(t, "pop_dec")
  /\ UNCHANGED <<free_list_head, free_count, next_offset, index_write_lock,
                 head, next, slot, spins, err, auxVars>>

(* Mutant: the counter is not updated.                                     *)
PopDecForgotten(t) ==
  /\ pc[t] = "pop_dec"
  /\ Goto(t, "alloc_unlock")
  /\ err' = [err EXCEPT ![t] = "OK"]
  /\ UNCHANGED <<sharedVars, head, next, slot, spins, auxVars>>

PopDec(t) ==
  /\ pc[t] = "pop_dec"
  /\ free_count' = FreeCountDec(free_count)
  /\ Goto(t, "alloc_unlock")
  /\ err' = [err EXCEPT ![t] = "OK"]
  /\ UNCHANGED <<free_list_head, next_offset, status, index_write_lock,
                 head, next, slot, spins, auxVars>>

(* ef_alloc_slot_ex: release the lock if it was taken, and return.         *)
AllocUnlock(t) ==
  /\ pc[t] = "alloc_unlock"
  /\ index_write_lock' = IF HasSeqlock THEN 0 ELSE index_write_lock
  /\ Return(t, err[t])
  /\ UNCHANGED <<free_list_head, free_count, next_offset, status, auxVars>>

Alloc(t) ==
  \/ AllocCall(t) \/ AllocLock(t)
  \/ PopHead(t) \/ PopCount(t) \/ PopNext(t) \/ PopCas(t) \/ PopRetry(t)
  \/ PopLink(t) \/ PopStatus(t) \/ PopDec(t) \/ AllocUnlock(t)

-----------------------------------------------------------------------------
(* ef_free_slot on a slot its caller holds: refuse one whose status is not *)
(* USED; ef_blob_release_chain then clears the slot's own link (the slots  *)
(* here have no overflow chain), before the index is touched.              *)
FreeCall(t, s) ==
  /\ pc[t] = "idle"
  /\ s \in owned[t]
  /\ IF status[s] # "USED"
     THEN Return(t, "SLOT_FREE") /\ UNCHANGED next_offset
     ELSE /\ next_offset' = [next_offset EXCEPT ![s] = Null]
          /\ slot' = [slot EXCEPT ![t] = s]
          /\ Goto(t, IF HasSeqlock THEN "free_lock" ELSE "push_head")
          /\ UNCHANGED <<head, next, spins, err>>
  /\ UNCHANGED <<free_list_head, free_count, status, index_write_lock, auxVars>>

(* ef_index_remove_by_slot: the index write lock is held while the entry   *)
(* of the slot is dropped; when it cannot be had the slot stays USED.      *)
FreeLock(t) == LockAcquire(t, "free_lock", "free_unlock") \/ LockBusy(t, "free_lock")

FreeUnlock(t) ==
  /\ pc[t] = "free_unlock"
  /\ index_write_lock' = 0
  /\ Goto(t, "push_head")
  /\ UNCHANGED <<free_list_head, free_count, next_offset, status,
                 head, next, slot, spins, err, auxVars>>

(* ef_free_list_push_atomic, one memory access a step.                     *)
PushHead(t) ==
  /\ pc[t] = "push_head"
  /\ head' = [head EXCEPT ![t] = free_list_head]
  /\ Goto(t, "push_link")
  /\ UNCHANGED <<sharedVars, next, slot, spins, err, auxVars>>

PushLink(t) ==
  /\ pc[t] = "push_link"
  /\ next_offset' = [next_offset EXCEPT ![slot[t]] = head[t]]
  /\ Goto(t, "push_status")
  /\ UNCHANGED <<free_list_head, free_count, status, index_write_lock,
                 head, next, slot, spins, err, auxVars>>

PushStatus(t) ==
  /\ pc[t] = "push_status"
  /\ status' = [status EXCEPT ![slot[t]] = "FREE"]
  /\ Goto(t, "push_cas")
  /\ UNCHANGED <<free_list_head, free_count, next_offset, index_write_lock,
                 head, next, slot, spins, err, auxVars>>

PushCas(t) ==
  /\ pc[t] = "push_cas"
  /\ free_list_head = head[t]
  /\ free_list_head' = slot[t]
  /\ pos' = [pos EXCEPT ![slot[t]] = Depth + 1]
  /\ owned' = [owned EXCEPT ![t] = @ \ {slot[t]}]
  /\ Goto(t, "push_inc")
  /\ UNCHANGED <<free_count, next_offset, status, index_write_lock,
                 head, next, slot, spins, err, stray>>

(* Mutant: the retries of a push are not bounded.                          *)
PushRetryForever(t) ==
  /\ pc[t] = "push_cas"
  /\ free_list_head # head[t]
  /\ Goto(t, "push_head")
  /\ UNCHANGED <<sharedVars, head, next, slot, spins, err, auxVars>>

(* Mutant: the retry takes the head its failed CAS saw, but does not store *)
(* it in the slot's link again.                                            *)
PushRetryStaleLink(t) ==
  /\ pc[t] = "push_cas"
  /\ free_list_head # head[t]
  /\ spins[t] + 1 < SpinMax
  /\ spins' = [spins EXCEPT ![t] = @ + 1]
  /\ head' = [head EXCEPT ![t] = free_list_head]
  /\ UNCHANGED <<sharedVars, pc, next, slot, err, auxVars>>

(* After the last try the call returns with the slot FREE but unlinked.    *)
PushRetry(t) ==
  /\ pc[t] = "push_cas"
  /\ free_list_head # head[t]
  /\ IF spins[t] + 1 < SpinMax
     THEN /\ spins' = [spins EXCEPT ![t] = @ + 1]
          /\ Goto(t, "push_head")
          /\ UNCHANGED <<head, next, slot, err, owned, stray>>
     ELSE /\ Return(t, "QUEUE_BUSY")
          /\ owned' = [owned EXCEPT ![t] = @ \ {slot[t]}]
          /\ stray' = stray \cup {slot[t]}
  /\ UNCHANGED <<sharedVars, pos>>

PushInc(t) ==
  /\ pc[t] = "push_inc"
  /\ free_count' = FreeCountInc(free_count)
  /\ Return(t, "OK")
  /\ UNCHANGED <<free_list_head, next_offset, status, index_write_lock, auxVars>>

Free(t) ==
  \/ \E s \in Slots : FreeCall(t, s)
  \/ FreeLock(t) \/ FreeUnlock(t)
  \/ PushHead(t) \/ PushLink(t) \/ PushStatus(t) \/ PushCas(t) \/ PushRetry(t)
  \/ PushInc(t)

Next == Reopen \/ \E t \in Threads : Alloc(t) \/ Free(t)

Spec == Init /\ [][Next]_vars

(* A thread inside a call keeps running; nobody has to make a call.        *)
Running(t) == pc[t] # "idle" /\ (Alloc(t) \/ Free(t))
FairSpec == Spec /\ \A t \in Threads : WF_vars(Running(t))

-----------------------------------------------------------------------------
PopLabels == {"pop_head", "pop_count", "pop_next", "pop_cas", "pop_link", "pop_status",
              "pop_dec", "alloc_unlock"}
PushLabels == {"push_head", "push_link", "push_status", "push_cas"}
Labels == {"idle", "alloc_lock", "free_lock", "free_unlock", "push_inc"}
            \cup PopLabels \cup PushLabels

(* Inside the region the index write lock protects.                        *)
Locked(t) == pc[t] \in PopLabels \cup {"free_unlock"}
(* Between the CAS of a pop and the decrement of the counter.              *)
Popping == {t \in Threads : pc[t] \in {"pop_link", "pop_status", "pop_dec"}}
(* Between the CAS of a push and the increment of the counter.             *)
Pushing == {t \in Threads : pc[t] = "push_inc"}

(* Type correctness of the superblock fields and of the callers' locals;   *)
(* free_count never wraps and never exceeds max_slots.                     *)
TypeOK ==
  /\ free_list_head \in Slots \cup {Null}
  /\ free_count \in 0..MaxSlots
  /\ next_offset \in [Slots -> Slots \cup {Null}]
  /\ status \in [Slots -> {"FREE", "USED"}]
  /\ index_write_lock \in {0, 1}
  /\ pc \in [Threads -> Labels]
  /\ head \in [Threads -> Slots \cup {Null}]
  /\ next \in [Threads -> Slots \cup {Null}]
  /\ slot \in [Threads -> Slots \cup {Null}]
  /\ spins \in [Threads -> Nat]
  /\ err \in [Threads -> {"OK", "SLOT_FULL", "SLOT_FREE", "INDEX_BUSY", "QUEUE_BUSY"}]
  /\ pos \in [Slots -> Nat]
  /\ owned \in [Threads -> SUBSET Slots]
  /\ stray \in SUBSET Slots

(* The lock byte of ef_alloc_slot_ex and ef_index_remove_by_slot excludes: *)
(* it is set exactly while one thread is in a locked region, on every      *)
(* return path.                                                            *)
LockExcludes ==
  /\ index_write_lock = 1 <=> \E t \in Threads : Locked(t)
  /\ \A t, u \in Threads : Locked(t) /\ Locked(u) => t = u

(* No slot is handed out twice: at any moment a slot is on the list, held  *)
(* by one caller, or stranded by a push that gave up - exactly one of them *)
(* (ef_free_list_pop_atomic, ef_free_list_push_atomic).                    *)
OwnedOnce ==
  /\ Slots = InList \cup stray \cup UNION {owned[t] : t \in Threads}
  /\ InList \cap stray = {}
  /\ \A t \in Threads : owned[t] \cap (InList \cup stray) = {}
  /\ \A t, u \in Threads : t # u => owned[t] \cap owned[u] = {}

(* The links in memory are the list: following next_offset from            *)
(* free_list_head visits every listed slot once, top down, and ends at 0,  *)
(* while pops and pushes of other threads are in progress.                 *)
ListLinked ==
  /\ IF InList = {} THEN free_list_head = Null
                    ELSE free_list_head \in InList /\ pos[free_list_head] = Depth
  /\ \A s \in InList : pos[s] <= Depth
  /\ \A s, r \in InList : pos[s] = pos[r] => s = r
  /\ \A s \in InList : IF pos[s] = 1 THEN next_offset[s] = Null
                        ELSE next_offset[s] \in InList /\ pos[next_offset[s]] = pos[s] - 1

(* free_count differs from the length of the list only by the calls that   *)
(* are between their CAS and their update of the counter, so it is exact   *)
(* at rest.                                                                *)
CountExact == free_count + Cardinality(Pushing) = Depth + Cardinality(Popping)

-----------------------------------------------------------------------------
(* The strengthening that makes the properties above inductive.            *)

(* A pop only ever looks at a listed slot, and what it read there is still *)
(* so when its CAS succeeds: no other pop can run (there is no ABA), and   *)
(* pushes do not touch the links of listed slots.                          *)
PopReads(t) ==
  /\ pc[t] \in {"pop_count", "pop_next", "pop_cas"} => head[t] \in InList
  /\ pc[t] = "pop_cas" => next[t] = next_offset[head[t]]
  /\ pc[t] \in {"pop_link", "pop_status", "pop_dec"} => head[t] \in owned[t]
  /\ pc[t] \in {"pop_next", "pop_cas", "pop_link", "pop_status", "pop_dec"}
       => free_count >= 1

(* The slot being freed is the caller's until the CAS of the push.         *)
PushReads(t) ==
  /\ pc[t] \in {"free_lock", "free_unlock"} \cup PushLabels => slot[t] \in owned[t]
  /\ pc[t] \in {"push_status", "push_cas"} => next_offset[slot[t]] = head[t]
  /\ pc[t] = "push_cas" => status[slot[t]] = "FREE"

(* The status word agrees with the list, up to calls in progress.          *)
StatusAgrees ==
  /\ \A s \in InList \cup stray : status[s] = "FREE"
  /\ \A t \in Threads : \A s \in owned[t] :
       \/ status[s] = "USED"
       \/ s = head[t] /\ pc[t] \in {"pop_link", "pop_status"}
       \/ s = slot[t] /\ pc[t] \in PushLabels

IInv ==
  /\ TypeOK
  /\ LockExcludes
  /\ OwnedOnce
  /\ ListLinked
  /\ CountExact
  /\ \A t \in Threads : PopReads(t) /\ PushReads(t)
  /\ StatusAgrees

(* ef_alloc_slot reports EF_ERR_SLOT_FULL (and ef_alloc then grows the     *)
(* file) only if every slot on the list was put there by a push that has   *)
(* not counted it yet.                                                     *)
FullMeansUncounted ==
  [][\A t \in Threads :
       pc[t] \in {"pop_head", "pop_count"} /\ pc'[t] = "alloc_unlock"
         => Depth <= Cardinality(Pushing)]_vars

(* The compare-and-swap list implements the pool of EfPool.                *)
Pool == INSTANCE EfPool WITH avail <- InList, held <- owned, lost <- stray
ImplementsPool == Pool!PoolSpec

(* Every call of ef_alloc_slot and ef_free_slot returns.                   *)
EveryCallReturns == \A t \in Threads : pc[t] # "idle" ~> pc[t] = "idle"
=============================================================================
