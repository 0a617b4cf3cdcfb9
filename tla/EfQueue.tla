------------------------------- MODULE EfQueue -------------------------------
(***************************************************************************)
(* The queue of src/src/ef_queue.c: a list of slots behind a dummy slot,   *)
(* which the first push creates, with the queue_lock byte around every     *)
(* change of the links.  Every access to shared memory that another thread *)
(* can see is a step of its own.                                           *)
(*                                                                         *)
(* Slots come from and go back to the pool of EfPool, one step an          *)
(* operation; PoolErrs are the errors contention for the index write lock  *)
(* and for the head of the free list can make those operations return.     *)
(* The pool cannot grow (a memory backend at its capacity), so that a push *)
(* on an empty pool fails.  Calls outside a transaction.                   *)
(***************************************************************************)
EXTENDS Integers, Sequences, FiniteSets, Functions

CONSTANTS
  Threads,     \* callers of the API
  Slots,       \* the slots of the file
  Null,        \* offset 0, which no slot has
  MaxMsgs,     \* bound: the number of pushes
  PoolErrs,    \* a subset of {"INDEX_BUSY", "QUEUE_BUSY"}
  MaxFaults    \* bound: how often the pool returns one of them

ASSUME QueueNull == Null \notin Slots
ASSUME QueueSlots == IsFiniteSet(Slots)
ASSUME QueueMaxMsgs == MaxMsgs \in Nat /\ MaxFaults \in Nat
ASSUME QueuePoolErrs == PoolErrs \subseteq {"INDEX_BUSY", "QUEUE_BUSY"}

Messages == 1..MaxMsgs

VARIABLES
  queue_head,     \* the offset of the dummy, Null until the first push
  queue_tail,     \* the offset of the last node, of the dummy when there is none
  queue_lock,     \* the lock byte of the superblock, 0 or 1
  next_offset,    \* slot->next_offset
  status,         \* slot->status
  payload,        \* the message in a slot
  avail, lost,    \* the pool: free slots, slots stranded by a push of the free list
  faults,         \* how often the pool has returned one of PoolErrs
  pc, slot, dummy, tail_off, first, first_next, buf, err,    \* locals of each call
  calls,          \* the number of pushes made
  dead,           \* the threads whose process has died inside a call
  items,          \* auxiliary: the slots linked in the queue, oldest first
  delivered,      \* auxiliary: the messages unlinked, in that order
  accepted,       \* auxiliary: messages whose push returned EF_OK
  received,       \* auxiliary: messages that a pop returned with EF_OK
  leaked          \* auxiliary: slots nothing refers to, and that are not FREE

headVars == <<queue_head, queue_tail, queue_lock>>
slotVars == <<next_offset, status, payload>>
poolVars == <<avail, lost, leaked, faults>>
localVars == <<slot, dummy, tail_off, first, first_next, buf, err>>
doneVars == <<accepted, received, dead>>
vars == <<headVars, slotVars, poolVars, pc, localVars, calls, items, delivered, doneVars>>

Init ==
  /\ queue_head = Null /\ queue_tail = Null /\ queue_lock = 0
  /\ next_offset = [s \in Slots |-> Null]
  /\ status = [s \in Slots |-> "FREE"]
  /\ payload = [s \in Slots |-> 0]
  /\ avail = Slots /\ lost = {} /\ leaked = {} /\ faults = 0
  /\ pc = [t \in Threads |-> "idle"]
  /\ slot = [t \in Threads |-> Null]
  /\ dummy = [t \in Threads |-> Null]
  /\ tail_off = [t \in Threads |-> Null]
  /\ first = [t \in Threads |-> Null]
  /\ first_next = [t \in Threads |-> Null]
  /\ buf = [t \in Threads |-> 0]
  /\ err = [t \in Threads |-> "OK"]
  /\ calls = 0 /\ items = <<>> /\ delivered = <<>>
  /\ accepted = {} /\ received = {} /\ dead = {}

Goto(t, label) == pc' = [pc EXCEPT ![t] = label]
Fail(t, e, label) == Goto(t, label) /\ err' = [err EXCEPT ![t] = e]

(* A call starts with a fresh result.                                      *)
Begin(t, label) == Fail(t, "OK", label)

(* The results that say that there is no message: of ef_queue_pop, of      *)
(* ef_queue_drained and of ef_queue_empty.                                 *)
EmptyAnswers == {"QUEUE_EMPTY", "DRAINED", "EMPTY"}

(* The call returns e; its locals are gone.  All that is kept of the       *)
(* result is whether it is one of EmptyAnswers.                            *)
Return(t, e) ==
  /\ Fail(t, IF e \in EmptyAnswers THEN "EMPTY" ELSE "OK", "idle")
  /\ slot' = [slot EXCEPT ![t] = Null]
  /\ dummy' = [dummy EXCEPT ![t] = Null]
  /\ tail_off' = [tail_off EXCEPT ![t] = Null]
  /\ first' = [first EXCEPT ![t] = Null]
  /\ first_next' = [first_next EXCEPT ![t] = Null]
  /\ buf' = [buf EXCEPT ![t] = 0]

-----------------------------------------------------------------------------
(* The pool, as the queue uses it.                                         *)

(* ef_alloc_slot succeeds with slot s.                                     *)
Take(s) ==
  /\ s \in avail
  /\ avail' = avail \ {s}
  /\ next_offset' = [next_offset EXCEPT ![s] = Null]
  /\ UNCHANGED <<lost, leaked, faults>>

(* The errors the pool can return now, and that it returns e.              *)
Faults == IF faults < MaxFaults THEN PoolErrs ELSE {}
Fault(e) == faults' = IF e \in PoolErrs THEN faults + 1 ELSE faults

(* ef_alloc_slot returns error e.                                          *)
TakeFails(e) ==
  /\ e \in Faults \/ (e = "SLOT_FULL" /\ avail = {})
  /\ Fault(e)
  /\ UNCHANGED <<slotVars, avail, lost, leaked>>

(* ef_return_slot_to_pool returns e.  INDEX_BUSY: the slot keeps its       *)
(* status, and nothing refers to it any more.  QUEUE_BUSY: it is cleared   *)
(* and marked FREE but not linked.  The link of a FREE slot is the pool's. *)
GiveBack(s, e, kept) ==
  /\ e \in Faults \cup {"OK"}
  /\ Fault(e)
  /\ status' = [status EXCEPT ![s] = IF e = "INDEX_BUSY" THEN kept ELSE "FREE"]
  /\ payload' = [payload EXCEPT ![s] = IF e = "INDEX_BUSY" THEN @ ELSE 0]
  /\ next_offset' = [next_offset EXCEPT ![s] = IF e = "INDEX_BUSY" THEN @ ELSE Null]
  /\ avail' = IF e = "OK" THEN avail \cup {s} ELSE avail
  /\ lost' = IF e = "QUEUE_BUSY" THEN lost \cup {s} ELSE lost
  /\ leaked' = IF e = "INDEX_BUSY" THEN leaked \cup {s} ELSE leaked

(* The process of t dies inside a call: what the call had in its hands     *)
(* stays as it is, the lock too.  A bound: one process dies.               *)
Die(t) ==
  /\ pc[t] # "idle" /\ dead = {}
  /\ dead' = {t}
  /\ UNCHANGED <<headVars, slotVars, poolVars, pc, localVars, calls, items, delivered,
                 accepted, received>>

(* Close and open with no call in progress: ef_rebuild_free_list collects  *)
(* the FREE slots; nothing looks at the queue or at its lock.              *)
Reopen ==
  /\ \A t \in Threads \ dead : pc[t] = "idle"
  /\ avail' = {s \in Slots : status[s] = "FREE"}
  /\ lost' = {}
  /\ UNCHANGED <<headVars, slotVars, leaked, faults, pc, localVars, calls, items, delivered, doneVars>>

-----------------------------------------------------------------------------
(* ef_queue_lock_acquire: a CAS of the lock byte, given up after           *)
(* EF_SB_INDEX_SPIN_MAX tries with EF_ERR_QUEUE_BUSY.                      *)
LockAcquire(t, label) ==
  /\ queue_lock = 0
  /\ queue_lock' = 1
  /\ Goto(t, label)
  /\ UNCHANGED <<queue_head, queue_tail, slotVars, poolVars, localVars,
                 calls, items, delivered, doneVars>>

LockBusy == queue_lock = 1

(* ef_queue_push: allocate a slot, copy the message into it.               *)
PushCall(t) ==
  /\ pc[t] = "idle"
  /\ calls < MaxMsgs
  /\ calls' = calls + 1
  /\ \/ \E s \in avail :
          /\ Take(s)
          /\ status' = [status EXCEPT ![s] = "USED"]
          /\ payload' = [payload EXCEPT ![s] = calls + 1]
          /\ slot' = [slot EXCEPT ![t] = s]
          /\ Begin(t, "dummy_head")
          /\ UNCHANGED <<dummy, tail_off, first, first_next, buf>>
     \/ \E e \in PoolErrs \cup {"SLOT_FULL"} : TakeFails(e) /\ Return(t, e)
  /\ UNCHANGED <<headVars, items, delivered, doneVars>>

(* ef_queue_dummy_offset: is there a dummy already?                        *)
DummyHead(t) ==
  /\ pc[t] = "dummy_head"
  /\ Goto(t, IF queue_head # Null /\ status[queue_head] = "QUEUE_DUMMY" THEN "node" ELSE "dummy_alloc")
  /\ UNCHANGED <<headVars, slotVars, poolVars, localVars, calls, items, delivered, doneVars>>

(* Mutant: the dummy is published without being marked.                    *)
DummyAllocUnmarked(t) ==
  /\ pc[t] = "dummy_alloc"
  /\ \E s \in avail :
       /\ Take(s)
       /\ status' = [status EXCEPT ![s] = "USED"]
       /\ dummy' = [dummy EXCEPT ![t] = s]
  /\ Goto(t, "dummy_cas")
  /\ UNCHANGED <<headVars, payload, slot, tail_off, first, first_next, buf, err,
                 calls, items, delivered, doneVars>>

(* ... if not, prepare a slot, still private to the caller, ...            *)
DummyAlloc(t) ==
  /\ pc[t] = "dummy_alloc"
  /\ \/ \E s \in avail :
          /\ Take(s)
          /\ status' = [status EXCEPT ![s] = "QUEUE_DUMMY"]
          /\ payload' = [payload EXCEPT ![s] = 0]
          /\ dummy' = [dummy EXCEPT ![t] = s]
          /\ Goto(t, "dummy_cas")
          /\ UNCHANGED err
     \/ \E e \in PoolErrs \cup {"SLOT_FULL"} :
          TakeFails(e) /\ Fail(t, e, "push_return") /\ UNCHANGED dummy
  /\ UNCHANGED <<headVars, slot, tail_off, first, first_next, buf, calls, items, delivered, doneVars>>

(* ... and install it if the head is still 0, ...                          *)
DummyCas(t) ==
  /\ pc[t] = "dummy_cas"
  /\ IF queue_head = Null
     THEN queue_head' = dummy[t] /\ Goto(t, "dummy_tail")
     ELSE UNCHANGED queue_head /\ Goto(t, "dummy_return")
  /\ UNCHANGED <<queue_tail, queue_lock, slotVars, poolVars, localVars,
                 calls, items, delivered, doneVars>>

(* ... the tail following in a second store, without the lock, ...         *)
DummyTail(t) ==
  /\ pc[t] = "dummy_tail"
  /\ queue_tail' = dummy[t]
  /\ Goto(t, "node")
  /\ UNCHANGED <<queue_head, queue_lock, slotVars, poolVars, localVars,
                 calls, items, delivered, doneVars>>

(* Mutant: the producer that was second keeps its dummy.                   *)
DummyReturnForgotten(t) ==
  /\ pc[t] = "dummy_return"
  /\ Goto(t, "node")
  /\ UNCHANGED <<headVars, slotVars, poolVars, localVars, calls, items, delivered, doneVars>>

(* ... or give it back when another producer was first, whatever           *)
(* ef_return_slot_to_pool says.                                            *)
DummyReturn(t) ==
  /\ pc[t] = "dummy_return"
  /\ \E e \in PoolErrs \cup {"OK"} : GiveBack(dummy[t], e, "USED")
  /\ Goto(t, "node")
  /\ UNCHANGED <<headVars, localVars, calls, items, delivered, doneVars>>

(* ef_queue_enqueue_mpmc: prepare the node, ...                            *)
Node(t) ==
  /\ pc[t] = "node"
  /\ next_offset' = [next_offset EXCEPT ![slot[t]] = Null]
  /\ status' = [status EXCEPT ![slot[t]] = "QUEUED"]
  /\ Goto(t, "push_lock")
  /\ UNCHANGED <<headVars, payload, poolVars, localVars, calls, items, delivered, doneVars>>

PushLock(t) ==
  /\ pc[t] = "push_lock"
  /\ \/ LockAcquire(t, "tail_load")
     \/ /\ LockBusy
        /\ Fail(t, "QUEUE_BUSY", "push_return")
        /\ UNCHANGED <<headVars, slotVars, poolVars, slot, dummy, tail_off, first, first_next, buf,
                       calls, items, delivered, doneVars>>

(* Mutant: the node is linked behind the dummy instead of the tail.        *)
TailLoadDummy(t) ==
  /\ pc[t] = "tail_load"
  /\ tail_off' = [tail_off EXCEPT ![t] = queue_head]
  /\ Goto(t, "tail_link")
  /\ UNCHANGED <<headVars, slotVars, poolVars, slot, dummy, first, first_next, buf, err,
                 calls, items, delivered, doneVars>>

(* Mutant: the error path keeps the lock.                                  *)
TailLoadStuck(t) ==
  /\ pc[t] = "tail_load"
  /\ IF queue_tail = Null
     THEN Fail(t, "OFFSET", "push_return") /\ UNCHANGED tail_off
     ELSE /\ tail_off' = [tail_off EXCEPT ![t] = queue_tail]
          /\ Goto(t, "tail_link") /\ UNCHANGED err
  /\ UNCHANGED <<headVars, slotVars, poolVars, slot, dummy, first, first_next, buf,
                 calls, items, delivered, doneVars>>

(* ... load the tail, which may not be there yet, ...                      *)
TailLoad(t) ==
  /\ pc[t] = "tail_load"
  /\ IF queue_tail = Null
     THEN /\ queue_lock' = 0
          /\ Fail(t, "OFFSET", "push_return")
          /\ UNCHANGED tail_off
     ELSE /\ tail_off' = [tail_off EXCEPT ![t] = queue_tail]
          /\ Goto(t, "tail_link")
          /\ UNCHANGED <<queue_lock, err>>
  /\ UNCHANGED <<queue_head, queue_tail, slotVars, poolVars, slot, dummy, first, first_next, buf,
                 calls, items, delivered, doneVars>>

(* ... link the node behind it: from here on the message is in the queue,  *)
TailLink(t) ==
  /\ pc[t] = "tail_link"
  /\ next_offset' = [next_offset EXCEPT ![tail_off[t]] = slot[t]]
  /\ items' = Append(items, slot[t])
  /\ Goto(t, "tail_store")
  /\ UNCHANGED <<headVars, status, payload, poolVars, localVars, calls, delivered, doneVars>>

(* ... and make it the tail.                                               *)
TailStore(t) ==
  /\ pc[t] = "tail_store"
  /\ queue_tail' = slot[t]
  /\ Goto(t, "push_unlock")
  /\ UNCHANGED <<queue_head, queue_lock, slotVars, poolVars, localVars,
                 calls, items, delivered, doneVars>>

PushUnlock(t) ==
  /\ pc[t] = "push_unlock"
  /\ queue_lock' = 0
  /\ accepted' = accepted \cup {payload[slot[t]]}
  /\ Return(t, "OK")
  /\ UNCHANGED <<queue_head, queue_tail, slotVars, poolVars, calls, items, delivered, received, dead>>

(* ef_queue_push: the enqueue failed, and the slot goes back to the pool,  *)
(* whatever ef_return_slot_to_pool says.                                   *)
PushReturn(t) ==
  /\ pc[t] = "push_return"
  /\ \E e \in PoolErrs \cup {"OK"} : GiveBack(slot[t], e, status[slot[t]])
  /\ Return(t, err[t])
  /\ UNCHANGED <<headVars, calls, items, delivered, doneVars>>

Push(t) ==
  \/ PushCall(t) \/ DummyHead(t) \/ DummyAlloc(t) \/ DummyCas(t) \/ DummyTail(t)
  \/ DummyReturn(t) \/ Node(t) \/ PushLock(t) \/ TailLoad(t) \/ TailLink(t) \/ TailStore(t)
  \/ PushUnlock(t) \/ PushReturn(t)

-----------------------------------------------------------------------------
(* ef_queue_dequeue_mpmc: is there a dummy?                                *)
PopCall(t) ==
  /\ pc[t] = "idle"
  /\ IF queue_head = Null
     THEN Return(t, "QUEUE_EMPTY")
     ELSE /\ dummy' = [dummy EXCEPT ![t] = queue_head]
          /\ Begin(t, "pop_lock")
          /\ UNCHANGED <<slot, tail_off, first, first_next, buf>>
  /\ UNCHANGED <<headVars, slotVars, poolVars, calls, items, delivered, doneVars>>

(* Mutant: wait for the lock as long as it takes.                          *)
PopLockWaits(t) == pc[t] = "pop_lock" /\ LockAcquire(t, "pop_first")

PopLock(t) ==
  /\ pc[t] = "pop_lock"
  /\ \/ LockAcquire(t, "pop_first")
     \/ /\ LockBusy
        /\ Return(t, "QUEUE_BUSY")
        /\ UNCHANGED <<headVars, slotVars, poolVars, calls, items, delivered, doneVars>>

(* Mutant: the copy into the caller's buffer is forgotten.                 *)
PopFirstNoCopy(t) ==
  /\ pc[t] = "pop_first"
  /\ LET f == next_offset[dummy[t]] IN
     IF f = Null
     THEN Fail(t, "QUEUE_EMPTY", "pop_unlock") /\ UNCHANGED <<first, first_next, tail_off>>
     ELSE /\ first' = [first EXCEPT ![t] = f]
          /\ tail_off' = [tail_off EXCEPT ![t] = queue_tail]
          /\ first_next' = [first_next EXCEPT ![t] = next_offset[f]]
          /\ Goto(t, "pop_unlink") /\ UNCHANGED err
  /\ UNCHANGED <<headVars, slotVars, poolVars, slot, dummy, buf, calls, items, delivered, doneVars>>

(* Under the lock: find the oldest node, and copy its message if it fits   *)
(* in the caller's buffer.                                                 *)
PopFirst(t) ==
  /\ pc[t] = "pop_first"
  /\ LET f == next_offset[dummy[t]]
         damaged == status[dummy[t]] # "QUEUE_DUMMY" \/ (f # Null /\ status[f] # "QUEUED") IN
     IF damaged \/ f = Null
     THEN /\ Fail(t, IF damaged THEN "NOT_FOUND" ELSE "QUEUE_EMPTY", "pop_unlock")
          /\ UNCHANGED <<first, first_next, tail_off, buf>>
     ELSE /\ first' = [first EXCEPT ![t] = f]
          /\ tail_off' = [tail_off EXCEPT ![t] = queue_tail]
          /\ first_next' = [first_next EXCEPT ![t] = next_offset[f]]
          /\ \/ /\ buf' = [buf EXCEPT ![t] = payload[f]]
                /\ Goto(t, "pop_unlink") /\ UNCHANGED err
             \/ Fail(t, "PAYLOAD_LEN", "pop_unlock") /\ UNCHANGED buf
  /\ UNCHANGED <<headVars, slotVars, poolVars, slot, dummy, calls, items, delivered, doneVars>>

(* The dummy skips the node: the message is out of the queue.              *)
PopUnlink(t) ==
  /\ pc[t] = "pop_unlink"
  /\ next_offset' = [next_offset EXCEPT ![dummy[t]] = first_next[t]]
  /\ items' = Tail(items)
  /\ delivered' = Append(delivered, buf[t])
  /\ Goto(t, "pop_tail")
  /\ UNCHANGED <<headVars, status, payload, poolVars, localVars, calls, doneVars>>

(* Mutant: the tail is left on a node that goes back to the pool.          *)
PopTailKept(t) ==
  /\ pc[t] = "pop_tail"
  /\ Goto(t, "pop_return")
  /\ UNCHANGED <<headVars, slotVars, poolVars, localVars, calls, items, delivered, doneVars>>

PopTail(t) ==
  /\ pc[t] = "pop_tail"
  /\ queue_tail' = IF tail_off[t] # first[t] THEN queue_tail
                   ELSE IF first_next[t] # Null THEN first_next[t] ELSE dummy[t]
  /\ Goto(t, "pop_return")
  /\ UNCHANGED <<queue_head, queue_lock, slotVars, poolVars, localVars,
                 calls, items, delivered, doneVars>>

(* The node goes back to the pool under the lock; what that returns is     *)
(* what the pop returns.                                                   *)
PopReturn(t) ==
  /\ pc[t] = "pop_return"
  /\ \E e \in PoolErrs \cup {"OK"} :
       /\ GiveBack(first[t], e, "QUEUED")
       /\ Fail(t, e, "pop_unlock")
  /\ UNCHANGED <<headVars, slot, dummy, tail_off, first, first_next, buf,
                 calls, items, delivered, doneVars>>

PopUnlock(t) ==
  /\ pc[t] = "pop_unlock"
  /\ queue_lock' = 0
  /\ received' = IF err[t] = "OK" THEN received \cup {buf[t]} ELSE received
  /\ Return(t, err[t])
  /\ UNCHANGED <<queue_head, queue_tail, slotVars, poolVars, calls, items, delivered, accepted, dead>>

Pop(t) ==
  \/ PopCall(t) \/ PopLock(t) \/ PopFirst(t) \/ PopUnlink(t) \/ PopTail(t) \/ PopReturn(t)
  \/ PopUnlock(t)

-----------------------------------------------------------------------------
(* ef_queue_drained.  Its result is kept in err: DRAINED or PENDING.       *)
DrainedCall(t) ==
  /\ pc[t] = "idle"
  /\ IF queue_head = Null
     THEN Return(t, "DRAINED")
     ELSE /\ dummy' = [dummy EXCEPT ![t] = queue_head]
          /\ Begin(t, "drained_lock")
          /\ UNCHANGED <<slot, tail_off, first, first_next, buf>>
  /\ UNCHANGED <<headVars, slotVars, poolVars, calls, items, delivered, doneVars>>

(* Mutant: a contended queue counts as drained.                            *)
DrainedLockGuess(t) ==
  /\ pc[t] = "drained_lock"
  /\ \/ LockAcquire(t, "drained_read")
     \/ /\ LockBusy
        /\ Return(t, "DRAINED")
        /\ UNCHANGED <<headVars, slotVars, poolVars, calls, items, delivered, doneVars>>

DrainedLock(t) ==
  /\ pc[t] = "drained_lock"
  /\ \/ LockAcquire(t, "drained_read")
     \/ /\ LockBusy
        /\ Return(t, "PENDING")
        /\ UNCHANGED <<headVars, slotVars, poolVars, calls, items, delivered, doneVars>>

DrainedRead(t) ==
  /\ pc[t] = "drained_read"
  /\ queue_lock' = 0
  /\ Return(t, IF status[dummy[t]] = "QUEUE_DUMMY" /\ next_offset[dummy[t]] = Null
               THEN "DRAINED" ELSE "PENDING")
  /\ UNCHANGED <<queue_head, queue_tail, slotVars, poolVars, calls, items, delivered, doneVars>>

Drained(t) == DrainedCall(t) \/ DrainedLock(t) \/ DrainedRead(t)

(* ef_queue_empty: the same two loads without the lock.                    *)
EmptyCall(t) ==
  /\ pc[t] = "idle"
  /\ IF queue_head = Null
     THEN Return(t, "EMPTY")
     ELSE /\ dummy' = [dummy EXCEPT ![t] = queue_head]
          /\ Begin(t, "empty_read")
          /\ UNCHANGED <<slot, tail_off, first, first_next, buf>>
  /\ UNCHANGED <<headVars, slotVars, poolVars, calls, items, delivered, doneVars>>

EmptyRead(t) ==
  /\ pc[t] = "empty_read"
  /\ Return(t, IF status[dummy[t]] # "QUEUE_DUMMY"
               THEN IF queue_head = Null THEN "EMPTY" ELSE "NONEMPTY"
               ELSE IF next_offset[dummy[t]] = Null THEN "EMPTY" ELSE "NONEMPTY")
  /\ UNCHANGED <<headVars, slotVars, poolVars, calls, items, delivered, doneVars>>

Empty(t) == EmptyCall(t) \/ EmptyRead(t)

Next == Reopen \/ \E t \in Threads \ dead : Push(t) \/ Pop(t) \/ Drained(t) \/ Empty(t) \/ Die(t)

Spec == Init /\ [][Next]_vars

-----------------------------------------------------------------------------
LastOr(seq, x) == IF seq = <<>> THEN x ELSE seq[Len(seq)]
FirstOr(seq, x) == IF seq = <<>> THEN x ELSE seq[1]

PushLocked == {"tail_load", "tail_link", "tail_store", "push_unlock"}
PopLocked == {"pop_first", "pop_unlink", "pop_tail", "pop_return", "pop_unlock"}
Locked(t) == pc[t] \in PushLocked \cup PopLocked \cup {"drained_read"}

(* The slots a call has in its hands: no list of the file has them.        *)
Hand(t) ==
  {s \in Slots :
     \/ /\ s = slot[t]
        /\ pc[t] \in {"dummy_head", "dummy_alloc", "dummy_cas", "dummy_tail", "dummy_return", "node",
                      "push_lock", "tail_load", "tail_link", "push_return"}
     \/ s = dummy[t] /\ pc[t] \in {"dummy_cas", "dummy_return"}
     \/ s = first[t] /\ pc[t] \in {"pop_tail", "pop_return"}}

(* Type correctness; the dummy is marked as such before it is published.   *)
TypeOK ==
  /\ queue_head \in Slots \cup {Null} /\ queue_tail \in Slots \cup {Null}
  /\ queue_head # Null => status[queue_head] = "QUEUE_DUMMY"
  /\ queue_lock \in {0, 1}
  /\ next_offset \in [Slots -> Slots \cup {Null}]
  /\ status \in [Slots -> {"FREE", "USED", "QUEUED", "QUEUE_DUMMY"}]
  /\ payload \in [Slots -> Messages \cup {0}]
  /\ avail \subseteq Slots /\ lost \subseteq Slots /\ leaked \subseteq Slots
  /\ \A local \in {slot, dummy, tail_off, first, first_next} :
       local \in [Threads -> Slots \cup {Null}]
  /\ buf \in [Threads -> Messages \cup {0}]
  /\ items \in Seq(Slots) /\ delivered \in Seq(Messages)
  /\ accepted \subseteq Messages /\ received \subseteq Messages
  /\ faults \in 0..MaxFaults /\ dead \subseteq Threads

(* queue_lock is set exactly while one thread is in its critical section,  *)
(* on every return path of push, pop and drained.                          *)
QueueLockExcludes ==
  /\ queue_lock = 1 <=> \E t \in Threads : Locked(t)
  /\ \A t, u \in Threads : Locked(t) /\ Locked(u) => t = u

(* The links in memory are the queue: from the dummy through every node to *)
(* the last one, and the tail is the last node (the dummy when there is    *)
(* none) except inside the critical sections that are moving it.           *)
QueueLinked ==
  /\ queue_head = Null => items = <<>> /\ queue_tail = Null
  /\ queue_head # Null => next_offset[queue_head] = FirstOr(items, Null)
  /\ \A i \in 1..Len(items) :
       /\ status[items[i]] = "QUEUED"
       /\ next_offset[items[i]] = IF i = Len(items) THEN Null ELSE items[i + 1]
  /\ \/ queue_tail = LastOr(items, queue_head)
     \/ \E t \in Threads : pc[t] \in {"dummy_tail", "tail_store", "pop_tail"}

(* Every slot is in one place: in the pool, stranded, linked in the queue, *)
(* the dummy, in the hands of one call, or leaked.  A slot that the pool   *)
(* may hand out again is never still in use by the queue.                  *)
SlotsAccounted ==
  LET places == {avail, lost, leaked, Range(items), {queue_head} \ {Null}} IN
  /\ Slots = UNION (places \cup {Hand(t) : t \in Threads})
  /\ Cardinality(Slots) = Cardinality(avail) + Cardinality(lost) + Cardinality(leaked) + Len(items)
       + Cardinality({queue_head} \ {Null})
       + Cardinality({x \in Threads \X Slots : x[2] \in Hand(x[1])})

(* The queue in memory behaves as the first-in first-out queue of EfFifo:  *)
(* a push takes effect when its node is linked, a pop when the dummy skips *)
(* the node, and what pops copy out comes in the order of the pushes.      *)
Fifo == INSTANCE EfFifo WITH q <- [i \in DOMAIN items |-> payload[items[i]]]
ImplementsFifo == Fifo!FifoSpec

(* QUEUE_EMPTY, ef_queue_drained = 1 and ef_queue_empty = 1 are answers    *)
(* about a moment at which the queue held no message.                      *)
EmptyIsTrue ==
  [][\A t \in Threads :
       err'[t] \in EmptyAnswers /\ err[t] \notin EmptyAnswers => items = <<>>]_vars

(* A message whose push returned EF_OK is in the queue, on its way out, or *)
(* was returned by a pop with EF_OK, as long as the pool takes every slot  *)
(* back: a pop that gets an error from it returns that instead.            *)
NothingLost ==
  faults = 0 =>
    \A m \in accepted :
      \/ m \in {payload[s] : s \in Range(items)}
      \/ m \in received
      \/ \E t \in Threads : buf[t] = m /\ pc[t] \in PopLocked

(* No call waits for another thread: a thread inside a call can always     *)
(* make its next step, whoever holds the lock, also when that was a        *)
(* process that is dead and nobody will release it.  No call has a loop    *)
(* here (what spins gives up after EF_SB_INDEX_SPIN_MAX tries), so that    *)
(* every call of push, pop, drained and empty returns.                     *)
NeverWaits ==
  \A t \in Threads \ dead :
    pc[t] # "idle" => ENABLED (Push(t) \/ Pop(t) \/ Drained(t) \/ Empty(t))
=============================================================================
