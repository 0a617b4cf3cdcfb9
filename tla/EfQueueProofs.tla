---------------------------- MODULE EfQueueProofs ----------------------------
(***************************************************************************)
(* Proofs about EfQueue, for every number of threads, slots and messages.  *)
(***************************************************************************)
EXTENDS EfQueue, FiniteSetTheorems, TLAPS

-----------------------------------------------------------------------------
(* The inductive invariant, in parts.                                      *)

Labels ==
  {"idle", "dummy_head", "dummy_alloc", "dummy_cas", "dummy_tail", "dummy_return", "node",
   "push_lock", "tail_load", "tail_link", "tail_store", "push_unlock", "push_return",
   "pop_lock", "pop_first", "pop_unlink", "pop_tail", "pop_return", "pop_unlock",
   "drained_lock", "drained_read", "empty_read"}

(* Where a call holds a node outside the queue, a dummy that is not        *)
(* published, a node it has taken out.                                     *)
SlotLabels ==
  {"dummy_head", "dummy_alloc", "dummy_cas", "dummy_tail", "dummy_return", "node",
   "push_lock", "tail_load", "tail_link", "push_return"}
DummyLabels == {"dummy_cas", "dummy_return"}
FirstLabels == {"pop_tail", "pop_return"}

(* Where the node of a push is ready to be linked, where a call has read   *)
(* where the dummy is, where it is moving the tail, where a message is in  *)
(* the caller's buffer.                                                    *)
ReadyLabels == {"push_lock", "tail_load", "tail_link"}
KnowLabels ==
  {"pop_lock", "pop_first", "pop_unlink", "pop_tail", "pop_return", "pop_unlock",
   "drained_lock", "drained_read", "empty_read"}
TailLabels == {"dummy_tail", "tail_store", "pop_tail"}
BufLabels == {"pop_unlink", "pop_tail", "pop_return", "pop_unlock"}

Statuses == {"FREE", "USED", "QUEUED", "QUEUE_DUMMY"}

TypedShared ==
  /\ queue_head \in Slots \cup {Null} /\ queue_tail \in Slots \cup {Null}
  /\ queue_lock \in {0, 1}
  /\ next_offset \in [Slots -> Slots \cup {Null}]
  /\ status \in [Slots -> Statuses]
  /\ payload \in [Slots -> Messages \cup {0}]
  /\ avail \in SUBSET Slots /\ lost \in SUBSET Slots /\ leaked \in SUBSET Slots
  /\ calls \in 0..MaxMsgs /\ faults \in 0..MaxFaults /\ dead \in SUBSET Threads

TypedLocals ==
  /\ pc \in [Threads -> Labels]
  /\ slot \in [Threads -> Slots \cup {Null}]
  /\ dummy \in [Threads -> Slots \cup {Null}]
  /\ tail_off \in [Threads -> Slots \cup {Null}]
  /\ first \in [Threads -> Slots \cup {Null}]
  /\ first_next \in [Threads -> Slots \cup {Null}]
  /\ buf \in [Threads -> Messages \cup {0}]
  /\ err = [t \in Threads |-> err[t]]

TypedHistory ==
  /\ items \in Seq(Slots) /\ delivered \in Seq(Messages)
  /\ accepted \in SUBSET Messages /\ received \in SUBSET Messages

Typed == TypedShared /\ TypedLocals /\ TypedHistory

(* A slot is FREE exactly when the pool has it or has stranded it; a slot  *)
(* that has leaked keeps the status of a node and is in no queue.          *)
PoolSlots ==
  /\ \A s \in Slots : status[s] = "FREE" <=> s \in avail \/ s \in lost
  /\ \A s \in avail : s \notin lost
  /\ \A s \in leaked : status[s] \in {"USED", "QUEUED"} /\ s \notin Range(items)

(* The node of a push belongs to that push alone.                          *)
SlotOK(t) ==
  /\ slot[t] \in Slots /\ slot[t] \notin leaked /\ slot[t] \notin Range(items)
  /\ status[slot[t]] \in {"USED", "QUEUED"} /\ payload[slot[t]] \in Messages
  /\ pc[t] \in ReadyLabels => status[slot[t]] = "QUEUED" /\ next_offset[slot[t]] = Null
SlotHeld ==
  /\ \A t \in Threads : pc[t] \in SlotLabels => SlotOK(t)
  /\ \A t, u \in Threads :
       pc[t] \in SlotLabels /\ pc[u] \in SlotLabels /\ slot[t] = slot[u] => t = u

(* So does the dummy that a push is about to publish or to give back.      *)
DummyOK(t) ==
  /\ dummy[t] \in Slots /\ dummy[t] # queue_head
  /\ status[dummy[t]] = "QUEUE_DUMMY" /\ next_offset[dummy[t]] = Null
DummyHeld ==
  /\ \A t \in Threads : pc[t] \in DummyLabels => DummyOK(t)
  /\ \A t, u \in Threads :
       pc[t] \in DummyLabels /\ pc[u] \in DummyLabels /\ dummy[t] = dummy[u] => t = u

(* ... and the node that a pop has unlinked.                               *)
FirstOK(t) ==
  /\ first[t] \in Slots /\ first[t] \notin leaked /\ first[t] \notin Range(items)
  /\ status[first[t]] = "QUEUED"
  /\ \A u \in Threads : pc[u] \in SlotLabels => slot[u] # first[t]
FirstHeld == \A t \in Threads : pc[t] \in FirstLabels => FirstOK(t)

(* The dummy, once published, stays where it is, with the first node       *)
(* behind it.                                                              *)
DummyFixed ==
  /\ queue_head = Null => items = <<>> /\ queue_tail = Null
  /\ queue_head # Null => /\ status[queue_head] = "QUEUE_DUMMY"
                          /\ next_offset[queue_head] = FirstOr(items, Null)
  /\ \A t \in Threads : pc[t] \in KnowLabels => dummy[t] = queue_head /\ queue_head # Null

(* The nodes of the queue are distinct and linked in order, each with its  *)
(* message.                                                                *)
ItemsLinked ==
  /\ \A i \in 1..Len(items) :
       /\ status[items[i]] = "QUEUED"
       /\ next_offset[items[i]] = IF i = Len(items) THEN Null ELSE items[i + 1]
       /\ payload[items[i]] \in Messages
  /\ \A i, j \in 1..Len(items) : items[i] = items[j] => i = j

(* What the critical sections that move the tail know of the queue.        *)
TailOK(t) ==
  /\ pc[t] = "dummy_tail" => /\ dummy[t] = queue_head /\ queue_head # Null
                             /\ queue_tail = Null /\ items = <<>>
  /\ pc[t] = "tail_link" => tail_off[t] = queue_tail /\ queue_tail # Null
  /\ pc[t] \in {"tail_store", "push_unlock"} => items # <<>> /\ slot[t] = items[Len(items)]
  /\ pc[t] = "pop_unlink" =>
       /\ items # <<>> /\ first[t] = items[1] /\ first_next[t] = next_offset[items[1]]
       /\ tail_off[t] = queue_tail /\ buf[t] = payload[items[1]]
  /\ pc[t] = "pop_tail" =>
       /\ first_next[t] = FirstOr(items, Null)
       /\ tail_off[t] = LastOr(items, first[t]) /\ queue_tail = tail_off[t]
TailKnown ==
  /\ queue_tail = LastOr(items, queue_head) \/ \E t \in Threads : pc[t] \in TailLabels
  /\ \A t \in Threads : TailOK(t)
  /\ \A t, u \in Threads : pc[t] = "dummy_tail" /\ pc[u] = "dummy_tail" => t = u

(* Every slot is somewhere.                                                *)
Placed ==
  \A s \in Slots :
    \/ s \in avail \/ s \in lost \/ s \in leaked \/ s \in Range(items) \/ s = queue_head
    \/ \E t \in Threads : \/ pc[t] \in SlotLabels /\ s = slot[t]
                          \/ pc[t] \in DummyLabels /\ s = dummy[t]
                          \/ pc[t] \in FirstLabels /\ s = first[t]

(* What a pop has in the caller's buffer.                                  *)
CopyOK(t) ==
  /\ pc[t] \notin BufLabels => buf[t] = 0
  /\ pc[t] \in FirstLabels => buf[t] \in Messages
  /\ pc[t] = "pop_unlock" =>
       /\ err[t] = "OK" => buf[t] \in Messages
       /\ faults = 0 /\ buf[t] # 0 => err[t] = "OK"
Copied == \A t \in Threads : CopyOK(t)

Shape ==
  PoolSlots /\ SlotHeld /\ DummyHeld /\ FirstHeld /\ DummyFixed /\ ItemsLinked /\ TailKnown /\ Placed

IInv == Typed /\ QueueLockExcludes /\ Shape /\ Copied /\ NothingLost

-----------------------------------------------------------------------------
(* Facts used for every action.                                            *)

Memory == <<queue_head, queue_tail, next_offset, status, payload, avail, lost, leaked, items>>

(* A step of t leaves the locals of the other threads alone.               *)
Others(t) ==
  \A u \in Threads : u # t =>
    /\ pc'[u] = pc[u] /\ slot'[u] = slot[u] /\ dummy'[u] = dummy[u]
    /\ tail_off'[u] = tail_off[u] /\ first'[u] = first[u] /\ first_next'[u] = first_next[u]
    /\ buf'[u] = buf[u] /\ err'[u] = err[u]

(* No message is 0, which stands for an empty payload or buffer.           *)
LEMMA ZeroIsNoMessage == 0 \notin Messages
  BY QueueMaxMsgs DEF Messages

(* The slots in the queue, by their positions.                             *)
LEMMA RangeOfItems ==
  ASSUME Typed
  PROVE  /\ Range(items) = {items[i] : i \in 1..Len(items)}
         /\ Range(items) \subseteq Slots
         /\ Len(items) \in Nat
         /\ items = <<>> <=> Len(items) = 0
         /\ \A i \in 1..Len(items) : items[i] \in Slots
  BY DEF Typed, TypedHistory, Range

(* A step of t that changes neither the memory nor what t holds keeps the  *)
(* shape of the queue, if what t has read is right.                        *)
LEMMA QuietStep ==
  ASSUME Typed, Shape, NEW t \in Threads, Others(t), UNCHANGED Memory,
         pc'[t] \in SlotLabels <=> pc[t] \in SlotLabels,
         pc'[t] \in SlotLabels => slot'[t] = slot[t],
         pc'[t] \in ReadyLabels => pc[t] \in ReadyLabels,
         pc'[t] \in DummyLabels <=> pc[t] \in DummyLabels,
         pc'[t] \in DummyLabels => dummy'[t] = dummy[t],
         pc'[t] \in FirstLabels <=> pc[t] \in FirstLabels,
         pc'[t] \in FirstLabels => first'[t] = first[t],
         pc'[t] \in KnowLabels => dummy'[t] = queue_head /\ queue_head # Null,
         pc[t] \in TailLabels => pc'[t] \in TailLabels,
         pc'[t] = "dummy_tail" => pc[t] = "dummy_tail",
         TailOK(t)'
  PROVE  Shape'
<1>1. PoolSlots'
  BY DEF Shape, PoolSlots, Memory
<1>2. SlotHeld'
  BY DEF Shape, SlotHeld, SlotOK, Memory, Others
<1>3. DummyHeld'
  BY DEF Shape, DummyHeld, DummyOK, Memory, Others
<1>4. FirstHeld'
  BY DEF Shape, FirstHeld, FirstOK, Memory, Others
<1>5. DummyFixed'
  BY DEF Shape, DummyFixed, Memory, Others
<1>6. ItemsLinked'
  BY DEF Shape, ItemsLinked, Memory
<1>7. TailKnown'
  <2>1. ASSUME NEW u \in Threads, u # t
        PROVE  TailOK(u)'
    BY <2>1 DEF Shape, TailKnown, TailOK, Memory, Others
  <2>2. queue_tail' = LastOr(items', queue_head') \/ \E u \in Threads : pc'[u] \in TailLabels
    BY DEF Shape, TailKnown, Memory, Others
  <2>3. \A u, v \in Threads : pc'[u] = "dummy_tail" /\ pc'[v] = "dummy_tail" => u = v
    BY DEF Shape, TailKnown, Others
  <2> QED
    BY <2>1, <2>2, <2>3 DEF TailKnown
<1>8. Placed'
  BY DEF Shape, Placed, Memory, Others
<1> QED
  BY <1>1, <1>2, <1>3, <1>4, <1>5, <1>6, <1>7, <1>8 DEF Shape

(* No message is lost by a step that changes neither the queue nor what    *)
(* was accepted and received, and that keeps the buffer of a pop.          *)
LEMMA BufferKept ==
  ASSUME Typed, NothingLost, Copied, NEW t \in Threads, Others(t),
         UNCHANGED <<items, accepted, received>>,
         \A s \in Range(items) : payload'[s] = payload[s],
         faults' = 0 => faults = 0,
         pc[t] \in BufLabels => buf'[t] = buf[t] /\ pc'[t] \in PopLocked
  PROVE  NothingLost'
<1> SUFFICES ASSUME faults' = 0, NEW m \in accepted
             PROVE  \/ m \in {payload'[s] : s \in Range(items)}
                    \/ m \in received
                    \/ \E u \in Threads : buf'[u] = m /\ pc'[u] \in PopLocked
  BY DEF NothingLost
<1>1. m # 0
  BY ZeroIsNoMessage DEF Typed, TypedHistory
<1>2. CASE m \in {payload[s] : s \in Range(items)} \/ m \in received
  BY <1>2
<1>3. CASE \E u \in Threads : buf[u] = m /\ pc[u] \in PopLocked
  <2>1. PICK u \in Threads : buf[u] = m /\ pc[u] \in PopLocked
    BY <1>3
  <2>2. pc[u] \in BufLabels
    BY <1>1, <2>1 DEF Copied, CopyOK
  <2> QED
    BY <2>1, <2>2 DEF Others
<1> QED
  BY <1>2, <1>3 DEF NothingLost

(* The lock is released by the thread that has it, taken by one thread     *)
(* when it is free, or kept.                                               *)
LEMMA LockKept ==
  ASSUME QueueLockExcludes, NEW t \in Threads, Others(t), queue_lock' = queue_lock,
         Locked(t)' <=> Locked(t)
  PROVE  QueueLockExcludes'
<1>1. \A u \in Threads : Locked(u)' <=> Locked(u)
  BY DEF Others, Locked
<1> QED
  BY <1>1 DEF QueueLockExcludes

(* A thread takes the free lock.                                           *)
LEMMA LockTaken ==
  ASSUME QueueLockExcludes, NEW t \in Threads, Others(t), queue_lock = 0, queue_lock' = 1,
         Locked(t)'
  PROVE  QueueLockExcludes'
<1>1. \A u \in Threads : u # t => (Locked(u)' <=> Locked(u))
  BY DEF Others, Locked
<1> QED
  BY <1>1 DEF QueueLockExcludes

(* The thread that has the lock gives it back.                             *)
LEMMA LockReleased ==
  ASSUME QueueLockExcludes, NEW t \in Threads, Others(t), Locked(t), queue_lock' = 0,
         ~Locked(t)'
  PROVE  QueueLockExcludes'
<1>1. \A u \in Threads : u # t => (Locked(u)' <=> Locked(u))
  BY DEF Others, Locked
<1> QED
  BY <1>1 DEF QueueLockExcludes

(* What t has in its buffer is all a step of t can get wrong there.        *)
LEMMA CopiedKept ==
  ASSUME Copied, NEW t \in Threads, Others(t), CopyOK(t)', faults' = 0 => faults = 0
  PROVE  Copied'
<1> SUFFICES ASSUME NEW u \in Threads, u # t
             PROVE  CopyOK(u)'
  BY DEF Copied
<1> QED
  BY DEF Copied, CopyOK, Others

(* A call that holds nothing returns.                                      *)
LEMMA ReturnsQuietly ==
  ASSUME Typed, Shape, Copied, NEW t \in Threads, NEW e, Return(t, e), UNCHANGED Memory,
         pc[t] \notin SlotLabels, pc[t] \notin FirstLabels, pc[t] \notin TailLabels,
         faults' = 0 => faults = 0
  PROVE  TypedLocals' /\ Others(t) /\ pc'[t] = "idle" /\ buf'[t] = 0 /\ Shape' /\ Copied'
<1>1. TypedLocals' /\ Others(t) /\ pc'[t] = "idle" /\ buf'[t] = 0
  BY DEF Typed, TypedLocals, Labels, Return, Fail, Goto, Others
<1>2. Shape'
  <2>1. TailOK(t)'
    BY <1>1 DEF TailOK
  <2> QED
    BY <1>1, <2>1, QuietStep
       DEF SlotLabels, DummyLabels, FirstLabels, ReadyLabels, KnowLabels, TailLabels
<1>3. CopyOK(t)'
  BY <1>1 DEF CopyOK, BufLabels, FirstLabels
<1> QED
  BY <1>1, <1>2, <1>3, CopiedKept

(* A call of pop, drained or empty that has found the dummy.               *)
LEMMA FindsDummy ==
  ASSUME Typed, Shape, Copied, NEW t \in Threads, pc[t] = "idle", queue_head # Null,
         NEW label \in {"pop_lock", "drained_lock", "empty_read"}, Begin(t, label),
         dummy' = [dummy EXCEPT ![t] = queue_head],
         UNCHANGED <<Memory, faults, slot, tail_off, first, first_next, buf>>
  PROVE  TypedLocals' /\ Others(t) /\ pc'[t] = label /\ Shape' /\ Copied'
<1>1. TypedLocals' /\ Others(t) /\ pc'[t] = label /\ dummy'[t] = queue_head /\ buf'[t] = buf[t]
  BY DEF Typed, TypedShared, TypedLocals, Labels, Begin, Fail, Goto, Others
<1>2. Shape'
  <2>1. TailOK(t)'
    BY <1>1 DEF TailOK
  <2> QED
    BY <1>1, <2>1, QuietStep
       DEF SlotLabels, DummyLabels, FirstLabels, ReadyLabels, KnowLabels, TailLabels
<1>3. CopyOK(t)'
  BY <1>1 DEF Copied, CopyOK, BufLabels, FirstLabels
<1> QED
  BY <1>1, <1>2, <1>3, CopiedKept

(* A call that gets the lock.                                              *)
LEMMA GetsLock ==
  ASSUME Typed, Shape, Copied, QueueLockExcludes, NothingLost, NEW t \in Threads,
         NEW label, LockAcquire(t, label),
         <<pc[t], label>> \in {<<"push_lock", "tail_load">>, <<"pop_lock", "pop_first">>,
                               <<"drained_lock", "drained_read">>}
  PROVE  IInv'
<1> USE DEF LockAcquire, Goto, poolVars, slotVars, localVars, doneVars
<1>0. \/ pc[t] = "push_lock" /\ label = "tail_load"
      \/ pc[t] = "pop_lock" /\ label = "pop_first"
      \/ pc[t] = "drained_lock" /\ label = "drained_read"
  OBVIOUS
<1>1. TypedLocals' /\ Others(t) /\ pc'[t] = label
  BY <1>0 DEF Typed, TypedLocals, Labels, Others
<1>2. Typed'
  BY <1>1 DEF Typed, TypedShared, TypedHistory
<1>3. QueueLockExcludes'
  BY <1>0, <1>1, LockTaken DEF Locked, PushLocked, PopLocked
<1>4. Shape'
  <2>1. TailOK(t)'
    BY <1>0, <1>1 DEF TailOK
  <2>2. pc'[t] \in KnowLabels => pc[t] \in KnowLabels
    BY <1>0, <1>1 DEF KnowLabels
  <2>3. pc'[t] \in KnowLabels => dummy'[t] = queue_head /\ queue_head # Null
    BY <2>2 DEF Shape, DummyFixed
  <2> QED
    BY <1>0, <1>1, <2>1, <2>3, QuietStep
       DEF SlotLabels, DummyLabels, FirstLabels, ReadyLabels, TailLabels, Memory
<1>5. Copied'
  <2>1. CopyOK(t)'
    BY <1>0, <1>1 DEF Copied, CopyOK, BufLabels, FirstLabels
  <2> QED
    BY <1>1, <2>1, CopiedKept
<1>6. NothingLost'
  BY <1>0, <1>1, BufferKept DEF BufLabels
<1> QED
  BY <1>2, <1>3, <1>4, <1>5, <1>6 DEF IInv

(* A call that returns without having changed anything.                    *)
LEMMA ReturnsUnchanged ==
  ASSUME IInv, NEW t \in Threads, NEW e, Return(t, e),
         pc[t] \in {"idle", "pop_lock", "drained_lock", "empty_read"},
         UNCHANGED <<headVars, slotVars, poolVars, calls, items, delivered, doneVars>>
  PROVE  IInv'
<1> USE DEF headVars, slotVars, poolVars, doneVars
<1>1. /\ pc[t] \notin SlotLabels /\ pc[t] \notin FirstLabels /\ pc[t] \notin TailLabels
      /\ pc[t] \notin BufLabels /\ ~Locked(t)
  BY DEF SlotLabels, FirstLabels, TailLabels, BufLabels, Locked, PushLocked, PopLocked
<1>2. UNCHANGED Memory
  BY DEF Memory
<1>3. TypedLocals' /\ Others(t) /\ pc'[t] = "idle" /\ buf'[t] = 0 /\ Shape' /\ Copied'
  BY <1>1, <1>2, ReturnsQuietly DEF IInv
<1>4. Typed'
  BY <1>3 DEF IInv, Typed, TypedShared, TypedHistory
<1>5. QueueLockExcludes'
  <2>1. ~Locked(t)'
    BY <1>3 DEF Locked, PushLocked, PopLocked
  <2> QED
    BY <1>1, <1>3, <2>1, LockKept DEF IInv
<1>6. NothingLost'
  BY <1>1, <1>3, BufferKept DEF IInv
<1> QED
  BY <1>3, <1>4, <1>5, <1>6 DEF IInv

(* A call that finds the dummy changes nothing else.                       *)
LEMMA FindsDummyKeeps ==
  ASSUME IInv, NEW t \in Threads, pc[t] = "idle", queue_head # Null,
         NEW label \in {"pop_lock", "drained_lock", "empty_read"}, Begin(t, label),
         dummy' = [dummy EXCEPT ![t] = queue_head],
         UNCHANGED <<slot, tail_off, first, first_next, buf>>,
         UNCHANGED <<headVars, slotVars, poolVars, calls, items, delivered, doneVars>>
  PROVE  IInv'
<1> USE DEF headVars, slotVars, poolVars, doneVars
<1>1. UNCHANGED Memory
  BY DEF Memory
<1>2. TypedLocals' /\ Others(t) /\ pc'[t] = label /\ Shape' /\ Copied'
  BY <1>1, FindsDummy DEF IInv
<1>3. Typed'
  BY <1>2 DEF IInv, Typed, TypedShared, TypedHistory
<1>4. QueueLockExcludes'
  <2>1. ~Locked(t) /\ ~Locked(t)'
    BY <1>2 DEF Locked, PushLocked, PopLocked
  <2> QED
    BY <1>2, <2>1, LockKept DEF IInv
<1>5. NothingLost'
  BY <1>2, BufferKept DEF IInv, BufLabels
<1> QED
  BY <1>2, <1>3, <1>4, <1>5 DEF IInv

-----------------------------------------------------------------------------
(* The actions that change no slot.                                        *)

(* A call of ef_queue_pop: only the thread's own state changes.            *)
LEMMA PopCallKeeps ==
  ASSUME IInv, NEW t \in Threads, PopCall(t)
  PROVE  IInv'
<1>1. CASE queue_head = Null
  BY <1>1, ReturnsUnchanged DEF PopCall
<1>2. CASE queue_head # Null
  BY <1>2, FindsDummyKeeps DEF PopCall
<1> QED
  BY <1>1, <1>2

(* A call of ef_queue_drained.                                             *)
LEMMA DrainedCallKeeps ==
  ASSUME IInv, NEW t \in Threads, DrainedCall(t)
  PROVE  IInv'
<1>1. CASE queue_head = Null
  BY <1>1, ReturnsUnchanged DEF DrainedCall
<1>2. CASE queue_head # Null
  BY <1>2, FindsDummyKeeps DEF DrainedCall
<1> QED
  BY <1>1, <1>2

(* A call of ef_queue_empty, with the first of its two loads.              *)
LEMMA EmptyCallKeeps ==
  ASSUME IInv, NEW t \in Threads, EmptyCall(t)
  PROVE  IInv'
<1>1. CASE queue_head = Null
  BY <1>1, ReturnsUnchanged DEF EmptyCall
<1>2. CASE queue_head # Null
  BY <1>2, FindsDummyKeeps DEF EmptyCall
<1> QED
  BY <1>1, <1>2

(* Its second load, and the return.                                        *)
LEMMA EmptyReadKeeps ==
  ASSUME IInv, NEW t \in Threads, EmptyRead(t)
  PROVE  IInv'
  BY ReturnsUnchanged DEF EmptyRead

(* The lock is taken for a pop.                                            *)
LEMMA PopLockKeeps ==
  ASSUME IInv, NEW t \in Threads, PopLock(t)
  PROVE  IInv'
<1>1. CASE LockAcquire(t, "pop_first")
  BY <1>1, GetsLock DEF PopLock, IInv
<1>2. CASE ~LockAcquire(t, "pop_first")
  BY <1>2, ReturnsUnchanged DEF PopLock
<1> QED
  BY <1>1, <1>2

(* The lock is taken for ef_queue_drained.                                 *)
LEMMA DrainedLockKeeps ==
  ASSUME IInv, NEW t \in Threads, DrainedLock(t)
  PROVE  IInv'
<1>1. CASE LockAcquire(t, "drained_read")
  BY <1>1, GetsLock DEF DrainedLock, IInv
<1>2. CASE ~LockAcquire(t, "drained_read")
  BY <1>2, ReturnsUnchanged DEF DrainedLock
<1> QED
  BY <1>1, <1>2

(* ef_queue_drained reads the link of the dummy and gives the lock back.   *)
LEMMA DrainedReadKeeps ==
  ASSUME IInv, NEW t \in Threads, DrainedRead(t)
  PROVE  IInv'
<1> USE DEF DrainedRead, slotVars, poolVars, doneVars
<1>1. /\ pc[t] \notin SlotLabels /\ pc[t] \notin FirstLabels /\ pc[t] \notin TailLabels
      /\ pc[t] \notin BufLabels /\ Locked(t)
  BY DEF SlotLabels, FirstLabels, TailLabels, BufLabels, Locked, PushLocked, PopLocked
<1>2. UNCHANGED Memory
  BY DEF Memory
<1>3. TypedLocals' /\ Others(t) /\ pc'[t] = "idle" /\ Shape' /\ Copied'
  BY <1>1, <1>2, ReturnsQuietly DEF IInv
<1>4. Typed'
  BY <1>3 DEF IInv, Typed, TypedShared, TypedHistory
<1>5. QueueLockExcludes'
  BY <1>1, <1>3, LockReleased DEF IInv, Locked, PushLocked, PopLocked
<1>6. NothingLost'
  BY <1>1, <1>3, BufferKept DEF IInv
<1> QED
  BY <1>3, <1>4, <1>5, <1>6 DEF IInv

(* A push that goes from one of its labels to another with all it holds,   *)
(* the memory being as it was.                                             *)
LEMMA PushMoves ==
  ASSUME Typed, Shape, Copied, NothingLost, NEW t \in Threads, TypedLocals', Others(t),
         UNCHANGED <<Memory, slot, dummy, buf, accepted, received>>, faults' = 0 => faults = 0,
         pc[t] \in SlotLabels, pc'[t] \in SlotLabels,
         pc'[t] \in ReadyLabels => pc[t] \in ReadyLabels,
         pc[t] \notin DummyLabels, pc'[t] \notin DummyLabels,
         pc[t] # "dummy_tail", pc'[t] # "dummy_tail",
         pc'[t] = "tail_link" => tail_off'[t] = queue_tail /\ queue_tail # Null
  PROVE  Shape' /\ Copied' /\ NothingLost'
<1>1. /\ pc[t] \notin FirstLabels /\ pc'[t] \notin FirstLabels /\ pc[t] \notin TailLabels
      /\ pc[t] \notin BufLabels /\ pc'[t] \notin BufLabels /\ pc'[t] \notin KnowLabels
      /\ pc'[t] \notin {"tail_store", "push_unlock", "pop_unlink", "pop_tail", "pop_unlock"}
  BY DEF SlotLabels, FirstLabels, TailLabels, BufLabels, KnowLabels
<1>2. Shape'
  <2>1. TailOK(t)'
    BY <1>1 DEF TailOK, Memory
  <2> QED
    BY <1>1, <2>1, QuietStep
<1>3. Copied'
  <2>1. CopyOK(t)'
    BY <1>1 DEF Copied, CopyOK
  <2> QED
    BY <2>1, CopiedKept
<1>4. NothingLost'
  BY <1>1, BufferKept DEF Memory
<1> QED
  BY <1>2, <1>3, <1>4

(* ef_queue_dummy_offset: is there a dummy already?                        *)
LEMMA DummyHeadKeeps ==
  ASSUME IInv, NEW t \in Threads, DummyHead(t)
  PROVE  IInv'
<1> USE DEF DummyHead, Goto, headVars, slotVars, poolVars, localVars, doneVars
<1>1. TypedLocals' /\ Others(t) /\ pc'[t] \in {"node", "dummy_alloc"}
  BY DEF IInv, Typed, TypedLocals, Labels, Others
<1>2. Typed'
  BY <1>1 DEF IInv, Typed, TypedShared, TypedHistory
<1>3. QueueLockExcludes'
  BY <1>1, LockKept DEF IInv, Locked, PushLocked, PopLocked
<1>4. Shape' /\ Copied' /\ NothingLost'
  BY <1>1, PushMoves DEF IInv, SlotLabels, ReadyLabels, DummyLabels, Memory
<1> QED
  BY <1>2, <1>3, <1>4 DEF IInv

(* The lock is taken for a push: the slot is the thread's own.             *)
LEMMA PushLockKeeps ==
  ASSUME IInv, NEW t \in Threads, PushLock(t)
  PROVE  IInv'
<1>1. CASE LockAcquire(t, "tail_load")
  BY <1>1, GetsLock DEF PushLock, IInv
<1>2. CASE ~LockAcquire(t, "tail_load")
  <2> USE <1>2 DEF PushLock, Fail, Goto, headVars, slotVars, poolVars, doneVars
  <2>1. TypedLocals' /\ Others(t) /\ pc'[t] = "push_return"
    BY DEF IInv, Typed, TypedLocals, Labels, Others
  <2>2. Typed'
    BY <2>1 DEF IInv, Typed, TypedShared, TypedHistory
  <2>3. QueueLockExcludes'
    BY <2>1, LockKept DEF IInv, Locked, PushLocked, PopLocked
  <2>4. Shape' /\ Copied' /\ NothingLost'
    BY <2>1, PushMoves DEF IInv, SlotLabels, ReadyLabels, DummyLabels, Memory
  <2> QED
    BY <2>2, <2>3, <2>4 DEF IInv
<1> QED
  BY <1>1, <1>2

(* The tail is loaded, which may not be there yet.                         *)
LEMMA TailLoadKeeps ==
  ASSUME IInv, NEW t \in Threads, TailLoad(t)
  PROVE  IInv'
<1> USE DEF TailLoad, Fail, Goto, headVars, slotVars, poolVars, doneVars
<1>1. /\ TypedLocals' /\ Others(t)
      /\ \/ pc'[t] = "push_return" /\ queue_lock' = 0
         \/ /\ pc'[t] = "tail_link" /\ queue_lock' = queue_lock
            /\ tail_off'[t] = queue_tail /\ queue_tail # Null
  <2>1. CASE queue_tail = Null
    BY <2>1 DEF IInv, Typed, TypedShared, TypedLocals, Labels, Others
  <2>2. CASE queue_tail # Null
    BY <2>2 DEF IInv, Typed, TypedShared, TypedLocals, Labels, Others
  <2> QED
    BY <2>1, <2>2
<1>2. Typed'
  BY <1>1 DEF IInv, Typed, TypedShared, TypedHistory
<1>3. QueueLockExcludes'
  BY <1>1, LockKept, LockReleased DEF IInv, Locked, PushLocked, PopLocked
<1>4. Shape' /\ Copied' /\ NothingLost'
  BY <1>1, PushMoves DEF IInv, SlotLabels, ReadyLabels, DummyLabels, Memory
<1> QED
  BY <1>2, <1>3, <1>4 DEF IInv

(* The first node, when there is one, is what the link of the dummy says.  *)
LEMMA FirstNode ==
  ASSUME Typed, Shape, NEW t \in Threads, pc[t] \in KnowLabels
  PROVE  /\ dummy[t] = queue_head /\ queue_head \in Slots
         /\ status[dummy[t]] = "QUEUE_DUMMY"
         /\ next_offset[dummy[t]] = FirstOr(items, Null)
         /\ items = <<>> <=> next_offset[dummy[t]] = Null
         /\ items # <<>> => items[1] \in Slots /\ 1 \in 1..Len(items) /\ status[items[1]] = "QUEUED"
<1>1. /\ dummy[t] = queue_head /\ queue_head \in Slots /\ status[dummy[t]] = "QUEUE_DUMMY"
      /\ next_offset[dummy[t]] = FirstOr(items, Null)
  BY DEF Typed, TypedShared, Shape, DummyFixed
<1>2. items # <<>> => items[1] \in Slots /\ 1 \in 1..Len(items) /\ status[items[1]] = "QUEUED"
  BY RangeOfItems DEF Shape, ItemsLinked
<1> QED
  BY <1>1, <1>2, QueueNull DEF FirstOr

(* The oldest node is found, and its message copied if it fits.            *)
LEMMA PopFirstKeeps ==
  ASSUME IInv, NEW t \in Threads, PopFirst(t)
  PROVE  IInv'
<1> USE DEF PopFirst, Fail, Goto, headVars, slotVars, poolVars, doneVars
<1> DEFINE f == next_offset[dummy[t]]
<1>0. /\ dummy[t] = queue_head /\ queue_head # Null /\ f \in Slots \cup {Null}
      /\ f # Null => items # <<>> /\ f = items[1] /\ f \in Slots /\ payload[f] \in Messages
      /\ buf[t] = 0
  <2>1. pc[t] \in KnowLabels /\ pc[t] \notin BufLabels
    BY DEF KnowLabels, BufLabels
  <2> QED
    BY <2>1, FirstNode, QueueNull DEF IInv, Shape, ItemsLinked, FirstOr, Copied, CopyOK
<1>1. /\ TypedLocals' /\ Others(t)
      /\ \/ pc'[t] = "pop_unlock" /\ buf'[t] = 0 /\ err'[t] # "OK"
         \/ /\ pc'[t] = "pop_unlink" /\ f # Null /\ first'[t] = f /\ tail_off'[t] = queue_tail
            /\ first_next'[t] = next_offset[f] /\ buf'[t] = payload[f]
      /\ dummy'[t] = dummy[t]
  <2>1. CASE Goto(t, "pop_unlock")
    BY <1>0, <2>1 DEF IInv, Typed, TypedShared, TypedLocals, Labels, Others
  <2>2. CASE Goto(t, "pop_unlink")
    BY <1>0, <2>2 DEF IInv, Typed, TypedShared, TypedLocals, Labels, Others
  <2> QED
    BY <2>1, <2>2
<1> HIDE DEF f
<1>2. Typed'
  BY <1>1 DEF IInv, Typed, TypedShared, TypedHistory
<1>3. QueueLockExcludes'
  BY <1>1, LockKept DEF IInv, Locked, PushLocked, PopLocked
<1>4. Shape'
  <2>1. TailOK(t)'
    BY <1>0, <1>1 DEF TailOK
  <2> QED
    BY <1>0, <1>1, <2>1, QuietStep
       DEF IInv, SlotLabels, DummyLabels, FirstLabels, ReadyLabels, TailLabels, Memory
<1>5. Copied'
  <2>1. CopyOK(t)'
    BY <1>0, <1>1 DEF CopyOK, BufLabels, FirstLabels
  <2> QED
    BY <1>1, <2>1, CopiedKept DEF IInv
<1>6. NothingLost'
  BY <1>1, BufferKept DEF IInv, BufLabels
<1> QED
  BY <1>2, <1>3, <1>4, <1>5, <1>6 DEF IInv

(* The lock is given back after a push.                                    *)
LEMMA PushUnlockKeeps ==
  ASSUME IInv, NEW t \in Threads, PushUnlock(t)
  PROVE  IInv'
<1> USE DEF PushUnlock, slotVars, poolVars
<1>1. /\ pc[t] \notin SlotLabels /\ pc[t] \notin FirstLabels /\ pc[t] \notin TailLabels
      /\ pc[t] \notin PopLocked /\ Locked(t)
  BY DEF SlotLabels, FirstLabels, TailLabels, Locked, PushLocked, PopLocked
<1>2. UNCHANGED Memory
  BY DEF Memory
<1>3. TypedLocals' /\ Others(t) /\ pc'[t] = "idle" /\ Shape' /\ Copied'
  BY <1>1, <1>2, ReturnsQuietly DEF IInv
<1>4. slot[t] \in Range(items) /\ payload[slot[t]] \in Messages
  <2>1. items # <<>> /\ slot[t] = items[Len(items)]
    BY DEF IInv, Shape, TailKnown, TailOK
  <2>2. Len(items) \in 1..Len(items)
    BY <2>1, RangeOfItems DEF IInv
  <2> QED
    BY <2>1, <2>2, RangeOfItems DEF IInv, Shape, ItemsLinked
<1>5. Typed'
  BY <1>3, <1>4 DEF IInv, Typed, TypedShared, TypedHistory
<1>6. QueueLockExcludes'
  BY <1>1, <1>3, LockReleased DEF IInv, Locked, PushLocked, PopLocked
<1>7. NothingLost'
  BY <1>1, <1>3, <1>4 DEF IInv, NothingLost, Others
<1> QED
  BY <1>3, <1>5, <1>6, <1>7 DEF IInv

(* The lock is given back after a pop.                                     *)
LEMMA PopUnlockKeeps ==
  ASSUME IInv, NEW t \in Threads, PopUnlock(t)
  PROVE  IInv'
<1> USE DEF PopUnlock, slotVars, poolVars
<1>1. /\ pc[t] \notin SlotLabels /\ pc[t] \notin FirstLabels /\ pc[t] \notin TailLabels
      /\ Locked(t)
  BY DEF SlotLabels, FirstLabels, TailLabels, Locked, PushLocked, PopLocked
<1>2. UNCHANGED Memory
  BY DEF Memory
<1>3. TypedLocals' /\ Others(t) /\ pc'[t] = "idle" /\ Shape' /\ Copied'
  BY <1>1, <1>2, ReturnsQuietly DEF IInv
<1>4. /\ err[t] = "OK" => buf[t] \in Messages
      /\ faults = 0 /\ buf[t] # 0 => err[t] = "OK"
  BY DEF IInv, Copied, CopyOK
<1>5. Typed'
  BY <1>3, <1>4 DEF IInv, Typed, TypedShared, TypedHistory
<1>6. QueueLockExcludes'
  BY <1>1, <1>3, LockReleased DEF IInv, Locked, PushLocked, PopLocked
<1>7. NothingLost'
  <2> SUFFICES ASSUME faults = 0, NEW m \in accepted
               PROVE  \/ m \in {payload[s] : s \in Range(items)}
                      \/ m \in received'
                      \/ \E u \in Threads : buf'[u] = m /\ pc'[u] \in PopLocked
    BY DEF NothingLost
  <2>1. m # 0
    BY ZeroIsNoMessage DEF IInv, Typed, TypedHistory
  <2>2. \/ m \in {payload[s] : s \in Range(items)}
        \/ m \in received
        \/ \E u \in Threads : buf[u] = m /\ pc[u] \in PopLocked
    BY DEF IInv, NothingLost
  <2>3. ASSUME NEW u \in Threads, buf[u] = m, pc[u] \in PopLocked, u # t
        PROVE  buf'[u] = m /\ pc'[u] \in PopLocked
    BY <1>3, <2>3 DEF Others
  <2>4. buf[t] = m => m \in received'
    BY <1>4, <2>1
  <2> QED
    BY <2>2, <2>3, <2>4
<1> QED
  BY <1>3, <1>5, <1>6, <1>7 DEF IInv

(* Nothing the invariant says depends on who is alive.                     *)
LEMMA DieKeeps ==
  ASSUME IInv, NEW t \in Threads, Die(t)
  PROVE  IInv'
<1> USE DEF Die, headVars, slotVars, poolVars, localVars
<1>1. Typed'
  BY DEF IInv, Typed, TypedShared, TypedLocals, TypedHistory
<1>2. QueueLockExcludes'
  BY DEF IInv, QueueLockExcludes, Locked
<1>3. Shape'
  BY DEF IInv, Shape, PoolSlots, SlotHeld, SlotOK, DummyHeld, DummyOK, FirstHeld, FirstOK,
         DummyFixed, ItemsLinked, TailKnown, TailOK, Placed
<1>4. Copied'
  BY DEF IInv, Copied, CopyOK
<1>5. NothingLost'
  BY DEF IInv, NothingLost
<1> QED
  BY <1>1, <1>2, <1>3, <1>4, <1>5 DEF IInv

(* ef_rebuild_free_list: the FREE slots are those of the pool and the      *)
(* stranded ones, so that no slot of the queue or of a dead call is taken. *)
LEMMA ReopenKeeps ==
  ASSUME IInv, Reopen
  PROVE  IInv'
<1> USE DEF Reopen, headVars, slotVars, localVars, doneVars
<1>1. Typed'
  BY DEF IInv, Typed, TypedShared, TypedLocals, TypedHistory
<1>2. QueueLockExcludes'
  BY DEF IInv, QueueLockExcludes, Locked
<1>3. PoolSlots'
  BY DEF IInv, Shape, PoolSlots
<1>4. Placed'
  BY DEF IInv, Shape, Placed, PoolSlots
<1>5. Shape'
  BY <1>3, <1>4
     DEF IInv, Shape, SlotHeld, SlotOK, DummyHeld, DummyOK, FirstHeld, FirstOK,
         DummyFixed, ItemsLinked, TailKnown, TailOK
<1>6. Copied'
  BY DEF IInv, Copied, CopyOK
<1>7. NothingLost'
  BY DEF IInv, NothingLost
<1> QED
  BY <1>1, <1>2, <1>5, <1>6, <1>7 DEF IInv

-----------------------------------------------------------------------------
(* The actions that take a slot from the pool.                             *)

(* The number of faults stays in its bound, and does not go back.          *)
LEMMA FaultCounted ==
  ASSUME Typed, NEW e, e \in Faults \/ e \notin PoolErrs, Fault(e)
  PROVE  faults' \in 0..MaxFaults /\ (faults' = 0 => faults = 0 /\ e \notin PoolErrs)
  BY QueueMaxMsgs DEF Typed, TypedShared, Faults, Fault

(* A slot of the pool is nobody else's.                                    *)
LEMMA AvailApart ==
  ASSUME Typed, Shape, NEW s \in avail
  PROVE  /\ s \in Slots /\ s \notin lost /\ s \notin leaked /\ s \notin Range(items)
         /\ s # queue_head /\ s # Null
         /\ \A u \in Threads : /\ pc[u] \in SlotLabels => slot[u] # s
                               /\ pc[u] \in DummyLabels => dummy[u] # s
                               /\ pc[u] \in FirstLabels => first[u] # s
<1>1. s \in Slots /\ status[s] = "FREE" /\ s \notin lost /\ s # Null
  BY QueueNull DEF Typed, TypedShared, Shape, PoolSlots
<1>2. s \notin leaked
  BY <1>1 DEF Shape, PoolSlots
<1>3. s \notin Range(items)
  BY <1>1, RangeOfItems DEF Shape, ItemsLinked
<1>4. s # queue_head
  BY <1>1, QueueNull DEF Shape, DummyFixed
<1>5. ASSUME NEW u \in Threads
      PROVE  /\ pc[u] \in SlotLabels => slot[u] # s
             /\ pc[u] \in DummyLabels => dummy[u] # s
             /\ pc[u] \in FirstLabels => first[u] # s
  BY <1>1 DEF Shape, SlotHeld, SlotOK, DummyHeld, DummyOK, FirstHeld, FirstOK
<1> QED
  BY <1>1, <1>2, <1>3, <1>4, <1>5

(* A step of t that writes one slot only, a slot that is neither in the    *)
(* queue nor in the hands of another call, disturbs nobody else.           *)
LEMMA PrivateWrite ==
  ASSUME Typed, Shape, NEW t \in Threads, NEW s \in Slots, Others(t),
         UNCHANGED <<queue_head, queue_tail, items>>,
         \A r \in Slots : r # s => /\ next_offset'[r] = next_offset[r]
                                   /\ status'[r] = status[r] /\ payload'[r] = payload[r],
         leaked' \subseteq leaked \cup {s},
         s # queue_head, s \notin Range(items),
         \A u \in Threads : u # t => /\ pc[u] \in SlotLabels => slot[u] # s
                                     /\ pc[u] \in DummyLabels => dummy[u] # s
                                     /\ pc[u] \in FirstLabels => first[u] # s,
         pc[t] \in TailLabels => pc'[t] \in TailLabels,
         pc'[t] = "dummy_tail" => pc[t] = "dummy_tail",
         pc'[t] \in KnowLabels => dummy'[t] = queue_head /\ queue_head # Null,
         TailOK(t)'
  PROVE  /\ DummyFixed' /\ ItemsLinked' /\ TailKnown'
         /\ \A u \in Threads : u # t =>
              /\ pc'[u] \in SlotLabels => SlotOK(u)'
              /\ pc'[u] \in DummyLabels => DummyOK(u)'
              /\ pc'[u] \in FirstLabels /\ (pc'[t] \in SlotLabels => slot'[t] # first[u]) => FirstOK(u)'
<1>1. \A i \in 1..Len(items) : items[i] \in Slots /\ items[i] # s
  BY RangeOfItems
<1>2. ItemsLinked'
  BY <1>1 DEF Shape, ItemsLinked
<1>3. DummyFixed'
  BY DEF Typed, TypedShared, Shape, DummyFixed, Others
<1>4. TailKnown'
  <2>1. ASSUME NEW u \in Threads, u # t
        PROVE  TailOK(u)'
    <3>1. items # <<>> => 1 \in 1..Len(items)
      BY RangeOfItems
    <3>2. items # <<>> => next_offset'[items[1]] = next_offset[items[1]] /\ payload'[items[1]] = payload[items[1]]
      BY <1>1, <3>1
    <3> QED
      BY <2>1, <3>2 DEF Shape, TailKnown, TailOK, Others
  <2>2. queue_tail' = LastOr(items', queue_head') \/ \E u \in Threads : pc'[u] \in TailLabels
    BY DEF Shape, TailKnown, Others
  <2>3. \A u, v \in Threads : pc'[u] = "dummy_tail" /\ pc'[v] = "dummy_tail" => u = v
    BY DEF Shape, TailKnown, Others
  <2> QED
    BY <2>1, <2>2, <2>3 DEF TailKnown
<1>5. ASSUME NEW u \in Threads, u # t
      PROVE  /\ pc'[u] \in SlotLabels => SlotOK(u)'
             /\ pc'[u] \in DummyLabels => DummyOK(u)'
  BY <1>5 DEF Shape, SlotHeld, SlotOK, DummyHeld, DummyOK, Others
<1>6. ASSUME NEW u \in Threads, u # t, pc'[u] \in FirstLabels, pc'[t] \in SlotLabels => slot'[t] # first[u]
      PROVE  FirstOK(u)'
  BY <1>6 DEF Shape, FirstHeld, FirstOK, Others
<1> QED
  BY <1>2, <1>3, <1>4, <1>5, <1>6

(* ef_queue_push: a slot from the pool, or an error.                       *)
LEMMA PushCallKeeps ==
  ASSUME IInv, NEW t \in Threads, PushCall(t)
  PROVE  IInv'
<1> USE DEF headVars, doneVars
<1>0. calls + 1 \in Messages /\ calls' \in 0..MaxMsgs /\ pc[t] = "idle" /\ ~Locked(t)
  BY QueueMaxMsgs
     DEF IInv, Typed, TypedShared, PushCall, Messages, Locked, PushLocked, PopLocked
<1>1. ASSUME NEW e \in PoolErrs \cup {"SLOT_FULL"}, TakeFails(e), Return(t, e)
      PROVE  IInv'
  <2>1. UNCHANGED Memory /\ faults' \in 0..MaxFaults /\ (faults' = 0 => faults = 0)
    <3>1. e \in Faults \/ e \notin PoolErrs
      BY <1>1, QueuePoolErrs DEF TakeFails
    <3> QED
      BY <1>1, <3>1, FaultCounted DEF IInv, TakeFails, PushCall, slotVars, Memory
  <2>2. TypedLocals' /\ Others(t) /\ pc'[t] = "idle" /\ buf'[t] = 0 /\ Shape' /\ Copied'
    BY <1>0, <1>1, <2>1, ReturnsQuietly DEF IInv, SlotLabels, FirstLabels, TailLabels
  <2>3. Typed'
    BY <1>0, <1>1, <2>1, <2>2
       DEF IInv, Typed, TypedShared, TypedHistory, PushCall, TakeFails, slotVars, Memory
  <2>4. QueueLockExcludes'
    BY <1>0, <2>2, LockKept DEF IInv, PushCall, Locked, PushLocked, PopLocked
  <2>5. NothingLost'
    BY <1>0, <2>1, <2>2, BufferKept DEF IInv, PushCall, BufLabels, Memory
  <2> QED
    BY <2>2, <2>3, <2>4, <2>5 DEF IInv
<1>2. ASSUME NEW s \in avail, Take(s), status' = [status EXCEPT ![s] = "USED"],
             payload' = [payload EXCEPT ![s] = calls + 1], slot' = [slot EXCEPT ![t] = s],
             Begin(t, "dummy_head"), UNCHANGED <<dummy, tail_off, first, first_next, buf>>
      PROVE  IInv'
  <2> USE <1>2 DEF Take, Begin, Fail, Goto
  <2>1. /\ s \in Slots /\ s \notin lost /\ s \notin leaked /\ s \notin Range(items)
        /\ s # queue_head
        /\ \A u \in Threads : /\ pc[u] \in SlotLabels => slot[u] # s
                              /\ pc[u] \in DummyLabels => dummy[u] # s
                              /\ pc[u] \in FirstLabels => first[u] # s
    BY AvailApart DEF IInv
  <2>2. TypedLocals' /\ Others(t) /\ pc'[t] = "dummy_head" /\ slot'[t] = s
    BY <2>1 DEF IInv, Typed, TypedLocals, Labels, Others
  <2>3. Typed'
    BY <1>0, <2>1, <2>2 DEF IInv, Typed, TypedShared, TypedHistory, PushCall, Statuses
  <2>4. QueueLockExcludes'
    BY <1>0, <2>2, LockKept DEF IInv, PushCall, Locked, PushLocked, PopLocked
  <2>5. /\ DummyFixed' /\ ItemsLinked' /\ TailKnown'
        /\ \A u \in Threads : u # t =>
             /\ pc'[u] \in SlotLabels => SlotOK(u)'
             /\ pc'[u] \in DummyLabels => DummyOK(u)'
             /\ pc'[u] \in FirstLabels /\ (pc'[t] \in SlotLabels => slot'[t] # first[u]) => FirstOK(u)'
    <3>1. TailOK(t)'
      BY <2>2 DEF TailOK
    <3>2. \A r \in Slots : r # s => /\ next_offset'[r] = next_offset[r]
                                    /\ status'[r] = status[r] /\ payload'[r] = payload[r]
      BY DEF IInv, Typed, TypedShared
    <3> QED
      BY <1>0, <2>1, <2>2, <3>1, <3>2, PrivateWrite DEF IInv, PushCall, TailLabels, KnowLabels
  <2>6. /\ status'[s] = "USED" /\ payload'[s] \in Messages /\ next_offset'[s] = Null
        /\ \A r \in Slots : r # s => status'[r] = status[r]
    BY <1>0, <2>1 DEF IInv, Typed, TypedShared
  <2>7. PoolSlots'
    BY <2>1, <2>6 DEF IInv, Typed, TypedShared, Shape, PoolSlots, PushCall
  <2>8. SlotHeld'
    <3>1. SlotOK(t)'
      BY <2>1, <2>2, <2>6 DEF SlotOK, ReadyLabels, PushCall
    <3>2. \A u, v \in Threads :
            pc'[u] \in SlotLabels /\ pc'[v] \in SlotLabels /\ slot'[u] = slot'[v] => u = v
      BY <2>1, <2>2 DEF IInv, Shape, SlotHeld, Others
    <3> QED
      BY <2>5, <3>1, <3>2 DEF SlotHeld
  <2>9. DummyHeld' /\ FirstHeld'
    <3>1. pc'[t] \notin DummyLabels /\ pc'[t] \notin FirstLabels
      BY <2>2 DEF DummyLabels, FirstLabels
    <3>2. \A u \in Threads : pc'[u] \in FirstLabels => slot'[t] # first[u]
      BY <2>1, <2>2, <3>1 DEF Others
    <3>3. \A u, v \in Threads :
            pc'[u] \in DummyLabels /\ pc'[v] \in DummyLabels /\ dummy'[u] = dummy'[v] => u = v
      BY <2>2, <3>1 DEF IInv, Shape, DummyHeld, Others
    <3> QED
      BY <2>5, <3>1, <3>2, <3>3 DEF DummyHeld, FirstHeld
  <2>10. Placed'
    <3>1. pc[t] \notin SlotLabels /\ pc[t] \notin DummyLabels /\ pc[t] \notin FirstLabels /\ pc'[t] \in SlotLabels
      BY <1>0, <2>2 DEF SlotLabels, DummyLabels, FirstLabels
    <3> QED
      BY <2>2, <3>1 DEF IInv, Shape, Placed, Others, PushCall
  <2>11. Copied'
    <3>1. CopyOK(t)'
      BY <1>0, <2>2 DEF IInv, Copied, CopyOK, BufLabels, FirstLabels
    <3> QED
      BY <2>2, <3>1, CopiedKept DEF IInv
  <2>12. NothingLost'
    <3>1. \A r \in Range(items) : payload'[r] = payload[r]
      BY <2>1, RangeOfItems DEF IInv, Typed, TypedShared
    <3> QED
      BY <1>0, <2>2, <3>1, BufferKept DEF IInv, PushCall, BufLabels
  <2> QED
    BY <2>3, <2>4, <2>5, <2>7, <2>8, <2>9, <2>10, <2>11, <2>12 DEF IInv, Shape
<1> QED
  BY <1>1, <1>2 DEF PushCall

(* ef_queue_dummy_offset: a slot for the dummy, or the push fails.         *)
LEMMA DummyAllocKeeps ==
  ASSUME IInv, NEW t \in Threads, DummyAlloc(t)
  PROVE  IInv'
<1> USE DEF headVars, doneVars, Fail, Goto
<1>0. /\ pc[t] = "dummy_alloc" /\ ~Locked(t) /\ pc[t] \in SlotLabels /\ pc[t] \notin DummyLabels
      /\ pc[t] \notin FirstLabels /\ pc[t] \notin BufLabels /\ pc[t] \notin TailLabels
  BY DEF DummyAlloc, Locked, PushLocked, PopLocked, SlotLabels, DummyLabels, FirstLabels,
         BufLabels, TailLabels
<1>1. ASSUME NEW e \in PoolErrs \cup {"SLOT_FULL"}, TakeFails(e), Fail(t, e, "push_return"),
             UNCHANGED dummy
      PROVE  IInv'
  <2>1. UNCHANGED Memory /\ faults' \in 0..MaxFaults /\ (faults' = 0 => faults = 0)
    <3>1. e \in Faults \/ e \notin PoolErrs
      BY <1>1, QueuePoolErrs DEF TakeFails
    <3> QED
      BY <1>1, <3>1, FaultCounted DEF IInv, TakeFails, DummyAlloc, slotVars, Memory
  <2>2. TypedLocals' /\ Others(t) /\ pc'[t] = "push_return"
    BY <1>1 DEF IInv, Typed, TypedLocals, Labels, Others, DummyAlloc
  <2>3. Typed'
    BY <2>1, <2>2 DEF IInv, Typed, TypedShared, TypedHistory, DummyAlloc, Memory
  <2>4. QueueLockExcludes'
    BY <1>0, <2>2, LockKept DEF IInv, DummyAlloc, Locked, PushLocked, PopLocked
  <2>5. Shape' /\ Copied' /\ NothingLost'
    BY <1>0, <1>1, <2>1, <2>2, PushMoves
       DEF IInv, DummyAlloc, SlotLabels, ReadyLabels, DummyLabels
  <2> QED
    BY <2>3, <2>4, <2>5 DEF IInv
<1>2. ASSUME NEW s \in avail, Take(s), status' = [status EXCEPT ![s] = "QUEUE_DUMMY"],
             payload' = [payload EXCEPT ![s] = 0], dummy' = [dummy EXCEPT ![t] = s],
             Goto(t, "dummy_cas"), UNCHANGED err
      PROVE  IInv'
  <2> USE <1>2 DEF Take, DummyAlloc
  <2>1. /\ s \in Slots /\ s \notin lost /\ s \notin leaked /\ s \notin Range(items)
        /\ s # queue_head
        /\ \A u \in Threads : /\ pc[u] \in SlotLabels => slot[u] # s
                              /\ pc[u] \in DummyLabels => dummy[u] # s
                              /\ pc[u] \in FirstLabels => first[u] # s
    BY AvailApart DEF IInv
  <2>2. TypedLocals' /\ Others(t) /\ pc'[t] = "dummy_cas" /\ dummy'[t] = s
    BY <2>1 DEF IInv, Typed, TypedLocals, Labels, Others
  <2>3. Typed'
    BY <2>1, <2>2 DEF IInv, Typed, TypedShared, TypedHistory, Statuses
  <2>4. QueueLockExcludes'
    BY <1>0, <2>2, LockKept DEF IInv, Locked, PushLocked, PopLocked
  <2>5. /\ DummyFixed' /\ ItemsLinked' /\ TailKnown'
        /\ \A u \in Threads : u # t =>
             /\ pc'[u] \in SlotLabels => SlotOK(u)'
             /\ pc'[u] \in DummyLabels => DummyOK(u)'
             /\ pc'[u] \in FirstLabels /\ (pc'[t] \in SlotLabels => slot'[t] # first[u]) => FirstOK(u)'
    <3>1. TailOK(t)'
      BY <2>2 DEF TailOK
    <3>2. \A r \in Slots : r # s => /\ next_offset'[r] = next_offset[r]
                                    /\ status'[r] = status[r] /\ payload'[r] = payload[r]
      BY DEF IInv, Typed, TypedShared
    <3> QED
      BY <1>0, <2>1, <2>2, <3>1, <3>2, PrivateWrite DEF IInv, KnowLabels
  <2>6. /\ status'[s] = "QUEUE_DUMMY" /\ next_offset'[s] = Null
        /\ \A r \in Slots : r # s => status'[r] = status[r] /\ payload'[r] = payload[r]
    BY <2>1 DEF IInv, Typed, TypedShared
  <2>7. PoolSlots'
    BY <2>1, <2>6 DEF IInv, Typed, TypedShared, Shape, PoolSlots
  <2>8. SlotHeld'
    <3>1. SlotOK(t)'
      BY <1>0, <2>1, <2>2, <2>6 DEF IInv, Shape, SlotHeld, SlotOK, ReadyLabels
    <3>2. \A u, v \in Threads :
            pc'[u] \in SlotLabels /\ pc'[v] \in SlotLabels /\ slot'[u] = slot'[v] => u = v
      BY <1>0, <2>2 DEF IInv, Shape, SlotHeld, Others
    <3> QED
      BY <2>5, <3>1, <3>2 DEF SlotHeld
  <2>9. DummyHeld'
    <3>1. DummyOK(t)'
      BY <2>1, <2>2, <2>6 DEF DummyOK
    <3>2. \A u, v \in Threads :
            pc'[u] \in DummyLabels /\ pc'[v] \in DummyLabels /\ dummy'[u] = dummy'[v] => u = v
      BY <2>1, <2>2 DEF IInv, Shape, DummyHeld, Others
    <3> QED
      BY <2>5, <3>1, <3>2 DEF DummyHeld
  <2>10. FirstHeld'
    <3>1. pc'[t] \notin FirstLabels
      BY <2>2 DEF FirstLabels
    <3>2. \A u \in Threads : pc'[u] \in FirstLabels => slot'[t] # first[u]
      BY <1>0, <2>2, <3>1 DEF IInv, Shape, FirstHeld, FirstOK, Others
    <3> QED
      BY <2>5, <3>1, <3>2 DEF FirstHeld
  <2>11. Placed'
    <3>1. pc'[t] \in SlotLabels /\ pc'[t] \in DummyLabels
      BY <2>2 DEF SlotLabels, DummyLabels
    <3> QED
      BY <1>0, <2>2, <3>1 DEF IInv, Shape, Placed, Others
  <2>12. Copied'
    <3>1. CopyOK(t)'
      BY <1>0, <2>2 DEF IInv, Copied, CopyOK, BufLabels, FirstLabels
    <3> QED
      BY <2>2, <3>1, CopiedKept DEF IInv
  <2>13. NothingLost'
    <3>1. \A r \in Range(items) : payload'[r] = payload[r]
      BY <2>1, <2>6, RangeOfItems DEF IInv
    <3> QED
      BY <1>0, <2>2, <3>1, BufferKept DEF IInv
  <2> QED
    BY <2>3, <2>4, <2>5, <2>7, <2>8, <2>9, <2>10, <2>11, <2>12, <2>13 DEF IInv, Shape
<1> QED
  BY <1>1, <1>2 DEF DummyAlloc

-----------------------------------------------------------------------------
(* Publishing the dummy.                                                   *)

(* The compare-and-swap of the head: one thread installs its dummy.        *)
LEMMA DummyCasKeeps ==
  ASSUME IInv, NEW t \in Threads, DummyCas(t)
  PROVE  IInv'
<1> USE DEF DummyCas, Goto, slotVars, poolVars, localVars, doneVars
<1>0. /\ pc[t] = "dummy_cas" /\ pc[t] \in SlotLabels /\ pc[t] \in DummyLabels
      /\ pc[t] \notin FirstLabels /\ pc[t] \notin BufLabels /\ pc[t] \notin TailLabels
      /\ dummy[t] \in Slots /\ dummy[t] # queue_head
      /\ status[dummy[t]] = "QUEUE_DUMMY" /\ next_offset[dummy[t]] = Null
  <2>1. pc[t] = "dummy_cas" /\ pc[t] \in SlotLabels /\ pc[t] \in DummyLabels
    BY DEF SlotLabels, DummyLabels
  <2> QED
    BY <2>1 DEF FirstLabels, BufLabels, TailLabels, IInv, Shape, DummyHeld, DummyOK
<1>1. TypedLocals' /\ Others(t) /\ pc'[t] = IF queue_head = Null THEN "dummy_tail" ELSE "dummy_return"
  <2>1. CASE queue_head = Null
    BY <2>1 DEF IInv, Typed, TypedLocals, Labels, Others
  <2>2. CASE queue_head # Null
    BY <2>2 DEF IInv, Typed, TypedLocals, Labels, Others
  <2> QED
    BY <2>1, <2>2
<1>2. Typed'
  BY <1>0, <1>1 DEF IInv, Typed, TypedShared, TypedHistory
<1>3. QueueLockExcludes'
  BY <1>0, <1>1, LockKept DEF IInv, Locked, PushLocked, PopLocked
<1>4. Copied'
  <2>1. CopyOK(t)'
    BY <1>0, <1>1 DEF IInv, Copied, CopyOK, BufLabels, FirstLabels
  <2> QED
    BY <1>1, <2>1, CopiedKept DEF IInv
<1>5. NothingLost'
  BY <1>0, <1>1, BufferKept DEF IInv
<1>6. CASE queue_head # Null
  <2>1. TailOK(t)'
    BY <1>1, <1>6 DEF TailOK
  <2>2. Shape'
    BY <1>0, <1>1, <1>6, <2>1, QuietStep
       DEF IInv, SlotLabels, DummyLabels, FirstLabels, ReadyLabels, KnowLabels, TailLabels, Memory
  <2> QED
    BY <1>2, <1>3, <1>4, <1>5, <2>2 DEF IInv
<1>7. CASE queue_head = Null
  <2>1. /\ pc'[t] = "dummy_tail" /\ pc'[t] \in SlotLabels /\ pc'[t] \notin DummyLabels
        /\ pc'[t] \notin FirstLabels /\ pc'[t] \notin KnowLabels /\ pc'[t] \notin ReadyLabels
        /\ pc'[t] \in TailLabels /\ queue_head' = dummy[t] /\ queue_head' # Null
    BY <1>0, <1>1, <1>7, QueueNull
       DEF SlotLabels, DummyLabels, FirstLabels, KnowLabels, ReadyLabels, TailLabels
  <2>2. /\ items = <<>> /\ queue_tail = Null
        /\ \A u \in Threads : pc[u] \notin KnowLabels /\ pc[u] # "dummy_tail"
    BY <1>7 DEF IInv, Shape, DummyFixed, TailKnown, TailOK
  <2>3. PoolSlots'
    BY DEF IInv, Shape, PoolSlots
  <2>4. SlotHeld'
    BY <1>0, <1>1, <2>1 DEF IInv, Shape, SlotHeld, SlotOK, Others
  <2>5. DummyHeld'
    BY <1>0, <1>1, <2>1 DEF IInv, Shape, DummyHeld, DummyOK, Others
  <2>6. FirstHeld'
    BY <1>0, <1>1, <2>1 DEF IInv, Shape, FirstHeld, FirstOK, Others
  <2>7. DummyFixed'
    BY <1>0, <1>1, <2>1, <2>2 DEF DummyFixed, FirstOr, Others
  <2>8. ItemsLinked'
    BY DEF IInv, Shape, ItemsLinked
  <2>9. TailKnown'
    <3>1. TailOK(t)'
      BY <2>1, <2>2 DEF TailOK
    <3>2. ASSUME NEW u \in Threads, u # t
          PROVE  TailOK(u)'
      BY <1>1, <2>2, <3>2 DEF IInv, Shape, TailKnown, TailOK, Others
    <3> QED
      BY <1>1, <2>1, <2>2, <3>1, <3>2 DEF TailKnown, Others
  <2>10. Placed'
    BY <1>0, <1>1, <1>7, <2>1, QueueNull DEF IInv, Shape, Placed, Others
  <2> QED
    BY <1>2, <1>3, <1>4, <1>5, <2>3, <2>4, <2>5, <2>6, <2>7, <2>8, <2>9, <2>10 DEF IInv, Shape
<1> QED
  BY <1>6, <1>7

(* Between the two stores nobody can have linked a node.                   *)
LEMMA DummyTailKeeps ==
  ASSUME IInv, NEW t \in Threads, DummyTail(t)
  PROVE  IInv'
<1> USE DEF DummyTail, Goto, slotVars, poolVars, localVars, doneVars
<1>0. /\ pc[t] = "dummy_tail" /\ pc[t] \in SlotLabels /\ pc[t] \notin DummyLabels
      /\ pc[t] \notin FirstLabels /\ pc[t] \notin BufLabels
      /\ dummy[t] = queue_head /\ queue_head \in Slots /\ queue_tail = Null /\ items = <<>>
  BY DEF SlotLabels, DummyLabels, FirstLabels, BufLabels, IInv, Shape, TailKnown, TailOK,
         Typed, TypedShared
<1>1. TypedLocals' /\ Others(t) /\ pc'[t] = "node"
  BY DEF IInv, Typed, TypedLocals, Labels, Others
<1>2. /\ pc'[t] \in SlotLabels /\ pc'[t] \notin DummyLabels /\ pc'[t] \notin FirstLabels
      /\ pc'[t] \notin KnowLabels /\ pc'[t] \notin ReadyLabels /\ pc'[t] \notin TailLabels
  BY <1>1 DEF SlotLabels, DummyLabels, FirstLabels, KnowLabels, ReadyLabels, TailLabels
<1>3. Typed'
  BY <1>0, <1>1 DEF IInv, Typed, TypedShared, TypedHistory
<1>4. QueueLockExcludes'
  BY <1>0, <1>1, LockKept DEF IInv, Locked, PushLocked, PopLocked
<1>5. Copied'
  <2>1. CopyOK(t)'
    BY <1>0, <1>1 DEF IInv, Copied, CopyOK, BufLabels, FirstLabels
  <2> QED
    BY <1>1, <2>1, CopiedKept DEF IInv
<1>6. NothingLost'
  BY <1>0, <1>1, BufferKept DEF IInv
<1>7. PoolSlots'
  BY DEF IInv, Shape, PoolSlots
<1>8. SlotHeld'
  BY <1>0, <1>1, <1>2 DEF IInv, Shape, SlotHeld, SlotOK, Others
<1>9. DummyHeld'
  BY <1>0, <1>1, <1>2 DEF IInv, Shape, DummyHeld, DummyOK, Others
<1>10. FirstHeld'
  BY <1>0, <1>1, <1>2 DEF IInv, Shape, FirstHeld, FirstOK, Others
<1>11. DummyFixed'
  BY <1>0, <1>1, <1>2, QueueNull DEF IInv, Shape, DummyFixed, Others
<1>12. ItemsLinked'
  BY DEF IInv, Shape, ItemsLinked
<1>13. TailKnown'
  <2>1. TailOK(t)'
    BY <1>1 DEF TailOK
  <2>2. ASSUME NEW u \in Threads, u # t
        PROVE  TailOK(u)'
    <3>1. TailOK(u) /\ pc[u] # "dummy_tail"
      BY <1>0, <2>2 DEF IInv, Shape, TailKnown
    <3>2. pc[u] # "pop_tail"
      <4>1. pc[u] = "pop_tail" => first[u] \in Slots
        BY DEF IInv, Shape, FirstHeld, FirstOK, FirstLabels
      <4> QED
        BY <1>0, <3>1, <4>1, QueueNull DEF TailOK, LastOr
    <3> QED
      BY <1>0, <1>1, <2>2, <3>1, <3>2 DEF TailOK, Others
  <2>3. queue_tail' = LastOr(items', queue_head')
    BY <1>0 DEF LastOr
  <2>4. \A u \in Threads : pc'[u] # "dummy_tail"
    BY <1>0, <1>1 DEF IInv, Shape, TailKnown, Others
  <2> QED
    BY <2>1, <2>2, <2>3, <2>4 DEF TailKnown
<1>14. Placed'
  BY <1>0, <1>1, <1>2 DEF IInv, Shape, Placed, Others
<1> QED
  BY <1>3, <1>4, <1>5, <1>6, <1>7, <1>8, <1>9, <1>10, <1>11, <1>12, <1>13, <1>14 DEF IInv, Shape

-----------------------------------------------------------------------------
(* The actions that give a slot back to the pool.                          *)

(* ef_return_slot_to_pool: whatever it returns, the slot is in the pool,   *)
(* stranded or leaked afterwards.                                          *)
LEMMA GivenBack ==
  ASSUME Typed, Shape, NEW s \in Slots, NEW e \in PoolErrs \cup {"OK"}, NEW kept \in {"USED", "QUEUED"},
         GiveBack(s, e, kept), items' = items, status[s] # "FREE", s \notin leaked, s \notin Range(items)
  PROVE  /\ faults' \in 0..MaxFaults /\ (faults' = 0 => faults = 0 /\ e = "OK")
         /\ next_offset' \in [Slots -> Slots \cup {Null}]
         /\ status' \in [Slots -> Statuses] /\ payload' \in [Slots -> Messages \cup {0}]
         /\ avail' \in SUBSET Slots /\ lost' \in SUBSET Slots /\ leaked' \in SUBSET Slots
         /\ \A r \in Slots : r # s => /\ next_offset'[r] = next_offset[r]
                                      /\ status'[r] = status[r] /\ payload'[r] = payload[r]
         /\ avail \subseteq avail' /\ lost \subseteq lost' /\ leaked \subseteq leaked'
         /\ leaked' \subseteq leaked \cup {s}
         /\ s \in avail' \/ s \in lost' \/ s \in leaked'
         /\ PoolSlots'
<1> USE DEF GiveBack
<1>0. e \in {"OK", "INDEX_BUSY", "QUEUE_BUSY"} /\ "OK" \notin PoolErrs
  BY QueuePoolErrs
<1>1. faults' \in 0..MaxFaults /\ (faults' = 0 => faults = 0 /\ e = "OK")
  <2>1. e \in Faults \/ e \notin PoolErrs
    BY <1>0
  <2> QED
    BY <2>1, FaultCounted
<1>2. /\ next_offset' \in [Slots -> Slots \cup {Null}]
      /\ status' \in [Slots -> Statuses] /\ payload' \in [Slots -> Messages \cup {0}]
  BY DEF Typed, TypedShared, Statuses
<1>3. avail' \in SUBSET Slots /\ lost' \in SUBSET Slots /\ leaked' \in SUBSET Slots
  BY DEF Typed, TypedShared
<1>4. \A r \in Slots : r # s => /\ next_offset'[r] = next_offset[r]
                                /\ status'[r] = status[r] /\ payload'[r] = payload[r]
  BY DEF Typed, TypedShared
<1>5. /\ avail \subseteq avail' /\ lost \subseteq lost' /\ leaked \subseteq leaked'
      /\ leaked' \subseteq leaked \cup {s}
      /\ s \in avail' \/ s \in lost' \/ s \in leaked'
  BY <1>0
<1>6. PoolSlots'
  <2>1. status'[s] = IF e = "INDEX_BUSY" THEN kept ELSE "FREE"
    BY DEF Typed, TypedShared
  <2>2. s \notin avail /\ s \notin lost
    BY DEF Shape, PoolSlots
  <2>3. CASE e = "OK"
    BY <1>4, <2>1, <2>2, <2>3 DEF Typed, TypedShared, Shape, PoolSlots
  <2>4. CASE e = "INDEX_BUSY"
    BY <1>4, <2>1, <2>2, <2>4 DEF Typed, TypedShared, Shape, PoolSlots
  <2>5. CASE e = "QUEUE_BUSY"
    BY <1>4, <2>1, <2>2, <2>5 DEF Typed, TypedShared, Shape, PoolSlots
  <2> QED
    BY <1>0, <2>3, <2>4, <2>5
<1> QED
  BY <1>1, <1>2, <1>3, <1>4, <1>5, <1>6

(* A producer that was second gives its dummy back to the pool.            *)
LEMMA DummyReturnKeeps ==
  ASSUME IInv, NEW t \in Threads, DummyReturn(t)
  PROVE  IInv'
<1> USE DEF DummyReturn, Goto, headVars, localVars, doneVars
<1> DEFINE s == dummy[t]
<1>0. /\ pc[t] = "dummy_return" /\ pc[t] \in SlotLabels /\ pc[t] \in DummyLabels
      /\ pc[t] \notin FirstLabels /\ pc[t] \notin BufLabels /\ pc[t] \notin TailLabels
  BY DEF SlotLabels, DummyLabels, FirstLabels, BufLabels, TailLabels
<1>1. s \in Slots /\ s # queue_head /\ status[s] = "QUEUE_DUMMY"
  BY <1>0 DEF IInv, Shape, DummyHeld, DummyOK
<1>2. /\ s \notin Range(items) /\ s \notin leaked
      /\ \A u \in Threads : /\ pc[u] \in SlotLabels => slot[u] # s
                            /\ pc[u] \in DummyLabels /\ u # t => dummy[u] # s
                            /\ pc[u] \in FirstLabels => first[u] # s
  <2>1. s \notin Range(items) /\ s \notin leaked
    BY <1>1, RangeOfItems DEF IInv, Shape, ItemsLinked, PoolSlots
  <2>2. ASSUME NEW u \in Threads
        PROVE  /\ pc[u] \in SlotLabels => slot[u] # s
               /\ pc[u] \in DummyLabels /\ u # t => dummy[u] # s
               /\ pc[u] \in FirstLabels => first[u] # s
    BY <1>0, <1>1 DEF IInv, Shape, SlotHeld, SlotOK, DummyHeld, FirstHeld, FirstOK
  <2> QED
    BY <2>1, <2>2
<1>3. PICK e \in PoolErrs \cup {"OK"} : GiveBack(s, e, "USED")
  OBVIOUS
<1>4. TypedLocals' /\ Others(t) /\ pc'[t] = "node"
  BY DEF IInv, Typed, TypedLocals, Labels, Others
<1>5. /\ pc'[t] \in SlotLabels /\ pc'[t] \notin DummyLabels /\ pc'[t] \notin FirstLabels
      /\ pc'[t] \notin KnowLabels /\ pc'[t] \notin ReadyLabels
  BY <1>4 DEF SlotLabels, DummyLabels, FirstLabels, KnowLabels, ReadyLabels
<1> HIDE DEF s
<1>6. /\ faults' \in 0..MaxFaults /\ (faults' = 0 => faults = 0)
      /\ next_offset' \in [Slots -> Slots \cup {Null}]
      /\ status' \in [Slots -> Statuses] /\ payload' \in [Slots -> Messages \cup {0}]
      /\ avail' \in SUBSET Slots /\ lost' \in SUBSET Slots /\ leaked' \in SUBSET Slots
      /\ \A r \in Slots : r # s => /\ next_offset'[r] = next_offset[r]
                                   /\ status'[r] = status[r] /\ payload'[r] = payload[r]
      /\ avail \subseteq avail' /\ lost \subseteq lost' /\ leaked \subseteq leaked'
      /\ leaked' \subseteq leaked \cup {s}
      /\ s \in avail' \/ s \in lost' \/ s \in leaked'
      /\ PoolSlots'
  BY <1>1, <1>2, <1>3, GivenBack DEF IInv
<1>7. Typed'
  BY <1>4, <1>6 DEF IInv, Typed, TypedShared, TypedHistory
<1>8. QueueLockExcludes'
  BY <1>0, <1>4, LockKept DEF IInv, Locked, PushLocked, PopLocked
<1>9. /\ DummyFixed' /\ ItemsLinked' /\ TailKnown'
      /\ \A u \in Threads : u # t =>
           /\ pc'[u] \in SlotLabels => SlotOK(u)'
           /\ pc'[u] \in DummyLabels => DummyOK(u)'
           /\ pc'[u] \in FirstLabels /\ (pc'[t] \in SlotLabels => slot'[t] # first[u]) => FirstOK(u)'
  <2>1. TailOK(t)'
    BY <1>4 DEF TailOK
  <2> QED
    BY <1>0, <1>1, <1>2, <1>4, <1>5, <1>6, <2>1, PrivateWrite DEF IInv
<1>10. SlotHeld'
  <2>1. SlotOK(t)'
    BY <1>0, <1>2, <1>4, <1>5, <1>6 DEF IInv, Shape, SlotHeld, SlotOK
  <2>2. \A u, v \in Threads :
          pc'[u] \in SlotLabels /\ pc'[v] \in SlotLabels /\ slot'[u] = slot'[v] => u = v
    BY <1>0, <1>4 DEF IInv, Shape, SlotHeld, Others
  <2> QED
    BY <1>9, <2>1, <2>2 DEF SlotHeld
<1>11. DummyHeld'
  <2>1. \A u, v \in Threads :
          pc'[u] \in DummyLabels /\ pc'[v] \in DummyLabels /\ dummy'[u] = dummy'[v] => u = v
    BY <1>4, <1>5 DEF IInv, Shape, DummyHeld, Others
  <2> QED
    BY <1>5, <1>9, <2>1 DEF DummyHeld
<1>12. FirstHeld'
  <2>1. \A u \in Threads : pc'[u] \in FirstLabels => slot'[t] # first[u]
    BY <1>0, <1>4, <1>5 DEF IInv, Shape, FirstHeld, FirstOK, Others
  <2> QED
    BY <1>5, <1>9, <2>1 DEF FirstHeld
<1>13. Placed'
  BY <1>0, <1>4, <1>5, <1>6 DEF IInv, Shape, Placed, Others, s
<1>14. Copied'
  <2>1. CopyOK(t)'
    BY <1>0, <1>4 DEF IInv, Copied, CopyOK, BufLabels, FirstLabels
  <2> QED
    BY <1>4, <1>6, <2>1, CopiedKept DEF IInv
<1>15. NothingLost'
  <2>1. \A r \in Range(items) : payload'[r] = payload[r]
    BY <1>2, <1>6, RangeOfItems DEF IInv
  <2> QED
    BY <1>0, <1>4, <1>6, <2>1, BufferKept DEF IInv
<1> QED
  BY <1>6, <1>7, <1>8, <1>9, <1>10, <1>11, <1>12, <1>13, <1>14, <1>15 DEF IInv, Shape

(* The enqueue failed, and the slot goes back to the pool.                 *)
LEMMA PushReturnKeeps ==
  ASSUME IInv, NEW t \in Threads, PushReturn(t)
  PROVE  IInv'
<1> USE DEF PushReturn, headVars, doneVars
<1> DEFINE s == slot[t]
<1>0. /\ pc[t] = "push_return" /\ pc[t] \in SlotLabels /\ pc[t] \notin DummyLabels
      /\ pc[t] \notin FirstLabels /\ pc[t] \notin BufLabels /\ pc[t] \notin TailLabels
  BY DEF SlotLabels, DummyLabels, FirstLabels, BufLabels, TailLabels
<1>1. /\ s \in Slots /\ status[s] \in {"USED", "QUEUED"}
      /\ s \notin Range(items) /\ s \notin leaked
  BY <1>0 DEF IInv, Shape, SlotHeld, SlotOK
<1>2. /\ s # queue_head
      /\ \A u \in Threads : /\ pc[u] \in SlotLabels /\ u # t => slot[u] # s
                            /\ pc[u] \in DummyLabels => dummy[u] # s
                            /\ pc[u] \in FirstLabels => first[u] # s
  <2>1. s # queue_head
    BY <1>1, QueueNull DEF IInv, Shape, DummyFixed
  <2>2. ASSUME NEW u \in Threads
        PROVE  /\ pc[u] \in SlotLabels /\ u # t => slot[u] # s
               /\ pc[u] \in DummyLabels => dummy[u] # s
               /\ pc[u] \in FirstLabels => first[u] # s
    BY <1>0, <1>1 DEF IInv, Shape, SlotHeld, DummyHeld, DummyOK, FirstHeld, FirstOK
  <2> QED
    BY <2>1, <2>2
<1>3. PICK e \in PoolErrs \cup {"OK"} : GiveBack(s, e, status[s])
  OBVIOUS
<1>4. TypedLocals' /\ Others(t) /\ pc'[t] = "idle" /\ buf'[t] = 0
  BY DEF IInv, Typed, TypedLocals, Labels, Return, Fail, Goto, Others
<1>5. /\ pc'[t] \notin SlotLabels /\ pc'[t] \notin DummyLabels /\ pc'[t] \notin FirstLabels
      /\ pc'[t] \notin KnowLabels
  BY <1>4 DEF SlotLabels, DummyLabels, FirstLabels, KnowLabels
<1> HIDE DEF s
<1>6. /\ faults' \in 0..MaxFaults /\ (faults' = 0 => faults = 0)
      /\ next_offset' \in [Slots -> Slots \cup {Null}]
      /\ status' \in [Slots -> Statuses] /\ payload' \in [Slots -> Messages \cup {0}]
      /\ avail' \in SUBSET Slots /\ lost' \in SUBSET Slots /\ leaked' \in SUBSET Slots
      /\ \A r \in Slots : r # s => /\ next_offset'[r] = next_offset[r]
                                   /\ status'[r] = status[r] /\ payload'[r] = payload[r]
      /\ avail \subseteq avail' /\ lost \subseteq lost' /\ leaked \subseteq leaked'
      /\ leaked' \subseteq leaked \cup {s}
      /\ s \in avail' \/ s \in lost' \/ s \in leaked'
      /\ PoolSlots'
  BY <1>1, <1>2, <1>3, GivenBack DEF IInv
<1>7. Typed'
  BY <1>4, <1>6 DEF IInv, Typed, TypedShared, TypedHistory
<1>8. QueueLockExcludes'
  BY <1>0, <1>4, LockKept DEF IInv, Locked, PushLocked, PopLocked
<1>9. /\ DummyFixed' /\ ItemsLinked' /\ TailKnown'
      /\ \A u \in Threads : u # t =>
           /\ pc'[u] \in SlotLabels => SlotOK(u)'
           /\ pc'[u] \in DummyLabels => DummyOK(u)'
           /\ pc'[u] \in FirstLabels /\ (pc'[t] \in SlotLabels => slot'[t] # first[u]) => FirstOK(u)'
  <2>1. TailOK(t)'
    BY <1>4 DEF TailOK
  <2> QED
    BY <1>0, <1>1, <1>2, <1>4, <1>5, <1>6, <2>1, PrivateWrite DEF IInv
<1>10. SlotHeld' /\ DummyHeld' /\ FirstHeld'
  <2>1. \A u, v \in Threads :
          pc'[u] \in SlotLabels /\ pc'[v] \in SlotLabels /\ slot'[u] = slot'[v] => u = v
    BY <1>4, <1>5 DEF IInv, Shape, SlotHeld, Others
  <2>2. \A u, v \in Threads :
          pc'[u] \in DummyLabels /\ pc'[v] \in DummyLabels /\ dummy'[u] = dummy'[v] => u = v
    BY <1>4, <1>5 DEF IInv, Shape, DummyHeld, Others
  <2> QED
    BY <1>5, <1>9, <2>1, <2>2 DEF SlotHeld, DummyHeld, FirstHeld
<1>11. Placed'
  BY <1>0, <1>4, <1>5, <1>6 DEF IInv, Shape, Placed, Others, s
<1>12. Copied'
  <2>1. CopyOK(t)'
    BY <1>4 DEF CopyOK, BufLabels, FirstLabels
  <2> QED
    BY <1>4, <1>6, <2>1, CopiedKept DEF IInv
<1>13. NothingLost'
  <2>1. \A r \in Range(items) : payload'[r] = payload[r]
    BY <1>1, <1>6, RangeOfItems DEF IInv
  <2> QED
    BY <1>0, <1>4, <1>6, <2>1, BufferKept DEF IInv
<1> QED
  BY <1>6, <1>7, <1>8, <1>9, <1>10, <1>11, <1>12, <1>13 DEF IInv, Shape

(* The node goes back to the pool under the lock.                          *)
LEMMA PopReturnKeeps ==
  ASSUME IInv, NEW t \in Threads, PopReturn(t)
  PROVE  IInv'
<1> USE DEF PopReturn, headVars, doneVars
<1> DEFINE s == first[t]
<1>0. /\ pc[t] = "pop_return" /\ pc[t] \notin SlotLabels /\ pc[t] \notin DummyLabels
      /\ pc[t] \in FirstLabels /\ pc[t] \in BufLabels /\ pc[t] \notin TailLabels
      /\ pc[t] \in KnowLabels /\ Locked(t) /\ buf[t] \in Messages
  <2>1. /\ pc[t] = "pop_return" /\ pc[t] \notin SlotLabels /\ pc[t] \notin DummyLabels
        /\ pc[t] \in FirstLabels /\ pc[t] \in BufLabels /\ pc[t] \notin TailLabels
        /\ pc[t] \in KnowLabels /\ Locked(t)
    BY DEF SlotLabels, DummyLabels, FirstLabels, BufLabels, TailLabels, KnowLabels, Locked, PopLocked
  <2> QED
    BY <2>1 DEF IInv, Copied, CopyOK
<1>1. /\ s \in Slots /\ status[s] = "QUEUED" /\ s \notin Range(items) /\ s \notin leaked
      /\ \A u \in Threads : pc[u] \in SlotLabels => slot[u] # s
  BY <1>0 DEF IInv, Shape, FirstHeld, FirstOK
<1>2. /\ s # queue_head
      /\ \A u \in Threads : /\ pc[u] \in DummyLabels => dummy[u] # s
                            /\ u # t => pc[u] \notin FirstLabels
  <2>1. s # queue_head
    BY <1>1, QueueNull DEF IInv, Shape, DummyFixed
  <2>2. ASSUME NEW u \in Threads
        PROVE  pc[u] \in DummyLabels => dummy[u] # s
    BY <1>1 DEF IInv, Shape, DummyHeld, DummyOK
  <2>3. ASSUME NEW u \in Threads, pc[u] \in FirstLabels
        PROVE  u = t
    <3>1. Locked(u)
      BY <2>3 DEF FirstLabels, Locked, PopLocked
    <3> QED
      BY <1>0, <3>1 DEF IInv, QueueLockExcludes
  <2> QED
    BY <2>1, <2>2, <2>3
<1>3. PICK e \in PoolErrs \cup {"OK"} : GiveBack(s, e, "QUEUED") /\ Fail(t, e, "pop_unlock")
  OBVIOUS
<1>4. /\ TypedLocals' /\ Others(t) /\ pc'[t] = "pop_unlock" /\ buf'[t] = buf[t]
      /\ dummy'[t] = dummy[t] /\ err'[t] = e
  BY <1>3 DEF IInv, Typed, TypedLocals, Labels, Fail, Goto, Others
<1>5. /\ pc'[t] \notin SlotLabels /\ pc'[t] \notin DummyLabels /\ pc'[t] \notin FirstLabels
  BY <1>4 DEF SlotLabels, DummyLabels, FirstLabels
<1> HIDE DEF s
<1>6. /\ faults' \in 0..MaxFaults /\ (faults' = 0 => faults = 0 /\ e = "OK")
      /\ next_offset' \in [Slots -> Slots \cup {Null}]
      /\ status' \in [Slots -> Statuses] /\ payload' \in [Slots -> Messages \cup {0}]
      /\ avail' \in SUBSET Slots /\ lost' \in SUBSET Slots /\ leaked' \in SUBSET Slots
      /\ \A r \in Slots : r # s => /\ next_offset'[r] = next_offset[r]
                                   /\ status'[r] = status[r] /\ payload'[r] = payload[r]
      /\ avail \subseteq avail' /\ lost \subseteq lost' /\ leaked \subseteq leaked'
      /\ leaked' \subseteq leaked \cup {s}
      /\ s \in avail' \/ s \in lost' \/ s \in leaked'
      /\ PoolSlots'
  BY <1>1, <1>3, GivenBack DEF IInv
<1>7. Typed'
  BY <1>4, <1>6 DEF IInv, Typed, TypedShared, TypedHistory
<1>8. QueueLockExcludes'
  BY <1>0, <1>4, LockKept DEF IInv, Locked, PushLocked, PopLocked
<1>9. /\ DummyFixed' /\ ItemsLinked' /\ TailKnown'
      /\ \A u \in Threads : u # t =>
           /\ pc'[u] \in SlotLabels => SlotOK(u)'
           /\ pc'[u] \in DummyLabels => DummyOK(u)'
  <2>1. TailOK(t)'
    BY <1>4 DEF TailOK
  <2>2. dummy'[t] = queue_head /\ queue_head # Null
    BY <1>0, <1>4 DEF IInv, Shape, DummyFixed
  <2> QED
    BY <1>0, <1>1, <1>2, <1>4, <1>5, <1>6, <2>1, <2>2, PrivateWrite DEF IInv
<1>10. SlotHeld' /\ DummyHeld' /\ FirstHeld'
  <2>1. \A u, v \in Threads :
          pc'[u] \in SlotLabels /\ pc'[v] \in SlotLabels /\ slot'[u] = slot'[v] => u = v
    BY <1>4, <1>5 DEF IInv, Shape, SlotHeld, Others
  <2>2. \A u, v \in Threads :
          pc'[u] \in DummyLabels /\ pc'[v] \in DummyLabels /\ dummy'[u] = dummy'[v] => u = v
    BY <1>4, <1>5 DEF IInv, Shape, DummyHeld, Others
  <2>3. \A u \in Threads : pc'[u] \notin FirstLabels
    BY <1>2, <1>4, <1>5 DEF Others
  <2> QED
    BY <1>5, <1>9, <2>1, <2>2, <2>3 DEF SlotHeld, DummyHeld, FirstHeld
<1>11. Placed'
  BY <1>0, <1>4, <1>5, <1>6 DEF IInv, Shape, Placed, Others, s
<1>12. Copied'
  <2>1. CopyOK(t)'
    BY <1>0, <1>4, <1>6 DEF CopyOK, BufLabels, FirstLabels
  <2> QED
    BY <1>4, <1>6, <2>1, CopiedKept DEF IInv
<1>13. NothingLost'
  <2>1. \A r \in Range(items) : payload'[r] = payload[r]
    BY <1>1, <1>6, RangeOfItems DEF IInv
  <2>2. pc'[t] \in PopLocked
    BY <1>4 DEF PopLocked
  <2> QED
    BY <1>4, <1>6, <2>1, <2>2, BufferKept DEF IInv
<1> QED
  BY <1>6, <1>7, <1>8, <1>9, <1>10, <1>11, <1>12, <1>13 DEF IInv, Shape

-----------------------------------------------------------------------------
(* Linking a node.                                                         *)

(* The node is filled with the message before it is linked.                *)
LEMMA NodeKeeps ==
  ASSUME IInv, NEW t \in Threads, Node(t)
  PROVE  IInv'
<1> USE DEF Node, Goto, headVars, poolVars, localVars, doneVars
<1> DEFINE s == slot[t]
<1>0. /\ pc[t] = "node" /\ pc[t] \in SlotLabels /\ pc[t] \notin DummyLabels
      /\ pc[t] \notin FirstLabels /\ pc[t] \notin BufLabels /\ pc[t] \notin TailLabels
  BY DEF SlotLabels, DummyLabels, FirstLabels, BufLabels, TailLabels
<1>1. /\ s \in Slots /\ status[s] \in {"USED", "QUEUED"} /\ payload[s] \in Messages
      /\ s \notin Range(items) /\ s \notin leaked
  BY <1>0 DEF IInv, Shape, SlotHeld, SlotOK
<1>2. /\ s # queue_head
      /\ \A u \in Threads : /\ pc[u] \in SlotLabels /\ u # t => slot[u] # s
                            /\ pc[u] \in DummyLabels => dummy[u] # s
                            /\ pc[u] \in FirstLabels => first[u] # s
  <2>1. s # queue_head
    BY <1>1, QueueNull DEF IInv, Shape, DummyFixed
  <2>2. ASSUME NEW u \in Threads
        PROVE  /\ pc[u] \in SlotLabels /\ u # t => slot[u] # s
               /\ pc[u] \in DummyLabels => dummy[u] # s
               /\ pc[u] \in FirstLabels => first[u] # s
    BY <1>0, <1>1 DEF IInv, Shape, SlotHeld, DummyHeld, DummyOK, FirstHeld, FirstOK
  <2> QED
    BY <2>1, <2>2
<1>4. TypedLocals' /\ Others(t) /\ pc'[t] = "push_lock"
  BY DEF IInv, Typed, TypedLocals, Labels, Others
<1>5. /\ pc'[t] \in SlotLabels /\ pc'[t] \notin DummyLabels /\ pc'[t] \notin FirstLabels
      /\ pc'[t] \notin KnowLabels
  BY <1>4 DEF SlotLabels, DummyLabels, FirstLabels, KnowLabels
<1>6. /\ status'[s] = "QUEUED" /\ next_offset'[s] = Null /\ payload' = payload
      /\ \A r \in Slots : r # s => next_offset'[r] = next_offset[r] /\ status'[r] = status[r]
      /\ TypedShared'
  BY <1>1 DEF IInv, Typed, TypedShared, Statuses
<1> HIDE DEF s
<1>7. Typed'
  BY <1>4, <1>6 DEF IInv, Typed, TypedHistory
<1>8. QueueLockExcludes'
  BY <1>0, <1>4, LockKept DEF IInv, Locked, PushLocked, PopLocked
<1>9. /\ DummyFixed' /\ ItemsLinked' /\ TailKnown'
      /\ \A u \in Threads : u # t =>
           /\ pc'[u] \in SlotLabels => SlotOK(u)'
           /\ pc'[u] \in DummyLabels => DummyOK(u)'
           /\ pc'[u] \in FirstLabels /\ (pc'[t] \in SlotLabels => slot'[t] # first[u]) => FirstOK(u)'
  <2>1. TailOK(t)'
    BY <1>4 DEF TailOK
  <2> QED
    BY <1>0, <1>1, <1>2, <1>4, <1>5, <1>6, <2>1, PrivateWrite DEF IInv
<1>10. SlotHeld'
  <2>1. SlotOK(t)'
    BY <1>1, <1>6 DEF SlotOK, s
  <2>2. \A u, v \in Threads :
          pc'[u] \in SlotLabels /\ pc'[v] \in SlotLabels /\ slot'[u] = slot'[v] => u = v
    BY <1>0, <1>4 DEF IInv, Shape, SlotHeld, Others
  <2> QED
    BY <1>9, <2>1, <2>2 DEF SlotHeld
<1>11. DummyHeld' /\ FirstHeld'
  <2>1. \A u, v \in Threads :
          pc'[u] \in DummyLabels /\ pc'[v] \in DummyLabels /\ dummy'[u] = dummy'[v] => u = v
    BY <1>4, <1>5 DEF IInv, Shape, DummyHeld, Others
  <2>2. \A u \in Threads : pc'[u] \in FirstLabels => slot'[t] # first[u]
    BY <1>2, <1>4, <1>5 DEF Others, s
  <2> QED
    BY <1>5, <1>9, <2>1, <2>2 DEF DummyHeld, FirstHeld
<1>12. PoolSlots'
  BY <1>1, <1>6 DEF IInv, Typed, TypedShared, Shape, PoolSlots
<1>13. Placed'
  BY <1>0, <1>4, <1>5 DEF IInv, Shape, Placed, Others
<1>14. Copied'
  <2>1. CopyOK(t)'
    BY <1>0, <1>4 DEF IInv, Copied, CopyOK, BufLabels, FirstLabels
  <2> QED
    BY <1>4, <2>1, CopiedKept DEF IInv
<1>15. NothingLost'
  BY <1>0, <1>4, BufferKept DEF IInv
<1> QED
  BY <1>7, <1>8, <1>9, <1>10, <1>11, <1>12, <1>13, <1>14, <1>15 DEF IInv, Shape

(* A queue with one more slot at its end, and one with the first gone.     *)
LEMMA AppendFacts ==
  ASSUME NEW q \in Seq(Slots), NEW s \in Slots
  PROVE  /\ Append(q, s) \in Seq(Slots) /\ Append(q, s) # <<>>
         /\ Len(q) \in Nat /\ Len(Append(q, s)) = Len(q) + 1
         /\ \A i \in 1..Len(q) : Append(q, s)[i] = q[i]
         /\ Append(q, s)[Len(q) + 1] = s
         /\ Range(Append(q, s)) = Range(q) \cup {s}
<1>1. /\ Append(q, s) \in Seq(Slots) /\ Append(q, s) # <<>>
      /\ Len(q) \in Nat /\ Len(Append(q, s)) = Len(q) + 1
      /\ \A i \in 1..Len(q) : Append(q, s)[i] = q[i]
      /\ Append(q, s)[Len(q) + 1] = s
  OBVIOUS
<1>2. DOMAIN q = 1..Len(q) /\ DOMAIN Append(q, s) = 1..(Len(q) + 1)
  OBVIOUS
<1>3. ASSUME NEW r
      PROVE  r \in Range(Append(q, s)) <=> r \in Range(q) \/ r = s
  <2>1. ASSUME r \in Range(q)
        PROVE  r \in Range(Append(q, s))
    <3>1. PICK i \in 1..Len(q) : r = q[i]
      BY <1>2, <2>1 DEF Range
    <3>2. i \in 1..(Len(q) + 1) /\ Append(q, s)[i] = r
      BY <1>1, <3>1
    <3> QED
      BY <1>2, <3>2 DEF Range
  <2>2. s \in Range(Append(q, s))
    <3>1. Len(q) + 1 \in 1..(Len(q) + 1)
      BY <1>1
    <3> QED
      BY <1>1, <1>2, <3>1 DEF Range
  <2>3. ASSUME r \in Range(Append(q, s))
        PROVE  r \in Range(q) \/ r = s
    <3>1. PICK i \in 1..(Len(q) + 1) : r = Append(q, s)[i]
      BY <1>2, <2>3 DEF Range
    <3>2. CASE i \in 1..Len(q)
      BY <1>1, <1>2, <3>1, <3>2 DEF Range
    <3>3. CASE i = Len(q) + 1
      BY <1>1, <3>1, <3>3
    <3> QED
      BY <1>1, <3>1, <3>2, <3>3
  <2> QED
    BY <2>1, <2>2, <2>3
<1> QED
  BY <1>1, <1>3

(* A list without duplicates, without its first element.                   *)
LEMMA TailFacts ==
  ASSUME NEW q \in Seq(Slots), q # <<>>, \A i, j \in 1..Len(q) : q[i] = q[j] => i = j
  PROVE  /\ Tail(q) \in Seq(Slots) /\ Len(q) \in Nat /\ Len(q) > 0 /\ Len(Tail(q)) = Len(q) - 1
         /\ \A i \in 1..(Len(q) - 1) : Tail(q)[i] = q[i + 1]
         /\ q[1] \in Slots /\ q[1] \in Range(q)
         /\ Range(Tail(q)) = Range(q) \ {q[1]}
<1>1. /\ Tail(q) \in Seq(Slots) /\ Len(q) \in Nat /\ Len(q) > 0 /\ Len(Tail(q)) = Len(q) - 1
      /\ \A i \in 1..(Len(q) - 1) : Tail(q)[i] = q[i + 1]
      /\ 1 \in 1..Len(q) /\ q[1] \in Slots
  OBVIOUS
<1>2. DOMAIN q = 1..Len(q) /\ DOMAIN Tail(q) = 1..(Len(q) - 1)
  BY <1>1
<1>3. q[1] \in Range(q)
  BY <1>1, <1>2 DEF Range
<1>4. ASSUME NEW r \in Range(Tail(q))
      PROVE  r \in Range(q) /\ r # q[1]
  <2>1. PICK i \in 1..(Len(q) - 1) : r = Tail(q)[i]
    BY <1>2 DEF Range
  <2>2. i + 1 \in 1..Len(q) /\ r = q[i + 1] /\ i + 1 # 1
    BY <1>1, <2>1
  <2>3. r # q[1]
    BY <1>1, <2>2
  <2> QED
    BY <1>2, <2>2, <2>3 DEF Range
<1>5. ASSUME NEW r \in Range(q), r # q[1]
      PROVE  r \in Range(Tail(q))
  <2>1. PICK i \in 1..Len(q) : r = q[i]
    BY <1>2 DEF Range
  <2>2. i - 1 \in 1..(Len(q) - 1) /\ (i - 1) + 1 = i
    BY <1>1, <1>5, <2>1
  <2>3. Tail(q)[i - 1] = r
    BY <1>1, <2>1, <2>2
  <2> QED
    BY <1>2, <2>2, <2>3 DEF Range
<1> QED
  BY <1>1, <1>3, <1>4, <1>5

(* What the holder of the lock knows of the other threads.                 *)
LEMMA HolderAlone ==
  ASSUME IInv, NEW t \in Threads, Locked(t)
  PROVE  \A u \in Threads : u # t =>
           /\ pc[u] \notin PopLocked /\ pc[u] \notin FirstLabels
           /\ pc[u] \notin {"tail_link", "tail_store", "push_unlock", "pop_unlink", "pop_tail"}
<1> SUFFICES ASSUME NEW u \in Threads, u # t
             PROVE  /\ pc[u] \notin PopLocked /\ pc[u] \notin FirstLabels
                    /\ pc[u] \notin {"tail_link", "tail_store", "push_unlock", "pop_unlink", "pop_tail"}
  OBVIOUS
<1>1. ~Locked(u)
  BY DEF IInv, QueueLockExcludes
<1> QED
  BY <1>1 DEF Locked, PushLocked, PopLocked, FirstLabels

(* The node goes behind the last one, or behind the dummy.                 *)
LEMMA TailLinkKeeps ==
  ASSUME IInv, NEW t \in Threads, TailLink(t)
  PROVE  IInv'
<1> USE DEF TailLink, Goto, headVars, poolVars, localVars, doneVars
<1> DEFINE s == slot[t]
           x == tail_off[t]
<1>0. /\ pc[t] = "tail_link" /\ pc[t] \in SlotLabels /\ pc[t] \in ReadyLabels /\ pc[t] \notin DummyLabels
      /\ pc[t] \notin FirstLabels /\ pc[t] \notin BufLabels /\ pc[t] \notin TailLabels /\ Locked(t)
  BY DEF SlotLabels, ReadyLabels, DummyLabels, FirstLabels, BufLabels, TailLabels, Locked, PushLocked
<1>1. /\ s \in Slots /\ status[s] = "QUEUED" /\ payload[s] \in Messages /\ next_offset[s] = Null
      /\ s \notin Range(items) /\ s \notin leaked
  BY <1>0 DEF IInv, Shape, SlotHeld, SlotOK
<1>2. /\ \A u \in Threads : u # t =>
           /\ pc[u] \notin PopLocked /\ pc[u] \notin FirstLabels
           /\ pc[u] \notin {"tail_link", "tail_store", "push_unlock", "pop_unlink", "pop_tail"}
  BY <1>0, HolderAlone
<1>3. /\ x = queue_tail /\ x # Null /\ x = LastOr(items, queue_head)
      /\ \A u \in Threads : pc[u] # "dummy_tail"
  <2>1. x = queue_tail /\ x # Null
    BY DEF IInv, Shape, TailKnown, TailOK
  <2>2. \A u \in Threads : pc[u] # "dummy_tail"
    BY <2>1 DEF IInv, Shape, TailKnown, TailOK
  <2>3. \A u \in Threads : pc[u] \notin TailLabels
    BY <1>0, <1>2, <2>2 DEF TailLabels
  <2> QED
    BY <2>1, <2>2, <2>3 DEF IInv, Shape, TailKnown
<1>4. /\ items' \in Seq(Slots) /\ items' # <<>>
      /\ Len(items) \in Nat /\ Len(items') = Len(items) + 1
      /\ \A i \in 1..Len(items) : items'[i] = items[i]
      /\ items'[Len(items) + 1] = s
      /\ Range(items') = Range(items) \cup {s}
  BY <1>1, AppendFacts DEF IInv, Typed, TypedHistory
<1>5. /\ x \in Slots /\ x # s
      /\ \/ items = <<>> /\ x = queue_head
         \/ items # <<>> /\ x = items[Len(items)] /\ x # queue_head
  <2>1. CASE items = <<>>
    <3>1. x = queue_head /\ x \in Slots
      BY <1>3, <2>1 DEF LastOr, IInv, Typed, TypedShared
    <3> QED
      BY <1>1, <1>3, <2>1, <3>1 DEF IInv, Shape, DummyFixed
  <2>2. CASE items # <<>>
    <3>1. x = items[Len(items)] /\ Len(items) \in 1..Len(items)
      BY <1>3, <2>2, RangeOfItems DEF LastOr, IInv
    <3>2. x \in Slots /\ x \in Range(items) /\ status[x] = "QUEUED"
      BY <3>1, RangeOfItems DEF IInv, Shape, ItemsLinked
    <3> QED
      BY <1>1, <1>3, <2>2, <3>1, <3>2 DEF IInv, Shape, DummyFixed
  <2> QED
    BY <2>1, <2>2
<1>6. /\ TypedLocals' /\ Others(t) /\ pc'[t] = "tail_store" /\ slot'[t] = s
      /\ next_offset'[x] = s /\ next_offset' \in [Slots -> Slots \cup {Null}]
      /\ \A r \in Slots : r # x => next_offset'[r] = next_offset[r]
  BY <1>1, <1>5 DEF IInv, Typed, TypedShared, TypedLocals, Labels, Others
<1>7. /\ pc'[t] \notin SlotLabels /\ pc'[t] \notin DummyLabels /\ pc'[t] \notin FirstLabels
      /\ pc'[t] \notin KnowLabels /\ pc'[t] \in TailLabels
  BY <1>6 DEF SlotLabels, DummyLabels, FirstLabels, KnowLabels, TailLabels
<1> HIDE DEF s, x
<1>8. Typed'
  BY <1>4, <1>6 DEF IInv, Typed, TypedShared, TypedHistory
<1>9. QueueLockExcludes'
  BY <1>0, <1>6, LockKept DEF IInv, Locked, PushLocked, PopLocked
<1>10. PoolSlots'
  BY <1>1, <1>4 DEF IInv, Shape, PoolSlots
<1>11. SlotHeld'
  <2>1. ASSUME NEW u \in Threads, pc'[u] \in SlotLabels
        PROVE  SlotOK(u)'
    <3>1. u # t /\ pc[u] \in SlotLabels /\ slot'[u] = slot[u] /\ slot[u] # s
      BY <1>0, <1>6, <1>7, <2>1 DEF IInv, Shape, SlotHeld, Others, s
    <3>2. SlotOK(u)
      BY <3>1 DEF IInv, Shape, SlotHeld
    <3>3. slot[u] # x
      <4>1. CASE items = <<>>
        BY <1>3, <1>5, <3>2, <4>1 DEF IInv, Shape, DummyFixed, SlotOK
      <4>2. CASE items # <<>>
        <5>1. x \in Range(items)
          BY <1>4, <1>5, <4>2, RangeOfItems DEF IInv
        <5> QED
          BY <3>2, <5>1 DEF SlotOK
      <4> QED
        BY <4>1, <4>2
    <3> QED
      BY <1>4, <1>6, <3>1, <3>2, <3>3 DEF SlotOK, Others
  <2>2. \A u, v \in Threads :
          pc'[u] \in SlotLabels /\ pc'[v] \in SlotLabels /\ slot'[u] = slot'[v] => u = v
    BY <1>6, <1>7 DEF IInv, Shape, SlotHeld, Others
  <2> QED
    BY <2>1, <2>2 DEF SlotHeld
<1>12. DummyHeld'
  <2>1. ASSUME NEW u \in Threads, pc[u] \in DummyLabels
        PROVE  dummy[u] # x
    <3>1. DummyOK(u)
      BY <2>1 DEF IInv, Shape, DummyHeld
    <3>2. CASE items = <<>>
      BY <1>5, <3>1, <3>2 DEF DummyOK
    <3>3. CASE items # <<>>
      <4>1. status[x] = "QUEUED"
        BY <1>4, <1>5, <3>3, RangeOfItems DEF IInv, Shape, ItemsLinked
      <4> QED
        BY <3>1, <4>1 DEF DummyOK
    <3> QED
      BY <3>2, <3>3
  <2> QED
    BY <1>6, <1>7, <2>1 DEF IInv, Shape, DummyHeld, DummyOK, Others
<1>13. FirstHeld'
  BY <1>2, <1>6, <1>7 DEF FirstHeld, Others
<1>14. DummyFixed'
  <2>1. queue_head # Null
    BY <1>3, <1>5 DEF IInv, Shape, DummyFixed
  <2>2. next_offset'[queue_head] = FirstOr(items', Null)
    <3>1. CASE items = <<>>
      BY <1>4, <1>5, <1>6, <3>1 DEF FirstOr
    <3>2. CASE items # <<>>
      <4>1. items'[1] = items[1] /\ queue_head \in Slots
        BY <1>4, <2>1, <3>2, RangeOfItems DEF IInv, Typed, TypedShared
      <4> QED
        BY <1>4, <1>5, <1>6, <2>1, <3>2, <4>1 DEF FirstOr, IInv, Shape, DummyFixed
    <3> QED
      BY <3>1, <3>2
  <2>3. \A u \in Threads : pc'[u] \in KnowLabels => dummy'[u] = queue_head
    BY <1>6, <1>7 DEF IInv, Shape, DummyFixed, Others
  <2> QED
    BY <2>1, <2>2, <2>3 DEF IInv, Shape, DummyFixed
<1>15. ItemsLinked'
  <2>1. ASSUME NEW i \in 1..Len(items')
        PROVE  /\ status'[items'[i]] = "QUEUED" /\ payload'[items'[i]] \in Messages
               /\ next_offset'[items'[i]] = IF i = Len(items') THEN Null ELSE items'[i + 1]
    <3>1. CASE i = Len(items')
      BY <1>1, <1>4, <1>5, <1>6, <3>1
    <3>2. CASE i = Len(items)
      BY <1>4, <1>5, <1>6, <3>2, RangeOfItems DEF IInv, Shape, ItemsLinked
    <3>3. CASE i # Len(items') /\ i # Len(items)
      <4>1. i \in 1..Len(items) /\ i + 1 \in 1..Len(items) /\ Len(items) \in 1..Len(items)
        BY <1>4, <3>3
      <4>2. items[i] # x /\ items[i] \in Slots
        BY <1>4, <1>5, <3>3, <4>1, RangeOfItems DEF IInv, Shape, ItemsLinked
      <4> QED
        BY <1>4, <1>6, <3>3, <4>1, <4>2 DEF IInv, Shape, ItemsLinked
    <3> QED
      BY <3>1, <3>2, <3>3
  <2>2. ASSUME NEW i \in 1..Len(items'), NEW j \in 1..Len(items'), items'[i] = items'[j]
        PROVE  i = j
    <3>1. \A k \in 1..Len(items) : items[k] # s
      BY <1>1, RangeOfItems DEF IInv
    <3>2. i = Len(items) + 1 <=> j = Len(items) + 1
      BY <1>4, <2>2, <3>1
    <3> QED
      BY <1>4, <2>2, <3>2 DEF IInv, Shape, ItemsLinked
  <2> QED
    BY <2>1, <2>2 DEF ItemsLinked
<1>16. TailKnown'
  <2>1. TailOK(t)'
    BY <1>4, <1>6 DEF TailOK
  <2>2. ASSUME NEW u \in Threads, u # t
        PROVE  TailOK(u)'
    BY <1>2, <1>3, <1>6, <2>2 DEF TailOK, Others
  <2> QED
    BY <1>3, <1>6, <1>7, <2>1, <2>2 DEF TailKnown, Others
<1>17. Placed'
  BY <1>0, <1>4, <1>6, <1>7 DEF IInv, Shape, Placed, Others, s
<1>18. Copied'
  <2>1. CopyOK(t)'
    BY <1>0, <1>6 DEF IInv, Copied, CopyOK, BufLabels, FirstLabels
  <2> QED
    BY <1>6, <2>1, CopiedKept DEF IInv
<1>19. NothingLost'
  <2>1. ASSUME NEW u \in Threads, pc[u] \in PopLocked
        PROVE  pc'[u] \in PopLocked
    BY <1>0, <1>6, <2>1 DEF Others, PopLocked
  <2> QED
    BY <1>4, <2>1 DEF IInv, NothingLost
<1> QED
  BY <1>8, <1>9, <1>10, <1>11, <1>12, <1>13, <1>14, <1>15, <1>16, <1>17, <1>18, <1>19 DEF IInv, Shape

(* The node that was linked becomes the tail.                              *)
LEMMA TailStoreKeeps ==
  ASSUME IInv, NEW t \in Threads, TailStore(t)
  PROVE  IInv'
<1> USE DEF TailStore, Goto, slotVars, poolVars, localVars, doneVars
<1>0. /\ pc[t] = "tail_store" /\ pc[t] \notin SlotLabels /\ pc[t] \notin DummyLabels
      /\ pc[t] \notin FirstLabels /\ pc[t] \notin BufLabels /\ Locked(t)
  BY DEF SlotLabels, DummyLabels, FirstLabels, BufLabels, Locked, PushLocked
<1>1. items # <<>> /\ slot[t] = items[Len(items)] /\ slot[t] \in Slots
  <2>1. items # <<>> /\ slot[t] = items[Len(items)]
    BY DEF IInv, Shape, TailKnown, TailOK
  <2> QED
    BY <2>1, RangeOfItems DEF IInv
<1>2. \A u \in Threads : u # t =>
        pc[u] \notin {"tail_link", "tail_store", "push_unlock", "pop_unlink", "pop_tail"}
  BY <1>0, HolderAlone
<1>3. TypedLocals' /\ Others(t) /\ pc'[t] = "push_unlock"
  BY DEF IInv, Typed, TypedLocals, Labels, Others
<1>4. /\ pc'[t] \notin SlotLabels /\ pc'[t] \notin DummyLabels /\ pc'[t] \notin FirstLabels
      /\ pc'[t] \notin KnowLabels
  BY <1>3 DEF SlotLabels, DummyLabels, FirstLabels, KnowLabels
<1>5. Typed'
  BY <1>1, <1>3 DEF IInv, Typed, TypedShared, TypedHistory
<1>6. QueueLockExcludes'
  BY <1>0, <1>3, LockKept DEF IInv, Locked, PushLocked, PopLocked
<1>7. PoolSlots' /\ ItemsLinked'
  BY DEF IInv, Shape, PoolSlots, ItemsLinked
<1>8. SlotHeld' /\ DummyHeld'
  BY <1>3, <1>4 DEF IInv, Shape, SlotHeld, SlotOK, DummyHeld, DummyOK, Others
<1>9. FirstHeld'
  BY <1>3, <1>4 DEF IInv, Shape, FirstHeld, FirstOK, Others
<1>10. DummyFixed'
  BY <1>1, <1>3, <1>4 DEF IInv, Shape, DummyFixed, Others
<1>11. TailKnown'
  <2>1. TailOK(t)'
    BY <1>1, <1>3 DEF TailOK
  <2>2. ASSUME NEW u \in Threads, u # t
        PROVE  TailOK(u)' /\ pc'[u] # "dummy_tail"
    <3>1. pc[u] # "dummy_tail"
      BY <1>1 DEF IInv, Shape, TailKnown, TailOK
    <3> QED
      BY <1>2, <1>3, <2>2, <3>1 DEF TailOK, Others
  <2>3. queue_tail' = LastOr(items', queue_head')
    BY <1>1 DEF LastOr
  <2> QED
    BY <1>3, <2>1, <2>2, <2>3 DEF TailKnown
<1>12. Placed'
  BY <1>0, <1>3, <1>4 DEF IInv, Shape, Placed, Others
<1>13. Copied'
  <2>1. CopyOK(t)'
    BY <1>0, <1>3 DEF IInv, Copied, CopyOK, BufLabels, FirstLabels
  <2> QED
    BY <1>3, <2>1, CopiedKept DEF IInv
<1>14. NothingLost'
  BY <1>0, <1>3, BufferKept DEF IInv
<1> QED
  BY <1>5, <1>6, <1>7, <1>8, <1>9, <1>10, <1>11, <1>12, <1>13, <1>14 DEF IInv, Shape

-----------------------------------------------------------------------------
(* Taking a node out.                                                      *)

(* The dummy skips the oldest node.                                        *)
LEMMA PopUnlinkKeeps ==
  ASSUME IInv, NEW t \in Threads, PopUnlink(t)
  PROVE  IInv'
<1> USE DEF PopUnlink, Goto, headVars, poolVars, localVars, doneVars
<1> DEFINE f == items[1]
<1>0. /\ pc[t] = "pop_unlink" /\ pc[t] \notin SlotLabels /\ pc[t] \notin DummyLabels
      /\ pc[t] \notin FirstLabels /\ pc[t] \in BufLabels /\ pc[t] \notin TailLabels
      /\ pc[t] \in KnowLabels /\ Locked(t)
  BY DEF SlotLabels, DummyLabels, FirstLabels, BufLabels, TailLabels, KnowLabels, Locked, PopLocked
<1>1. /\ items # <<>> /\ first[t] = f /\ first_next[t] = next_offset[f] /\ tail_off[t] = queue_tail
      /\ buf[t] = payload[f]
  BY DEF IInv, Shape, TailKnown, TailOK
<1>2. \A u \in Threads : u # t =>
        /\ pc[u] \notin PopLocked /\ pc[u] \notin FirstLabels
        /\ pc[u] \notin {"tail_link", "tail_store", "push_unlock", "pop_unlink", "pop_tail"}
  BY <1>0, HolderAlone
<1>3. /\ items' \in Seq(Slots) /\ Len(items) \in Nat /\ Len(items) > 0 /\ Len(items') = Len(items) - 1
      /\ \A i \in 1..(Len(items) - 1) : items'[i] = items[i + 1]
      /\ f \in Slots /\ f \in Range(items)
      /\ Range(items') = Range(items) \ {f}
  BY <1>1, TailFacts DEF IInv, Typed, TypedHistory, Shape, ItemsLinked
<1>4. /\ status[f] = "QUEUED" /\ payload[f] \in Messages /\ f \notin leaked
      /\ next_offset[f] = FirstOr(items', Null) /\ next_offset[f] \in Slots \cup {Null}
      /\ \A u \in Threads : pc[u] \in SlotLabels => slot[u] # f
  <2>1. 1 \in 1..Len(items)
    BY <1>3
  <2>2. /\ status[f] = "QUEUED" /\ payload[f] \in Messages
        /\ next_offset[f] = IF 1 = Len(items) THEN Null ELSE items[2]
    <3>1. 1 + 1 = 2
      OBVIOUS
    <3> QED
      BY <2>1, <3>1 DEF IInv, Shape, ItemsLinked
  <2>3. next_offset[f] = FirstOr(items', Null)
    <3>1. CASE Len(items) = 1
      BY <1>3, <2>2, <3>1 DEF FirstOr
    <3>2. CASE Len(items) # 1
      <4>1. items'[1] = items[2] /\ Len(items') # 0
        BY <1>3, <3>2
      <4> QED
        BY <1>3, <2>2, <3>2, <4>1 DEF FirstOr
    <3> QED
      BY <3>1, <3>2
  <2>4. f \notin leaked /\ \A u \in Threads : pc[u] \in SlotLabels => slot[u] # f
    BY <1>3 DEF IInv, Shape, PoolSlots, SlotHeld, SlotOK
  <2>5. next_offset[f] \in Slots \cup {Null}
    BY <1>3 DEF IInv, Typed, TypedShared
  <2> QED
    BY <2>2, <2>3, <2>4, <2>5
<1>5. dummy[t] = queue_head /\ queue_head \in Slots /\ status[queue_head] = "QUEUE_DUMMY"
  BY <1>0, FirstNode DEF IInv
<1>6. queue_tail = LastOr(items, queue_head) /\ \A u \in Threads : pc[u] # "dummy_tail"
  <2>1. \A u \in Threads : pc[u] # "dummy_tail"
    BY <1>1 DEF IInv, Shape, TailKnown, TailOK
  <2>2. \A u \in Threads : pc[u] \notin TailLabels
    BY <1>0, <1>2, <2>1 DEF TailLabels
  <2> QED
    BY <2>1, <2>2 DEF IInv, Shape, TailKnown
<1>7. /\ TypedLocals' /\ Others(t) /\ pc'[t] = "pop_tail" /\ first'[t] = f /\ dummy'[t] = dummy[t]
      /\ next_offset' \in [Slots -> Slots \cup {Null}] /\ next_offset'[queue_head] = next_offset[f]
      /\ \A r \in Slots : r # queue_head => next_offset'[r] = next_offset[r]
  BY <1>1, <1>4, <1>5 DEF IInv, Typed, TypedShared, TypedLocals, Labels, Others
<1>8. /\ pc'[t] \notin SlotLabels /\ pc'[t] \notin DummyLabels /\ pc'[t] \in FirstLabels
      /\ pc'[t] \in TailLabels /\ pc'[t] \in PopLocked
  BY <1>7 DEF SlotLabels, DummyLabels, FirstLabels, TailLabels, PopLocked
<1> HIDE DEF f
<1>9. Typed'
  <2>1. delivered' \in Seq(Messages)
    BY <1>1, <1>4 DEF IInv, Typed, TypedHistory
  <2> QED
    BY <1>3, <1>7, <2>1 DEF IInv, Typed, TypedShared, TypedHistory
<1>10. QueueLockExcludes'
  BY <1>0, <1>7, LockKept DEF IInv, Locked, PushLocked, PopLocked
<1>11. PoolSlots'
  BY <1>3 DEF IInv, Shape, PoolSlots
<1>12. SlotHeld'
  <2>1. ASSUME NEW u \in Threads, pc'[u] \in SlotLabels
        PROVE  SlotOK(u)'
    <3>1. u # t /\ pc[u] \in SlotLabels /\ slot'[u] = slot[u] /\ pc'[u] = pc[u]
      BY <1>7, <1>8, <2>1 DEF Others
    <3>2. SlotOK(u)
      BY <3>1 DEF IInv, Shape, SlotHeld
    <3>3. slot[u] # queue_head
      BY <1>5, <3>2 DEF SlotOK
    <3> QED
      BY <1>3, <1>7, <3>1, <3>2, <3>3 DEF SlotOK
  <2>2. \A u, v \in Threads :
          pc'[u] \in SlotLabels /\ pc'[v] \in SlotLabels /\ slot'[u] = slot'[v] => u = v
    BY <1>7, <1>8 DEF IInv, Shape, SlotHeld, Others
  <2> QED
    BY <2>1, <2>2 DEF SlotHeld
<1>13. DummyHeld'
  BY <1>7, <1>8 DEF IInv, Shape, DummyHeld, DummyOK, Others
<1>14. FirstHeld'
  <2>1. FirstOK(t)'
    BY <1>3, <1>4, <1>7, <1>8 DEF FirstOK, Others
  <2> QED
    BY <1>2, <1>7, <2>1 DEF FirstHeld, Others
<1>15. DummyFixed'
  BY <1>0, <1>4, <1>5, <1>7, QueueNull DEF IInv, Shape, DummyFixed, Others
<1>16. ItemsLinked'
  <2>1. ASSUME NEW i \in 1..Len(items')
        PROVE  /\ status'[items'[i]] = "QUEUED" /\ payload'[items'[i]] \in Messages
               /\ next_offset'[items'[i]] = IF i = Len(items') THEN Null ELSE items'[i + 1]
    <3>1. i + 1 \in 1..Len(items) /\ items'[i] = items[i + 1]
      BY <1>3
    <3>2. /\ status[items[i + 1]] = "QUEUED" /\ payload[items[i + 1]] \in Messages
          /\ next_offset[items[i + 1]] = IF i + 1 = Len(items) THEN Null ELSE items[(i + 1) + 1]
      BY <3>1 DEF IInv, Shape, ItemsLinked
    <3>3. i # Len(items') => items'[i + 1] = items[(i + 1) + 1]
      BY <1>3
    <3>4. items[i + 1] \in Slots /\ items[i + 1] # queue_head
      BY <1>5, <3>1, <3>2, RangeOfItems DEF IInv
    <3>5. i + 1 = Len(items) <=> i = Len(items')
      BY <1>3
    <3> QED
      BY <1>7, <3>1, <3>2, <3>3, <3>4, <3>5
  <2>2. ASSUME NEW i \in 1..Len(items'), NEW j \in 1..Len(items'), items'[i] = items'[j]
        PROVE  i = j
    <3>1. i + 1 \in 1..Len(items) /\ j + 1 \in 1..Len(items) /\ items[i + 1] = items[j + 1]
      BY <1>3, <2>2
    <3>2. i + 1 = j + 1
      BY <3>1 DEF IInv, Shape, ItemsLinked
    <3> QED
      BY <1>3, <3>2
  <2> QED
    BY <2>1, <2>2 DEF ItemsLinked
<1>17. TailKnown'
  <2>1. TailOK(t)'
    <3>1. queue_tail = LastOr(items', f)
      <4>1. CASE Len(items) = 1
        BY <1>1, <1>3, <1>6, <4>1 DEF LastOr, f
      <4>2. CASE Len(items) # 1
        BY <1>1, <1>3, <1>6, <4>2 DEF LastOr
      <4> QED
        BY <4>1, <4>2
    <3> QED
      BY <1>1, <1>4, <1>7, <3>1 DEF TailOK
  <2>2. ASSUME NEW u \in Threads, u # t
        PROVE  TailOK(u)' /\ pc'[u] # "dummy_tail"
    BY <1>2, <1>6, <1>7, <2>2 DEF TailOK, Others
  <2> QED
    BY <1>8, <2>1, <2>2 DEF TailKnown
<1>18. Placed'
  BY <1>0, <1>3, <1>7, <1>8 DEF IInv, Shape, Placed, Others
<1>19. Copied'
  <2>1. CopyOK(t)'
    BY <1>1, <1>4, <1>7 DEF CopyOK, BufLabels
  <2> QED
    BY <1>7, <2>1, CopiedKept DEF IInv
<1>20. NothingLost'
  <2> SUFFICES ASSUME faults = 0, NEW m \in accepted
               PROVE  \/ m \in {payload[s] : s \in Range(items')}
                      \/ m \in received
                      \/ \E u \in Threads : buf[u] = m /\ pc'[u] \in PopLocked
    BY DEF NothingLost
  <2>1. \/ m \in {payload[s] : s \in Range(items)}
        \/ m \in received
        \/ \E u \in Threads : buf[u] = m /\ pc[u] \in PopLocked
    BY DEF IInv, NothingLost
  <2>2. ASSUME NEW s \in Range(items), payload[s] = m
        PROVE  s \in Range(items') \/ buf[t] = m
    BY <1>1, <1>3, <2>2
  <2>3. \A u \in Threads : pc[u] \in PopLocked => pc'[u] \in PopLocked
    BY <1>7, <1>8 DEF Others
  <2> QED
    BY <1>8, <2>1, <2>2, <2>3
<1> QED
  BY <1>9, <1>10, <1>11, <1>12, <1>13, <1>14, <1>15, <1>16, <1>17, <1>18, <1>19, <1>20 DEF IInv, Shape

(* The tail goes back to the dummy when the node was the last one.         *)
LEMMA PopTailKeeps ==
  ASSUME IInv, NEW t \in Threads, PopTail(t)
  PROVE  IInv'
<1> USE DEF PopTail, Goto, slotVars, poolVars, localVars, doneVars
<1>0. /\ pc[t] = "pop_tail" /\ pc[t] \notin SlotLabels /\ pc[t] \notin DummyLabels
      /\ pc[t] \in FirstLabels /\ pc[t] \in BufLabels /\ pc[t] \in KnowLabels /\ Locked(t)
  BY DEF SlotLabels, DummyLabels, FirstLabels, BufLabels, KnowLabels, Locked, PopLocked
<1>1. /\ first_next[t] = FirstOr(items, Null) /\ tail_off[t] = LastOr(items, first[t])
      /\ queue_tail = tail_off[t]
      /\ dummy[t] = queue_head /\ queue_head \in Slots
      /\ first[t] \in Slots /\ first[t] \notin Range(items)
  BY <1>0, QueueNull
     DEF IInv, Typed, TypedShared, Shape, TailKnown, TailOK, DummyFixed, FirstHeld, FirstOK
<1>2. \A u \in Threads : u # t =>
        pc[u] \notin {"tail_link", "tail_store", "push_unlock", "pop_unlink", "pop_tail"}
  BY <1>0, HolderAlone
<1>3. queue_tail' = LastOr(items, queue_head)
  <2>1. CASE items = <<>>
    BY <1>1, <2>1 DEF FirstOr, LastOr
  <2>2. CASE items # <<>>
    <3>1. items[Len(items)] \in Range(items)
      BY <2>2, RangeOfItems DEF IInv
    <3> QED
      BY <1>1, <2>2, <3>1 DEF LastOr
  <2> QED
    BY <2>1, <2>2
<1>4. queue_tail' \in Slots
  <2>1. items # <<>> => items[Len(items)] \in Slots
    BY RangeOfItems DEF IInv
  <2> QED
    BY <1>1, <1>3, <2>1 DEF LastOr
<1>5. TypedLocals' /\ Others(t) /\ pc'[t] = "pop_return"
  BY DEF IInv, Typed, TypedLocals, Labels, Others
<1>6. /\ pc'[t] \notin SlotLabels /\ pc'[t] \notin DummyLabels /\ pc'[t] \in FirstLabels
  BY <1>5 DEF SlotLabels, DummyLabels, FirstLabels
<1>7. Typed'
  BY <1>4, <1>5 DEF IInv, Typed, TypedShared, TypedHistory
<1>8. QueueLockExcludes'
  BY <1>0, <1>5, LockKept DEF IInv, Locked, PushLocked, PopLocked
<1>9. PoolSlots' /\ ItemsLinked'
  BY DEF IInv, Shape, PoolSlots, ItemsLinked
<1>10. SlotHeld' /\ DummyHeld'
  BY <1>5, <1>6 DEF IInv, Shape, SlotHeld, SlotOK, DummyHeld, DummyOK, Others
<1>11. FirstHeld'
  BY <1>0, <1>5, <1>6 DEF IInv, Shape, FirstHeld, FirstOK, Others
<1>12. DummyFixed'
  BY <1>1, <1>5, QueueNull DEF IInv, Shape, DummyFixed, Others
<1>13. TailKnown'
  <2>1. TailOK(t)'
    BY <1>5 DEF TailOK
  <2>2. ASSUME NEW u \in Threads, u # t
        PROVE  TailOK(u)' /\ pc'[u] # "dummy_tail"
    <3>1. pc[u] # "dummy_tail"
      <4>1. queue_tail # Null
        <5>1. items # <<>> => items[Len(items)] \in Slots
          BY RangeOfItems DEF IInv
        <5> QED
          BY <1>1, <5>1, QueueNull DEF LastOr
      <4> QED
        BY <4>1 DEF IInv, Shape, TailKnown, TailOK
    <3> QED
      BY <1>2, <1>5, <2>2, <3>1 DEF TailOK, Others
  <2> QED
    BY <1>3, <1>5, <2>1, <2>2 DEF TailKnown
<1>14. Placed'
  BY <1>0, <1>5, <1>6 DEF IInv, Shape, Placed, Others
<1>15. Copied'
  <2>1. CopyOK(t)'
    BY <1>0, <1>5 DEF IInv, Copied, CopyOK, BufLabels, FirstLabels
  <2> QED
    BY <1>5, <2>1, CopiedKept DEF IInv
<1>16. NothingLost'
  BY <1>5, BufferKept DEF IInv, PopLocked
<1> QED
  BY <1>7, <1>8, <1>9, <1>10, <1>11, <1>12, <1>13, <1>14, <1>15, <1>16 DEF IInv, Shape

-----------------------------------------------------------------------------
(* The invariant holds at the start, and every step keeps it.              *)
LEMMA InitIInv == Init => IInv
<1> SUFFICES ASSUME Init
             PROVE  IInv
  OBVIOUS
<1> USE DEF Init
<1>1. Typed
  BY QueueMaxMsgs DEF Typed, TypedShared, TypedLocals, TypedHistory, Labels, Statuses
<1>2. items = <<>> /\ Len(items) = 0 /\ Range(items) = {}
  BY <1>1, RangeOfItems
<1>3. \A t \in Threads : /\ pc[t] = "idle" /\ buf[t] = 0
                         /\ pc[t] \notin SlotLabels /\ pc[t] \notin DummyLabels /\ pc[t] \notin FirstLabels
                         /\ pc[t] \notin KnowLabels /\ ~Locked(t)
  BY DEF SlotLabels, DummyLabels, FirstLabels, KnowLabels, Locked, PushLocked, PopLocked
<1>4. QueueLockExcludes
  BY <1>3 DEF QueueLockExcludes
<1>5. PoolSlots /\ SlotHeld /\ DummyHeld /\ FirstHeld /\ Placed
  BY <1>2, <1>3 DEF PoolSlots, SlotHeld, DummyHeld, FirstHeld, Placed
<1>6. DummyFixed /\ ItemsLinked /\ TailKnown
  BY <1>2, <1>3 DEF DummyFixed, ItemsLinked, TailKnown, TailOK, LastOr
<1>7. Copied /\ NothingLost
  BY <1>3 DEF Copied, CopyOK, FirstLabels, NothingLost
<1> QED
  BY <1>1, <1>4, <1>5, <1>6, <1>7 DEF IInv, Shape

(* Every step keeps the invariant.                                         *)
LEMMA NextIInv ==
  ASSUME IInv, [Next]_vars
  PROVE  IInv'
<1>1. CASE UNCHANGED vars
  <2> USE <1>1 DEF vars, headVars, slotVars, poolVars, localVars, doneVars
  <2>1. Typed' /\ QueueLockExcludes'
    BY DEF IInv, Typed, TypedShared, TypedLocals, TypedHistory, QueueLockExcludes, Locked
  <2>2. Shape'
    BY DEF IInv, Shape, PoolSlots, SlotHeld, SlotOK, DummyHeld, DummyOK, FirstHeld, FirstOK,
           DummyFixed, ItemsLinked, TailKnown, TailOK, Placed
  <2>3. Copied' /\ NothingLost'
    BY DEF IInv, Copied, CopyOK, NothingLost
  <2> QED
    BY <2>1, <2>2, <2>3 DEF IInv
<1>2. CASE Reopen
  BY <1>2, ReopenKeeps
<1>3. ASSUME NEW t \in Threads \ dead, Push(t)
      PROVE  IInv'
  BY <1>3, PushCallKeeps, DummyHeadKeeps, DummyAllocKeeps, DummyCasKeeps, DummyTailKeeps,
     DummyReturnKeeps, NodeKeeps, PushLockKeeps, TailLoadKeeps, TailLinkKeeps, TailStoreKeeps,
     PushUnlockKeeps, PushReturnKeeps DEF Push
<1>4. ASSUME NEW t \in Threads \ dead, Pop(t)
      PROVE  IInv'
  BY <1>4, PopCallKeeps, PopLockKeeps, PopFirstKeeps, PopUnlinkKeeps, PopTailKeeps, PopReturnKeeps,
     PopUnlockKeeps DEF Pop
<1>5. ASSUME NEW t \in Threads \ dead, Drained(t) \/ Empty(t) \/ Die(t)
      PROVE  IInv'
  BY <1>5, DrainedCallKeeps, DrainedLockKeeps, DrainedReadKeeps, EmptyCallKeeps, EmptyReadKeeps,
     DieKeeps DEF Drained, Empty
<1> QED
  BY <1>1, <1>2, <1>3, <1>4, <1>5 DEF Next

(* The inductive invariant is one of the specification.                    *)
THEOREM QueueInvariant == Spec => []IInv
<1>1. IInv /\ [Next]_vars => IInv'
  BY NextIInv
<1> QED
  BY InitIInv, <1>1, PTL DEF Spec

(* Type correctness, and the dummy is marked before it is published.       *)
THEOREM QueueTypes == Spec => []TypeOK
<1>1. IInv => TypeOK
  <2> SUFFICES ASSUME IInv
               PROVE  TypeOK
    OBVIOUS
  <2>1. \A local \in {slot, dummy, tail_off, first, first_next} : local \in [Threads -> Slots \cup {Null}]
    BY DEF IInv, Typed, TypedLocals
  <2>2. queue_head # Null => status[queue_head] = "QUEUE_DUMMY"
    BY DEF IInv, Shape, DummyFixed
  <2> QED
    BY <2>1, <2>2 DEF TypeOK, IInv, Typed, TypedShared, TypedLocals, TypedHistory, Statuses
<1> QED
  BY QueueInvariant, <1>1, PTL

(* queue_lock is set exactly while one thread is in its critical section,  *)
(* whatever the calls return and whoever dies.                             *)
THEOREM QueueLockTheorem == Spec => []QueueLockExcludes
<1>1. IInv => QueueLockExcludes
  BY DEF IInv
<1> QED
  BY QueueInvariant, <1>1, PTL

(* The links lead from the dummy through every node to the last one, which *)
(* is the tail except while the tail is being moved.                       *)
THEOREM QueueLinksTheorem == Spec => []QueueLinked
<1>1. IInv => QueueLinked
  BY DEF IInv, Shape, DummyFixed, ItemsLinked, TailKnown, TailLabels, QueueLinked
<1> QED
  BY QueueInvariant, <1>1, PTL

(* A message whose push returned EF_OK is not lost as long as the pool     *)
(* takes every slot back.                                                  *)
THEOREM QueueKeepsMessages == Spec => []NothingLost
<1>1. IInv => NothingLost
  BY DEF IInv
<1> QED
  BY QueueInvariant, <1>1, PTL

-----------------------------------------------------------------------------
(* Every slot is in one place.                                             *)

(* Disjoint finite sets count separately.                                  *)
LEMMA DisjointUnion ==
  ASSUME NEW S, NEW T, IsFiniteSet(S), IsFiniteSet(T), \A x \in S : x \notin T
  PROVE  /\ IsFiniteSet(S \cup T)
         /\ Cardinality(S \cup T) = Cardinality(S) + Cardinality(T)
<1>1. S \cap T = {}
  OBVIOUS
<1>2. Cardinality(S) \in Nat /\ Cardinality(T) \in Nat
  BY FS_CardinalityType
<1>3. /\ IsFiniteSet(S \cup T)
      /\ Cardinality(S \cup T) = Cardinality(S) + Cardinality(T) - Cardinality(S \cap T)
  BY FS_Union
<1>4. Cardinality(S \cap T) = 0
  BY <1>1, FS_EmptySet
<1> QED
  BY <1>2, <1>3, <1>4

(* What a call has in its hands, by its label.                             *)
LEMMA HandByLabel ==
  ASSUME NEW t \in Threads, NEW s \in Slots
  PROVE  s \in Hand(t) <=> \/ pc[t] \in SlotLabels /\ s = slot[t]
                           \/ pc[t] \in DummyLabels /\ s = dummy[t]
                           \/ pc[t] \in FirstLabels /\ s = first[t]
  BY DEF Hand, SlotLabels, DummyLabels, FirstLabels

(* No slot is in two hands, or in a hand and anywhere else.                *)
LEMMA HandsApart ==
  ASSUME IInv, NEW t \in Threads, NEW s \in Hand(t)
  PROVE  /\ s \in Slots /\ s \notin avail /\ s \notin lost /\ s \notin leaked
         /\ s \notin Range(items) /\ s # queue_head
         /\ \A u \in Threads : s \in Hand(u) => u = t
<1>1. s \in Slots
  BY DEF Hand
<1>2. /\ status[s] # "FREE" /\ s \notin leaked /\ s \notin Range(items) /\ s # queue_head
  <2>1. CASE pc[t] \in SlotLabels /\ s = slot[t]
    BY <2>1, QueueNull DEF IInv, Shape, SlotHeld, SlotOK, DummyFixed
  <2>2. CASE pc[t] \in DummyLabels /\ s = dummy[t]
    BY <2>2, RangeOfItems DEF IInv, Shape, DummyHeld, DummyOK, PoolSlots, ItemsLinked
  <2>3. CASE pc[t] \in FirstLabels /\ s = first[t]
    BY <2>3, QueueNull DEF IInv, Shape, FirstHeld, FirstOK, DummyFixed
  <2> QED
    BY <1>1, <2>1, <2>2, <2>3, HandByLabel
<1>3. s \notin avail /\ s \notin lost
  BY <1>1, <1>2 DEF IInv, Shape, PoolSlots
<1>4. ASSUME NEW u \in Threads, s \in Hand(u)
      PROVE  u = t
  <2>1. ASSUME NEW v \in Threads
        PROVE  /\ pc[v] \in SlotLabels => status[slot[v]] \in {"USED", "QUEUED"}
               /\ pc[v] \in DummyLabels => status[dummy[v]] = "QUEUE_DUMMY"
               /\ pc[v] \in FirstLabels => /\ status[first[v]] = "QUEUED"
                                           /\ \A w \in Threads : pc[w] \in SlotLabels => slot[w] # first[v]
    BY DEF IInv, Shape, SlotHeld, SlotOK, DummyHeld, DummyOK, FirstHeld, FirstOK
  <2>2. pc[t] \in FirstLabels /\ pc[u] \in FirstLabels => u = t
    <3>1. \A v \in Threads : pc[v] \in FirstLabels => Locked(v)
      BY DEF FirstLabels, Locked, PopLocked
    <3> QED
      BY <3>1 DEF IInv, QueueLockExcludes
  <2>3. CASE pc[t] \in SlotLabels /\ s = slot[t]
    BY <1>1, <1>4, <2>1, <2>3, HandByLabel DEF IInv, Shape, SlotHeld
  <2>4. CASE pc[t] \in DummyLabels /\ s = dummy[t]
    BY <1>1, <1>4, <2>1, <2>4, HandByLabel DEF IInv, Shape, DummyHeld
  <2>5. CASE pc[t] \in FirstLabels /\ s = first[t]
    BY <1>1, <1>4, <2>1, <2>2, <2>5, HandByLabel
  <2> QED
    BY <1>1, <2>3, <2>4, <2>5, HandByLabel
<1> QED
  BY <1>1, <1>2, <1>3, <1>4

(* The slots of the file are counted once each: those of the pool, the     *)
(* stranded and the leaked ones, the nodes, the dummy and what calls hold. *)
THEOREM QueueSlotsAccounted == Spec => []SlotsAccounted
<1>1. ASSUME IInv
      PROVE  SlotsAccounted
  <2> DEFINE D == {queue_head} \ {Null}
             H == UNION {Hand(t) : t \in Threads}
             P == {x \in Threads \X Slots : x[2] \in Hand(x[1])}
  <2>1. /\ avail \subseteq Slots /\ lost \subseteq Slots /\ leaked \subseteq Slots
        /\ Range(items) \subseteq Slots /\ D \subseteq Slots /\ H \subseteq Slots
    BY <1>1, RangeOfItems DEF IInv, Typed, TypedShared, Hand
  <2>2. /\ IsFiniteSet(avail) /\ IsFiniteSet(lost) /\ IsFiniteSet(leaked)
        /\ IsFiniteSet(Range(items)) /\ IsFiniteSet(D) /\ IsFiniteSet(H)
    <3> HIDE DEF D, H
    <3>1. \A S \in SUBSET Slots : IsFiniteSet(S)
      BY QueueSlots, FS_Subset
    <3> QED
      BY <2>1, <3>1
  <2>3. Slots = avail \cup lost \cup leaked \cup Range(items) \cup D \cup H
    <3>1. ASSUME NEW s \in Slots
          PROVE  s \in avail \cup lost \cup leaked \cup Range(items) \cup D \cup H
      <4>1. CASE s \in avail \/ s \in lost \/ s \in leaked \/ s \in Range(items)
        BY <4>1
      <4>2. CASE s = queue_head
        BY <4>2, QueueNull
      <4>3. CASE \E t \in Threads : \/ pc[t] \in SlotLabels /\ s = slot[t]
                                    \/ pc[t] \in DummyLabels /\ s = dummy[t]
                                    \/ pc[t] \in FirstLabels /\ s = first[t]
        <5>1. PICK t \in Threads : s \in Hand(t)
          BY <4>3, HandByLabel
        <5> QED
          BY <5>1
      <4> QED
        BY <1>1, <4>1, <4>2, <4>3 DEF IInv, Shape, Placed
    <3> QED
      BY <2>1, <3>1
  <2>4. Cardinality(Range(items)) = Len(items)
    <3>1. /\ items \in [1..Len(items) -> Range(items)] /\ Len(items) \in Nat
          /\ \A i, j \in 1..Len(items) : items[i] = items[j] => i = j
          /\ \A s \in Range(items) : \E i \in 1..Len(items) : items[i] = s
      BY <1>1, RangeOfItems DEF IInv, Typed, TypedHistory, Shape, ItemsLinked
    <3>2. items \in Bijection(1..Len(items), Range(items))
      BY <3>1 DEF Bijection, Injection, Surjection, IsInjective
    <3>3. ExistsBijection(1..Len(items), Range(items))
      BY <3>2 DEF ExistsBijection
    <3>4. IsFiniteSet(1..Len(items)) /\ Cardinality(1..Len(items)) = Len(items)
      BY <3>1, FS_Interval
    <3> QED
      BY <3>3, <3>4, FS_Bijection
  <2>5. Cardinality(P) = Cardinality(H)
    <3> DEFINE holder(s) == CHOOSE t \in Threads : s \in Hand(t)
               g == [s \in H |-> <<holder(s), s>>]
    <3>1. \A s \in H : holder(s) \in Threads /\ s \in Hand(holder(s)) /\ s \in Slots
      BY <2>1
    <3> HIDE DEF holder
    <3>2. g \in [H -> P]
      BY <3>1
    <3>3. \A r, s \in H : g[r] = g[s] => r = s
      OBVIOUS
    <3>4. ASSUME NEW x \in P
          PROVE  \E s \in H : g[s] = x
      <4>1. PICK t \in Threads, s \in Slots : x = <<t, s>> /\ s \in Hand(t)
        OBVIOUS
      <4>2. s \in H /\ holder(s) = t
        BY <1>1, <3>1, <4>1, HandsApart
      <4> QED
        BY <4>1, <4>2
    <3> HIDE DEF g, H, P
    <3>5. ExistsBijection(H, P)
      BY <3>2, <3>3, <3>4 DEF ExistsBijection, Bijection, Injection, Surjection, IsInjective
    <3> QED
      BY <2>2, <3>5, FS_Bijection
  <2>6. /\ \A s \in avail : s \notin lost
        /\ \A s \in avail \cup lost : s \notin leaked
        /\ \A s \in avail \cup lost \cup leaked : s \notin Range(items)
        /\ \A s \in avail \cup lost \cup leaked \cup Range(items) : s \notin D
        /\ \A s \in avail \cup lost \cup leaked \cup Range(items) \cup D : s \notin H
    <3>1. \A s \in avail \cup lost : s \in Slots /\ status[s] = "FREE"
      BY <1>1, <2>1 DEF IInv, Shape, PoolSlots
    <3>2. \A s \in leaked : status[s] \in {"USED", "QUEUED"} /\ s \notin Range(items)
      BY <1>1 DEF IInv, Shape, PoolSlots
    <3>3. \A s \in Range(items) : status[s] = "QUEUED"
      BY <1>1, RangeOfItems DEF IInv, Shape, ItemsLinked
    <3>4. \A s \in D : status[s] = "QUEUE_DUMMY"
      BY <1>1 DEF IInv, Shape, DummyFixed
    <3>5. \A s \in avail : s \notin lost
      BY <1>1 DEF IInv, Shape, PoolSlots
    <3>6. \A s \in avail \cup lost \cup leaked \cup Range(items) \cup D : s \notin H
      BY <1>1, HandsApart
    <3> HIDE DEF D, H
    <3> QED
      BY <3>1, <3>2, <3>3, <3>4, <3>5, <3>6
  <2>7. Cardinality(Slots) = Cardinality(avail) + Cardinality(lost) + Cardinality(leaked)
          + Cardinality(Range(items)) + Cardinality(D) + Cardinality(H)
    <3> HIDE DEF D, H
    <3>1. /\ IsFiniteSet(avail \cup lost)
          /\ Cardinality(avail \cup lost) = Cardinality(avail) + Cardinality(lost)
      BY <2>2, <2>6, DisjointUnion
    <3>2. /\ IsFiniteSet(avail \cup lost \cup leaked)
          /\ Cardinality(avail \cup lost \cup leaked) = Cardinality(avail \cup lost) + Cardinality(leaked)
      BY <2>2, <2>6, <3>1, DisjointUnion
    <3>3. /\ IsFiniteSet(avail \cup lost \cup leaked \cup Range(items))
          /\ Cardinality(avail \cup lost \cup leaked \cup Range(items))
               = Cardinality(avail \cup lost \cup leaked) + Cardinality(Range(items))
      BY <2>2, <2>6, <3>2, DisjointUnion
    <3>4. /\ IsFiniteSet(avail \cup lost \cup leaked \cup Range(items) \cup D)
          /\ Cardinality(avail \cup lost \cup leaked \cup Range(items) \cup D)
               = Cardinality(avail \cup lost \cup leaked \cup Range(items)) + Cardinality(D)
      BY <2>2, <2>6, <3>3, DisjointUnion
    <3>5. Cardinality(avail \cup lost \cup leaked \cup Range(items) \cup D \cup H)
            = Cardinality(avail \cup lost \cup leaked \cup Range(items) \cup D) + Cardinality(H)
      BY <2>2, <2>6, <3>4, DisjointUnion
    <3> QED
      BY <2>3, <3>1, <3>2, <3>3, <3>4, <3>5
  <2>8. Slots = UNION ({avail, lost, leaked, Range(items), D} \cup {Hand(t) : t \in Threads})
    BY <2>3
  <2>9. Cardinality(Slots) = Cardinality(avail) + Cardinality(lost) + Cardinality(leaked) + Len(items)
          + Cardinality(D) + Cardinality(P)
    BY <2>4, <2>5, <2>7
  <2> QED
    BY <2>8, <2>9 DEF SlotsAccounted
<1> QED
  BY QueueInvariant, <1>1, PTL

-----------------------------------------------------------------------------
(* The answers that say that the queue is empty.                           *)

(* A step that decides that there is no message finds none in the queue.   *)
LEMMA EmptyAnswerStep ==
  ASSUME IInv, Next, NEW t \in Threads, err'[t] \in EmptyAnswers, err[t] \notin EmptyAnswers
  PROVE  items = <<>>
<1> USE DEF Goto, localVars
<1>0. /\ {"OK", "SLOT_FULL", "QUEUE_BUSY", "OFFSET", "NOT_FOUND", "PAYLOAD_LEN", "PENDING", "NONEMPTY"}
           \cap EmptyAnswers = {}
      /\ \A e \in PoolErrs : e \notin EmptyAnswers
  BY QueuePoolErrs DEF EmptyAnswers
<1>1. /\ queue_head = Null => items = <<>>
      /\ \A u \in Threads : pc[u] \in KnowLabels /\ next_offset[dummy[u]] = Null => items = <<>>
      /\ \A u \in Threads : pc[u] \in KnowLabels => status[dummy[u]] = "QUEUE_DUMMY"
      /\ \A u \in Threads : pc[u] \in KnowLabels => queue_head # Null
  BY FirstNode DEF IInv, Shape, DummyFixed
<1>2. DOMAIN err = Threads
  BY DEF IInv, Typed, TypedLocals
<1>3. ~Reopen
  BY DEF Reopen
<1>4. PICK u \in Threads : Push(u) \/ Pop(u) \/ Drained(u) \/ Empty(u) \/ Die(u)
  BY <1>3 DEF Next
<1>5. ASSUME NEW e, Return(u, e)
      PROVE  u = t /\ e \in EmptyAnswers
  BY <1>0, <1>2, <1>5 DEF Return, Fail
<1>6. ASSUME NEW e, NEW label, Fail(u, e, label)
      PROVE  u = t /\ e \in EmptyAnswers
  BY <1>2, <1>6 DEF Fail
<1>7. CASE Push(u)
  <2>1. ~PushCall(u)
    BY <1>0, <1>5, <1>6 DEF PushCall, Begin
  <2>2. ~DummyAlloc(u)
    BY <1>0, <1>6 DEF DummyAlloc
  <2>3. ~PushLock(u)
    BY <1>0, <1>6 DEF PushLock, LockAcquire
  <2>4. ~TailLoad(u)
    BY <1>0, <1>6 DEF TailLoad
  <2>5. ~PushUnlock(u) /\ ~PushReturn(u)
    BY <1>0, <1>5 DEF PushUnlock, PushReturn
  <2>6. ~(DummyHead(u) \/ DummyCas(u) \/ DummyTail(u) \/ DummyReturn(u) \/ Node(u) \/ TailLink(u) \/ TailStore(u))
    BY DEF DummyHead, DummyCas, DummyTail, DummyReturn, Node, TailLink, TailStore
  <2> QED
    BY <1>7, <2>1, <2>2, <2>3, <2>4, <2>5, <2>6 DEF Push
<1>8. CASE Pop(u)
  <2>1. CASE PopCall(u)
    BY <1>0, <1>1, <1>6, <2>1 DEF PopCall, Begin
  <2>2. ~PopLock(u)
    BY <1>0, <1>5 DEF PopLock, LockAcquire
  <2>3. CASE PopFirst(u)
    <3>1. pc[u] \in KnowLabels
      BY <2>3 DEF PopFirst, KnowLabels
    <3> QED
      BY <1>0, <1>1, <1>6, <2>3, <3>1 DEF PopFirst
  <2>4. ~PopUnlock(u) /\ ~PopReturn(u)
    BY <1>0, <1>5, <1>6 DEF PopUnlock, PopReturn
  <2>5. ~(PopUnlink(u) \/ PopTail(u))
    BY DEF PopUnlink, PopTail
  <2> QED
    BY <1>8, <2>1, <2>2, <2>3, <2>4, <2>5 DEF Pop
<1>9. CASE Drained(u)
  <2>1. CASE DrainedCall(u)
    BY <1>0, <1>1, <1>6, <2>1 DEF DrainedCall, Begin
  <2>2. ~DrainedLock(u)
    BY <1>0, <1>5 DEF DrainedLock, LockAcquire
  <2>3. CASE DrainedRead(u)
    <3>1. pc[u] \in KnowLabels
      BY <2>3 DEF DrainedRead, KnowLabels
    <3> QED
      BY <1>0, <1>1, <1>5, <2>3, <3>1 DEF DrainedRead
  <2> QED
    BY <1>9, <2>1, <2>2, <2>3 DEF Drained
<1>10. CASE Empty(u)
  <2>1. CASE EmptyCall(u)
    BY <1>0, <1>1, <1>6, <2>1 DEF EmptyCall, Begin
  <2>2. CASE EmptyRead(u)
    <3>1. pc[u] \in KnowLabels
      BY <2>2 DEF EmptyRead, KnowLabels
    <3> QED
      BY <1>0, <1>1, <1>5, <2>2, <3>1 DEF EmptyRead
  <2> QED
    BY <1>10, <2>1, <2>2 DEF Empty
<1>11. ~Die(u)
  BY DEF Die
<1> QED
  BY <1>4, <1>7, <1>8, <1>9, <1>10, <1>11

(* QUEUE_EMPTY, ef_queue_drained = 1 and ef_queue_empty = 1 are answers    *)
(* about a moment at which the queue held no message.                      *)
THEOREM QueueEmptyAnswers == Spec => EmptyIsTrue
<1>1. IInv /\ [Next]_vars =>
        [\A t \in Threads : err'[t] \in EmptyAnswers /\ err[t] \notin EmptyAnswers => items = <<>>]_vars
  BY EmptyAnswerStep
<1> QED
  BY QueueInvariant, <1>1, PTL DEF Spec, EmptyIsTrue

-----------------------------------------------------------------------------
(* The refinement of EfFifo.                                               *)

Contents == [i \in DOMAIN items |-> payload[items[i]]]

(* What a step does to the messages in the queue, when it changes neither  *)
(* the nodes nor their messages.                                           *)
LEMMA ContentsKept ==
  ASSUME Typed, items' = items, \A s \in Range(items) : payload'[s] = payload[s],
         delivered' = delivered
  PROVE  UNCHANGED <<Contents, delivered>>
<1>1. \A i \in DOMAIN items : items[i] \in Range(items)
  BY DEF Range
<1> QED
  BY <1>1 DEF Contents

(* TailLink is the Enqueue of the message in its node.                     *)
LEMMA TailLinkEnqueues ==
  ASSUME IInv, NEW t \in Threads, TailLink(t)
  PROVE  \E m \in Messages : Contents' = Append(Contents, m) /\ delivered' = delivered
<1>1. pc[t] \in SlotLabels
  BY DEF TailLink, SlotLabels
<1>2. slot[t] \in Slots /\ payload[slot[t]] \in Messages
  BY <1>1 DEF IInv, Shape, SlotHeld, SlotOK
<1>3. /\ items \in Seq(Slots) /\ payload' = payload /\ items' = Append(items, slot[t])
      /\ payload \in [Slots -> Messages \cup {0}] /\ delivered' = delivered
  BY DEF IInv, Typed, TypedShared, TypedHistory, TailLink
<1>4. Contents \in Seq(Messages \cup {0}) /\ Len(Contents) = Len(items) /\ DOMAIN Contents = 1..Len(items)
  BY <1>3 DEF Contents
<1>5. Contents' = [i \in 1..(Len(items) + 1) |-> payload[Append(items, slot[t])[i]]]
  BY <1>2, <1>3 DEF Contents
<1>6. Append(Contents, payload[slot[t]])
        = [i \in 1..(Len(items) + 1) |-> IF i = Len(items) + 1 THEN payload[slot[t]] ELSE Contents[i]]
  BY <1>2, <1>3, <1>4
<1>7. ASSUME NEW i \in 1..(Len(items) + 1)
      PROVE  payload[Append(items, slot[t])[i]]
               = IF i = Len(items) + 1 THEN payload[slot[t]] ELSE Contents[i]
  BY <1>2, <1>3 DEF Contents
<1>8. Contents' = Append(Contents, payload[slot[t]])
  BY <1>5, <1>6, <1>7
<1> QED
  BY <1>2, <1>3, <1>8

(* PopUnlink is the Dequeue.                                               *)
LEMMA PopUnlinkDequeues ==
  ASSUME IInv, NEW t \in Threads, PopUnlink(t)
  PROVE  /\ Contents # <<>> /\ Contents' = Tail(Contents)
         /\ delivered' = Append(delivered, Head(Contents))
<1>1. items # <<>> /\ buf[t] = payload[items[1]]
  BY DEF PopUnlink, IInv, Shape, TailKnown, TailOK
<1>2. /\ items \in Seq(Slots) /\ payload' = payload /\ items' = Tail(items)
      /\ payload \in [Slots -> Messages \cup {0}] /\ delivered' = Append(delivered, buf[t])
  BY DEF IInv, Typed, TypedShared, TypedHistory, PopUnlink
<1>3. /\ Contents \in Seq(Messages \cup {0}) /\ Len(Contents) = Len(items)
      /\ Contents = [i \in 1..Len(items) |-> payload[items[i]]]
      /\ Len(items) \in Nat /\ Len(items) > 0
  BY <1>1, <1>2 DEF Contents
<1>4. Contents # <<>> /\ Head(Contents) = buf[t]
  BY <1>1, <1>2, <1>3
<1>5. Contents' = [i \in 1..(Len(items) - 1) |-> payload[items[i + 1]]]
  <2>1. DOMAIN Tail(items) = 1..(Len(items) - 1) /\ \A i \in 1..(Len(items) - 1) : Tail(items)[i] = items[i + 1]
    BY <1>1, <1>2, <1>3
  <2> QED
    BY <1>2, <2>1 DEF Contents
<1>6. Tail(Contents) = [i \in 1..(Len(items) - 1) |-> Contents[i + 1]]
  BY <1>3, <1>4
<1>7. \A i \in 1..(Len(items) - 1) : Contents[i + 1] = payload[items[i + 1]]
  BY <1>3
<1>8. Contents' = Tail(Contents)
  BY <1>5, <1>6, <1>7
<1> QED
  BY <1>2, <1>4, <1>8

(* Every other step leaves the messages in the queue alone.                *)
LEMMA OtherStepsKeepContents ==
  ASSUME IInv, Next, \A t \in Threads : ~TailLink(t) /\ ~PopUnlink(t)
  PROVE  UNCHANGED <<Contents, delivered>>
<1> USE DEF headVars, slotVars, poolVars, localVars, doneVars
<1>0. Typed /\ payload \in [Slots -> Messages \cup {0}] /\ Range(items) \subseteq Slots
  BY RangeOfItems DEF IInv, Typed, TypedShared
<1>1. CASE Reopen
  BY <1>0, <1>1, ContentsKept DEF Reopen
<1>2. ASSUME NEW t \in Threads, Push(t)
      PROVE  UNCHANGED <<Contents, delivered>>
  <2>1. CASE PushCall(t)
    <3>1. items' = items /\ delivered' = delivered
      BY <2>1 DEF PushCall
    <3>2. CASE UNCHANGED payload
      BY <1>0, <3>1, <3>2, ContentsKept
    <3>3. ASSUME NEW s \in avail, payload' = [payload EXCEPT ![s] = calls + 1]
          PROVE  UNCHANGED <<Contents, delivered>>
      BY <1>0, <3>1, <3>3, AvailApart, ContentsKept DEF IInv
    <3> QED
      BY <2>1, <3>2, <3>3 DEF PushCall, TakeFails
  <2>2. CASE DummyAlloc(t)
    <3>1. items' = items /\ delivered' = delivered
      BY <2>2 DEF DummyAlloc
    <3>2. CASE UNCHANGED payload
      BY <1>0, <3>1, <3>2, ContentsKept
    <3>3. ASSUME NEW s \in avail, payload' = [payload EXCEPT ![s] = 0]
          PROVE  UNCHANGED <<Contents, delivered>>
      BY <1>0, <3>1, <3>3, AvailApart, ContentsKept DEF IInv
    <3> QED
      BY <2>2, <3>2, <3>3 DEF DummyAlloc, TakeFails
  <2>3. CASE DummyReturn(t)
    <3>1. items' = items /\ delivered' = delivered /\ dummy[t] \in Hand(t)
      <4>1. pc[t] \in DummyLabels
        BY <2>3 DEF DummyReturn, DummyLabels
      <4>2. dummy[t] \in Slots
        BY <4>1 DEF IInv, Shape, DummyHeld, DummyOK
      <4> QED
        BY <2>3, <4>1, <4>2, HandByLabel DEF DummyReturn
    <3>2. \A s \in Slots : s # dummy[t] => payload'[s] = payload[s]
      BY <1>0, <2>3 DEF DummyReturn, GiveBack
    <3> QED
      BY <1>0, <3>1, <3>2, HandsApart, ContentsKept
  <2>4. CASE PushReturn(t)
    <3>1. items' = items /\ delivered' = delivered /\ slot[t] \in Hand(t)
      <4>1. pc[t] \in SlotLabels
        BY <2>4 DEF PushReturn, SlotLabels
      <4>2. slot[t] \in Slots
        BY <4>1 DEF IInv, Shape, SlotHeld, SlotOK
      <4> QED
        BY <2>4, <4>1, <4>2, HandByLabel DEF PushReturn
    <3>2. \A s \in Slots : s # slot[t] => payload'[s] = payload[s]
      BY <1>0, <2>4 DEF PushReturn, GiveBack
    <3> QED
      BY <1>0, <3>1, <3>2, HandsApart, ContentsKept
  <2>5. CASE DummyHead(t) \/ DummyCas(t) \/ DummyTail(t) \/ Node(t) \/ PushLock(t) \/ TailLoad(t)
             \/ TailStore(t) \/ PushUnlock(t)
    <3>1. UNCHANGED <<items, payload, delivered>>
      BY <2>5 DEF DummyHead, DummyCas, DummyTail, Node, PushLock, LockAcquire, TailLoad, TailStore, PushUnlock
    <3> QED
      BY <1>0, <3>1, ContentsKept
  <2> QED
    BY <1>2, <2>1, <2>2, <2>3, <2>4, <2>5 DEF Push
<1>3. ASSUME NEW t \in Threads, Pop(t)
      PROVE  UNCHANGED <<Contents, delivered>>
  <2>1. CASE PopReturn(t)
    <3>1. items' = items /\ delivered' = delivered /\ first[t] \in Hand(t)
      <4>1. pc[t] \in FirstLabels
        BY <2>1 DEF PopReturn, FirstLabels
      <4>2. first[t] \in Slots
        BY <4>1 DEF IInv, Shape, FirstHeld, FirstOK
      <4> QED
        BY <2>1, <4>1, <4>2, HandByLabel DEF PopReturn
    <3>2. \A s \in Slots : s # first[t] => payload'[s] = payload[s]
      BY <1>0, <2>1 DEF PopReturn, GiveBack
    <3> QED
      BY <1>0, <3>1, <3>2, HandsApart, ContentsKept
  <2>2. CASE PopCall(t) \/ PopLock(t) \/ PopFirst(t) \/ PopTail(t) \/ PopUnlock(t)
    <3>1. UNCHANGED <<items, payload, delivered>>
      BY <2>2 DEF PopCall, PopLock, LockAcquire, PopFirst, PopTail, PopUnlock
    <3> QED
      BY <1>0, <3>1, ContentsKept
  <2> QED
    BY <1>3, <2>1, <2>2 DEF Pop
<1>4. ASSUME NEW t \in Threads, Drained(t) \/ Empty(t) \/ Die(t)
      PROVE  UNCHANGED <<Contents, delivered>>
  <2>1. UNCHANGED <<items, payload, delivered>>
    BY <1>4 DEF Drained, DrainedCall, DrainedLock, DrainedRead, LockAcquire, Empty, EmptyCall, EmptyRead, Die
  <2> QED
    BY <1>0, <2>1, ContentsKept
<1> QED
  BY <1>1, <1>2, <1>3, <1>4 DEF Next

(* The queue in memory, with all its interleavings, failures and crashes,  *)
(* implements the first-in first-out queue of EfFifo.                      *)
THEOREM QueueIsFifo == Spec => ImplementsFifo
<1>1. Init => Fifo!FifoInit
  <2> SUFFICES ASSUME Init
               PROVE  Contents = <<>> /\ delivered = <<>>
    BY DEF Fifo!FifoInit, Contents
  <2> QED
    BY DEF Init, Contents
<1>2. IInv /\ [Next]_vars => [Fifo!FifoNext]_(Fifo!fifoVars)
  <2> SUFFICES ASSUME IInv, [Next]_vars
               PROVE  \/ \E m \in Messages : Contents' = Append(Contents, m) /\ delivered' = delivered
                      \/ /\ Contents # <<>> /\ Contents' = Tail(Contents)
                         /\ delivered' = Append(delivered, Head(Contents))
                      \/ UNCHANGED <<Contents, delivered>>
    BY DEF Fifo!FifoNext, Fifo!Enqueue, Fifo!Dequeue, Fifo!fifoVars, Contents
  <2>1. CASE UNCHANGED vars
    BY <2>1 DEF vars, slotVars, Contents
  <2>2. CASE \E t \in Threads : TailLink(t)
    BY <2>2, TailLinkEnqueues
  <2>3. CASE \E t \in Threads : PopUnlink(t)
    BY <2>3, PopUnlinkDequeues
  <2>4. CASE Next /\ \A t \in Threads : ~TailLink(t) /\ ~PopUnlink(t)
    BY <2>4, OtherStepsKeepContents
  <2> QED
    BY <2>1, <2>2, <2>3, <2>4
<1> QED
  BY QueueInvariant, <1>1, <1>2, PTL DEF Spec, ImplementsFifo, Fifo!FifoSpec

=============================================================================
