------------------------------- MODULE EfTxn -------------------------------
(***************************************************************************)
(* Transactions, the undo log and recovery: src/src/ef_txn.c, ef_undo.c    *)
(* and the open path of endfields.c.  One process at a time has the file   *)
(* open through one handle, calls the slot and index API inside and        *)
(* outside transactions, and may die between any two steps; the file is a  *)
(* shared mapping, so that every store made before a death is in it.  The  *)
(* loss of power is not modelled.                                          *)
(*                                                                         *)
(* A call that appends its record before it changes what the record is     *)
(* about is one step: a death in between leaves a record that restores     *)
(* what is there.  The calls that append afterwards (an allocation, the    *)
(* write to a FREE slot, the index calls) are two steps in a transaction.  *)
(* Begin, commit, abort and recovery are as many steps as the stores whose *)
(* order a death can tell apart.                                           *)
(***************************************************************************)
EXTENDS EfSlots

CONSTANTS
  NumSlots,    \* slots of a new file
  Growth,      \* bound: how many slots ef_grow adds before the next open
  Keys,        \* keys of the index, positive numbers
  Pairs,       \* the <<key, slot>> pairs callers pass to ef_index_put
  Values,      \* first eight bytes of a payload
  LogSlots,    \* records the undo log has room for, EF_UNDO_LOG_DEFAULT_SLOTS
  MaxCalls,    \* bound: the calls that change a database before a new one is made
  Ops          \* the calls made: a subset of AllOps

AllOps == {"alloc", "free", "status", "link", "write", "long", "field", "put", "remove", "blob",
           "push", "pop", "grow", "sync"}

ASSUME TxnAssumption ==
  /\ NumSlots \in Nat \ {0} /\ Growth \in Nat /\ LogSlots \in Nat /\ MaxCalls \in Nat
  /\ Keys \subseteq Nat \ {0} /\ Ops \subseteq AllOps

VARIABLES
  \* the file
  d,          \* slots, free list, index
  lock,       \* sb txn_lock
  state,      \* sb txn_state
  sum,        \* the superblock whose checksum is stored
  log,        \* the undo log: its records, oldest first
  \* the handle
  pc,         \* the step that comes next; "closed" when there is no handle
  active,     \* db->txn_active
  dirty,      \* db->sb_meta_dirty
  base,       \* the number of slots in front of db->undo_log_base
  pos,        \* the record that replay has reached
  todo,       \* the records a call has still to append
  \* auxiliary
  begun,      \* a transaction has begun and has not been committed or undone
  snap,       \* the database when it began
  did,        \* how much of it the undo log can take back, see Level
  sound,      \* no abort has left the pool damaged since the file was opened,
              \* and none ever the queue
  msgs,       \* the messages of the pushes and pops that have succeeded
  qcalls,     \* whether the transaction has called the queue, see Mailed
  calls       \* how many calls have been made, for the bound

fileVars == <<d, lock, state, sum, log>>
handleVars == <<pc, active, dirty, base, pos, todo>>
queueAux == <<msgs, qcalls>>
txnAux == <<begun, snap, did, sound, queueAux>>
auxVars == <<txnAux, calls>>
vars == <<fileVars, handleVars, auxVars>>

(* The fields of the superblock that change and that its checksum covers.  *)
SuperblockOf(e) == [slots |-> Size(e), head |-> e.head, count |-> e.count, qhead |-> e.qhead,
                    qtail |-> e.qtail, lock |-> lock, state |-> state]
Superblock == SuperblockOf(d)

NewDb ==
  [slot |-> [s \in 1..NumSlots |-> [EmptySlot EXCEPT !.next = IF s < NumSlots THEN s + 1 ELSE 0]],
   head |-> 1, count |-> NumSlots, index |-> [k \in Keys |-> 0], qhead |-> 0, qtail |-> 0]

NewSum == [slots |-> NumSlots, head |-> 1, count |-> NumSlots, qhead |-> 0, qtail |-> 0,
           lock |-> 0, state |-> "NONE"]

(* ef_open of a path where there is no file (is_new_file).                 *)
Init ==
  /\ d = NewDb /\ lock = 0 /\ state = "NONE" /\ sum = NewSum /\ log = << >>
  /\ pc = "idle" /\ active = FALSE /\ dirty = FALSE /\ base = NumSlots
  /\ pos = 0 /\ todo = << >>
  /\ begun = FALSE /\ snap = NewDb /\ did = 0 /\ sound = TRUE /\ calls = 0
  /\ msgs = << >> /\ qcalls = "none"

Goto(label) == pc' = label

(* How well a call is undone.  0: its records take it back completely.     *)
(* 1: they do once the free list has also been rebuilt, on open.  2: they  *)
(* do not; a free loses the payload, the index entry and the place in the  *)
(* free list, a claim has no record, a payload of more than eight bytes is *)
(* restored in part and a single byte not, a key that is overwritten is    *)
(* not recorded, the undo of a put removes the first key of the slot, not  *)
(* the key that was put, the undo of a push unlinks the whole queue and    *)
(* that of a pop leaves the node in the pool, a blob loses its chain; and  *)
(* a record can be dropped, or not yet appended.                           *)
Level(label) ==
  CASE label \in {"nothing", "alloc", "link", "write", "put", "remove"} -> 0
    [] label \in {"alloc_last", "write_free"} -> 1
    [] label \in {"free", "claim", "write_long", "field", "overwrite", "second_key", "blob",
                  "queue", "torn"} -> 2

Worse(a, b) == IF a < b THEN b ELSE a

-----------------------------------------------------------------------------
(* The undo log.                                                           *)

Fits(recs) == SubSeq(recs, 1, IF LogSlots < Len(log) + Len(recs)
                              THEN LogSlots - Len(log) ELSE Len(recs))

(* ef_undo_record_append for each record.  Without room it returns         *)
(* EF_ERR_TXN_LOG_FULL, which every caller discards.                       *)
Append_(recs) == log' = IF active THEN log \o Fits(recs) ELSE log

(* What a call adds to a transaction; a record may have been dropped.      *)
Note(label, recs) ==
  /\ did' = IF ~active THEN 0 ELSE IF Fits(recs) # recs THEN 2 ELSE Worse(did, Level(label))
  /\ UNCHANGED snap

(* The log lies behind the slots there were when the file was mapped;      *)
(* ef_undo_reset zeroes it, and with it the slots that ef_grow has put     *)
(* there since.                                                            *)
ResetLog ==
  /\ log' = << >>
  /\ d' = [d EXCEPT !.slot = [s \in 1..Size(d) |-> IF s > base THEN EmptySlot ELSE d.slot[s]]]

-----------------------------------------------------------------------------
(* Calls that change the database.                                         *)

Called(op) == pc = "idle" /\ op \in Ops /\ calls < MaxCalls /\ calls' = calls + 1

Call(op) == Called(op) /\ UNCHANGED queueAux

(* A caller is not told the slots of the queue and the overflow slots.     *)
Known(s) == d.slot[s].status \in {"FREE", "USED"}

(* ef_undo_record_append marks the superblock dirty as well.               *)
Appends(recs) == active /\ Fits(recs) # << >>

(* A call that appends its records first ends with result r.               *)
Finish(r, label) ==
  /\ d' = r.db
  /\ Append_(r.recs)
  /\ Note(label, r.recs)
  /\ dirty' = (dirty \/ r.marked \/ Appends(r.recs))
  /\ UNCHANGED <<lock, state, sum, pc, active, base, pos, todo, begun, sound>>

(* A call that has its records still to append.                            *)
RecordLater(r, label) ==
  /\ d' = r.db
  /\ todo' = IF active THEN r.recs ELSE << >>
  /\ Goto(IF todo' = << >> THEN "idle" ELSE "record")
  /\ Note(label, r.recs)
  /\ dirty' = (dirty \/ r.marked)
  /\ UNCHANGED <<lock, state, sum, log, active, base, pos, begun, sound>>

(* The rest of that call.                                                  *)
Record ==
  /\ pc = "record"
  /\ Append_(todo)
  /\ dirty' = (dirty \/ Appends(todo))
  /\ todo' = << >>
  /\ Goto("idle")
  /\ UNCHANGED <<d, lock, state, sum, active, base, pos, auxVars>>

(* ef_alloc_slot *)
Alloc ==
  /\ Call("alloc")
  /\ LET r == AllocSlot(d) IN
     RecordLater(r, IF r.db.count = 0 THEN "alloc_last" ELSE "alloc")

(* ef_free_slot *)
Free(s) ==
  /\ Call("free") /\ Known(s)
  /\ Finish(FreeSlot(d, s), "free")

(* ef_set_status to USED, which claims a FREE slot.                        *)
Status(s) ==
  /\ Call("status") /\ Known(s)
  /\ LET r == SetStatus(d, s, "USED") IN
     Finish(r, IF r.db = d THEN "nothing" ELSE "claim")

(* ef_set_next_offset *)
Link(s, t) ==
  /\ Call("link") /\ Known(s)
  /\ Finish(SetNext(d, s, t), "link")

(* ef_write_payload, of up to eight bytes and of more.                     *)
Write(s, v, op) ==
  /\ Call(op) /\ Known(s)
  /\ LET slot == d.slot[s]
         r == WritePayload(d, s, [first |-> <<0, v>>,
                                  rest |-> IF op = "long" THEN <<v>> ELSE << >>]) IN
     IF slot.status = "FREE" THEN RecordLater(r, "write_free")
     ELSE Finish(r, IF op = "long" \/ slot.payload.rest # << >> THEN "write_long" ELSE "write")

(* ef_write_field.  A caller does not forge a status and writes the bytes  *)
(* of status and next only in a slot in use: byte 0 with the value that it *)
(* has, a byte of next such that it makes an offset without a slot.  In a  *)
(* record the old byte is followed by seven that nobody has set.           *)
WriteByte(s, v) ==
  /\ Call("field") /\ Known(s)
  /\ LET slot == d.slot[s]
         write(field, new) == Finish(WriteField(d, s, field, new, <<1, v>>), "field") IN
     \/ write("payload", [slot EXCEPT !.payload.first = <<0, v>>])
     \/ slot.status = "USED" /\ write("status", slot)
     \/ slot.status = "USED" /\ write("next", [slot EXCEPT !.next = 0])

(* ef_index_put and ef_index_remove; the lock is released before the       *)
(* record is appended.  Whether the table has room for a new key is left   *)
(* open.                                                                   *)
Put(k, s, room) ==
  /\ Call("put")
  /\ RecordLater(IndexPut(d, k, s, room, active),
                 IF d.index[k] = s \/ (d.index[k] = 0 /\ ~room) THEN "nothing"
                 ELSE IF d.index[k] # 0 THEN "overwrite"
                 ELSE IF \E j \in Keys : d.index[j] = s THEN "second_key" ELSE "put")

Remove(k) ==
  /\ Call("remove")
  /\ RecordLater(IndexRemove(d, k), IF d.index[k] = 0 THEN "nothing" ELSE "remove")

(* ef_write_blob of data that needs one overflow slot.                     *)
Blob(s, v) ==
  /\ Call("blob") /\ Known(s)
  /\ Finish(WriteBlob(d, s, [i \in 1..InlineCap + 1 |-> v], NumSlots + Growth, active), "blob")

(* The queue has been called; what it must hold from now on is m, as long  *)
(* as the pool is sound and no transaction that called the queue is undone.*)
Mailed(m) ==
  /\ qcalls' = IF ~sound \/ qcalls = "undone" THEN "undone" ELSE IF active THEN "some" ELSE qcalls
  /\ msgs' = IF qcalls' = "undone" THEN << >> ELSE m

(* A transaction ends; lost says that it has been undone and that nothing  *)
(* more is said about the queue.                                           *)
Settled(lost) ==
  /\ qcalls' = IF lost \/ qcalls = "undone" THEN "undone" ELSE "none"
  /\ msgs' = IF lost THEN << >> ELSE msgs

(* ef_queue_push and ef_queue_pop *)
Push(v) ==
  /\ Called("push")
  /\ LET r == QueuePush(d, v, NumSlots + Growth, active) IN
     /\ RecordLater(r, "queue")
     /\ Mailed(IF r.err = "OK" THEN Append(msgs, v) ELSE msgs)

Pop ==
  /\ Called("pop")
  /\ LET r == QueuePop(d) IN
     /\ Finish(r, IF r.err = "OK" THEN "queue" ELSE "nothing")
     /\ Mailed(IF r.err = "OK" THEN Tail(msgs) ELSE msgs)

(* ef_grow by one slot.  Neither backend computes undo_log_base again      *)
(* after max_slots has changed.                                            *)
Grow ==
  /\ Call("grow") /\ Size(d) < base + Growth
  /\ LET r == GrowSlots(d, NumSlots + Growth, active) IN
     /\ d' = r.db
     /\ dirty' = (dirty \/ r.marked)
  /\ UNCHANGED <<lock, state, sum, log, pc, active, base, pos, todo, txnAux>>

(* ef_db_commit_meta *)
CommitMeta == sum' = IF dirty THEN Superblock ELSE sum

(* ef_sync: the checksum, and the pages, which are in the file here.       *)
Sync ==
  /\ Call("sync")
  /\ CommitMeta
  /\ dirty' = FALSE
  /\ UNCHANGED <<d, lock, state, log, pc, active, base, pos, todo, txnAux>>

-----------------------------------------------------------------------------
(* Begin, commit and abort.                                                *)

(* ef_sb_txn_lock_try_acquire, ef_sb_txn_lock_release and                  *)
(* ef_sb_txn_state_store.                                                  *)
LockAcquire == lock = 0 /\ lock' = 1
LockRelease == lock' = 0
StoreState(s) == state' = s

(* ef_txn_begin: refused inside a transaction; with the lock taken by      *)
(* nobody else it cannot fail.                                             *)
Begin ==
  /\ pc = "idle"
  /\ ~active
  /\ LockAcquire
  /\ Goto("begin")
  /\ UNCHANGED <<d, state, sum, log, active, dirty, base, pos, todo, auxVars>>

BeginActive ==
  /\ pc = "begin"
  /\ StoreState("ACTIVE")
  /\ active' = TRUE
  /\ Goto("begin_reset")
  /\ UNCHANGED <<d, lock, sum, log, dirty, base, pos, todo, auxVars>>

(* A bound: once the log overlies slots, because the database has grown,   *)
(* the handle is only closed or lost.                                      *)
BeginReset ==
  /\ pc = "begin_reset"
  /\ ResetLog
  /\ dirty' = TRUE
  /\ Goto(IF base < Size(d) THEN "spoiled" ELSE "idle")
  /\ begun' = TRUE /\ snap' = d
  /\ did' = IF base < Size(d) THEN 2 ELSE 0
  /\ Settled(\E s \in base + 1..Size(d) : LinkCrc(d.slot[s].status))
  /\ UNCHANGED <<lock, state, sum, active, base, pos, todo, sound, calls>>

(* Mutant: the lock is released and the log is kept.                       *)
CommitKeepsLog ==
  /\ pc = "idle" /\ active
  /\ active' = FALSE
  /\ dirty' = TRUE
  /\ begun' = FALSE /\ snap' = NewDb /\ did' = 0 /\ Settled(FALSE)
  /\ Goto("end")
  /\ UNCHANGED <<d, lock, state, sum, log, base, pos, todo, sound, calls>>

(* ef_txn_commit: the log is emptied while the state is still ACTIVE; that *)
(* is the moment at which the transaction is committed.                    *)
Commit ==
  /\ pc = "idle" /\ active
  /\ active' = FALSE
  /\ ResetLog
  /\ dirty' = TRUE
  /\ begun' = FALSE /\ snap' = NewDb /\ did' = 0 /\ Settled(FALSE)
  /\ Goto("end")
  /\ UNCHANGED <<lock, state, sum, base, pos, todo, sound, calls>>

(* The end of commit and abort: the state, then the lock.                  *)
EndState ==
  /\ pc = "end"
  /\ StoreState("NONE")
  /\ Goto("unlock")
  /\ UNCHANGED <<d, lock, sum, log, active, dirty, base, pos, todo, auxVars>>

EndUnlock ==
  /\ pc = "unlock"
  /\ LockRelease
  /\ dirty' = TRUE
  /\ Goto("idle")
  /\ UNCHANGED <<d, state, sum, log, active, base, pos, todo, auxVars>>

Abort ==
  /\ pc = "idle" /\ active
  /\ StoreState("ABORTING")
  /\ pos' = Len(log)
  /\ Goto("abort")
  /\ UNCHANGED <<d, lock, sum, log, active, dirty, base, todo, auxVars>>

(* Mutant: the oldest record is left out.                                  *)
ReplayRecordButOne ==
  /\ pc \in {"abort", "recover"} /\ pos > 0
  /\ d' = IF pos = 1 THEN d ELSE UndoRecord(d, log[pos], pos < Len(log))
  /\ pos' = pos - 1
  /\ dirty' = TRUE
  /\ UNCHANGED <<lock, state, sum, log, pc, active, base, todo, auxVars>>

(* ef_undo_replay_reverse, the newest record first.                        *)
ReplayRecord ==
  /\ pc \in {"abort", "recover"} /\ pos > 0
  /\ d' = UndoRecord(d, log[pos], pos < Len(log))
  /\ pos' = pos - 1
  /\ dirty' = TRUE
  /\ UNCHANGED <<lock, state, sum, log, pc, active, base, todo, auxVars>>

AbortReset ==
  /\ pc = "abort" /\ pos = 0
  /\ active' = FALSE
  /\ ResetLog
  /\ begun' = FALSE /\ snap' = NewDb /\ did' = 0
  /\ sound' = (sound /\ did = 0)
  /\ Settled(qcalls = "some" \/ (did > 0 /\ d.qhead # 0))
  /\ Goto("end")
  /\ UNCHANGED <<lock, state, sum, dirty, base, pos, todo, calls>>

-----------------------------------------------------------------------------
(* Closing, dying and opening.                                             *)

NoHandle ==
  /\ Goto("closed")
  /\ active' = FALSE /\ dirty' = FALSE /\ base' = 0 /\ pos' = 0 /\ todo' = << >>

(* ef_close, also in the middle of a transaction.                          *)
Close ==
  /\ pc \in {"idle", "spoiled"}
  /\ CommitMeta
  /\ NoHandle
  /\ UNCHANGED <<d, lock, state, log, auxVars>>

(* The process dies.                                                       *)
Crash ==
  /\ pc # "closed"
  /\ NoHandle
  /\ did' = IF pc = "record" THEN Level("torn") ELSE did
  /\ UNCHANGED <<fileVars, begun, snap, sound, queueAux, calls>>

Refused == pc = "closed" /\ sum # Superblock

(* ef_db_bind_slots_layout: where the undo log is.                         *)
BindLayout == base' = Size(d)

(* Mutant: only an abort that was cut short is looked for.                 *)
OpenAborting ==
  /\ pc = "closed" /\ sum = Superblock
  /\ BindLayout
  /\ pos' = Len(log)
  /\ Goto(IF state = "ABORTING" THEN "recover" ELSE "rebuild")
  /\ UNCHANGED <<fileVars, active, dirty, todo, auxVars>>

(* ef_open_ex_hash of the file up to ef_txn_recover_from_stale_lock: the   *)
(* checksum is valid, the layout is bound, and a state other than ACTIVE   *)
(* means that there is nothing to recover.                                 *)
Open ==
  /\ pc = "closed" /\ sum = Superblock
  /\ BindLayout
  /\ pos' = Len(log)
  /\ Goto(IF state = "ACTIVE" THEN "recover" ELSE "rebuild")
  /\ UNCHANGED <<fileVars, active, dirty, todo, auxVars>>

(* The end of ef_txn_recover_from_stale_lock.                              *)
RecoverReset ==
  /\ pc = "recover" /\ pos = 0
  /\ log' = << >>
  /\ Goto("recover_state")
  /\ UNCHANGED <<d, lock, state, sum, active, dirty, base, pos, todo, auxVars>>

RecoverState ==
  /\ pc = "recover_state"
  /\ StoreState("NONE") /\ LockRelease
  /\ dirty' = TRUE
  /\ Goto("rebuild")
  /\ UNCHANGED <<d, sum, log, active, base, pos, todo, auxVars>>

(* Mutant: the checksum is left as it was.                                 *)
RebuildUnsummed ==
  /\ pc = "rebuild"
  /\ d' = RebuildFreeList(d)
  /\ begun' = FALSE /\ snap' = NewDb /\ did' = 0
  /\ Settled(qcalls = "some") /\ sound' = (qcalls' # "undone")
  /\ Goto("idle")
  /\ UNCHANGED <<lock, state, sum, log, active, dirty, base, pos, todo, calls>>

(* ef_rebuild_free_list, which ends with the checksum of the superblock.   *)
Rebuild ==
  /\ pc = "rebuild"
  /\ d' = RebuildFreeList(d)
  /\ sum' = SuperblockOf(d')
  /\ begun' = FALSE /\ snap' = NewDb /\ did' = 0
  /\ Settled(qcalls = "some") /\ sound' = (qcalls' # "undone")
  /\ Goto("idle")
  /\ UNCHANGED <<lock, state, log, active, dirty, base, pos, todo, calls>>

(* A file that cannot be opened is deleted; so is one that has been used   *)
(* up to the bound.                                                        *)
NewFile ==
  /\ pc = "closed" /\ (Refused \/ calls = MaxCalls)
  /\ d' = NewDb /\ lock' = 0 /\ state' = "NONE" /\ sum' = NewSum /\ log' = << >>
  /\ Goto("idle")
  /\ base' = NumSlots
  /\ begun' = FALSE /\ snap' = NewDb /\ did' = 0 /\ sound' = TRUE /\ calls' = 0
  /\ msgs' = << >> /\ qcalls' = "none"
  /\ UNCHANGED <<active, dirty, pos, todo>>

Next ==
  \/ Alloc \/ Record \/ Grow \/ Sync
  \/ \E s \in 1..Size(d) : Free(s) \/ Status(s)
  \/ \E s \in 1..Size(d), t \in 0..Size(d) : Link(s, t)
  \/ \E s \in 1..Size(d), v \in Values, op \in {"write", "long"} : Write(s, v, op)
  \/ \E s \in 1..Size(d), v \in Values : WriteByte(s, v) \/ Blob(s, v)
  \/ \E v \in Values : Push(v)
  \/ Pop
  \/ \E p \in Pairs, room \in BOOLEAN : Put(p[1], p[2], room)
  \/ \E k \in Keys : Remove(k)
  \/ Begin \/ BeginActive \/ BeginReset
  \/ Commit \/ EndState \/ EndUnlock
  \/ Abort \/ ReplayRecord \/ AbortReset
  \/ Close \/ Crash \/ Open \/ RecoverReset \/ RecoverState \/ Rebuild \/ NewFile

Spec == Init /\ [][Next]_vars

-----------------------------------------------------------------------------
(* What the callers of the API see: the slots in use and the keys.         *)
Content(e) ==
  [slot |-> [s \in 1..Size(e) |-> IF e.slot[s].status = "FREE" THEN EmptySlot ELSE e.slot[s]],
   index |-> e.index]

(* The free list is the FREE slots, and free_count is their number.        *)
PoolExact(e) ==
  LET c == Cursor(e)
      free == {s \in 1..Size(e) : e.slot[s].status = "FREE"} IN
  e.count = Cardinality(free) /\ {c[k] : k \in DOMAIN c} = free \cup {0}

(* Between calls the flag of the handle, the lock and the state in the     *)
(* file and the log agree, after commits, aborts, recoveries and failures: *)
(* a lock that is held has an owner, and no record outlives its            *)
(* transaction.                                                            *)
TxnAgrees ==
  pc = "idle" =>
    /\ active <=> lock = 1
    /\ active <=> state = "ACTIVE"
    /\ active <=> begun
    /\ ~active => state = "NONE" /\ log = << >>

(* Whatever changes the superblock also marks it dirty, so that ef_close   *)
(* and ef_sync leave a file that the next open accepts.                    *)
DirtyTracked == pc \in {"idle", "spoiled"} => dirty \/ sum = Superblock

(* ef_txn_abort gives the database back as it was at ef_txn_begin, slots,  *)
(* keys, free list in its order and counter, for transactions made of the  *)
(* calls that are recorded completely.                                     *)
AbortRestores ==
  [][pc = "abort" /\ pc' = "end" /\ sound /\ did = 0 =>
       Content(d') = Content(snap) /\ Cursor(d') = Cursor(snap) /\ d'.count = snap.count]_vars

(* An open that succeeds after a transaction was cut short, by a death or  *)
(* by ef_close, gives back the content at ef_txn_begin, even when the      *)
(* recovery itself was cut short before.                                   *)
RecoverRestores ==
  [][pc = "rebuild" /\ pc' = "idle" /\ begun /\ sound /\ did < 2 =>
       Content(d') = Content(snap)]_vars

(* Recovery takes nothing back once ef_txn_commit has emptied the log,     *)
(* although the file may still say ACTIVE.                                 *)
CommitKept ==
  [][~begun /\ sound /\ pc \in {"recover", "recover_state", "rebuild"} /\ pc' # "closed" =>
       Content(d') = Content(d)]_vars

(* As long as no abort had to take back one of the other calls, the free   *)
(* list is exact between calls: in and after transactions, and after every *)
(* open.                                                                   *)
PoolSound == pc = "idle" /\ sound => PoolExact(d)

(* The messages that pops would return.                                    *)
Messages(e) ==
  LET at[k \in 0..Size(e)] ==
        IF k = 0 THEN e.qhead ELSE IF at[k - 1] = 0 THEN 0 ELSE e.slot[at[k - 1]].next
      n == Cardinality({k \in 1..Size(e) : at[k] # 0}) IN
  IF e.qhead = 0 \/ e.slot[e.qhead].status # "QUEUE_DUMMY" THEN << >>
  ELSE [i \in 1..n |-> e.slot[at[i]].payload.first[2]]

(* Between calls the queue holds the messages of the calls that succeeded, *)
(* whatever commits, aborts and recoveries of transactions without calls   *)
(* of the queue, deaths and rebuildings of the free list came in between,  *)
(* and it can be pushed to.                                                *)
QueueKept ==
  pc = "idle" /\ qcalls # "undone" =>
    Messages(d) = msgs /\ (d.qhead = 0 <=> d.qtail = 0)

(* docs/API_GUIDE.md: ef_txn_abort replays the log to "restore the         *)
(* database to its state at ef_txn_begin": slots, keys and messages are    *)
(* what they were, and the free list holds every FREE slot and no other,   *)
(* whatever was called.                                                    *)
AbortUndoes ==
  [][pc = "abort" /\ pc' = "end" =>
       /\ Content(d') = Content(snap)
       /\ Messages(d') = Messages(snap)
       /\ PoolExact(d')]_vars

(* docs/API_GUIDE.md: after a process died in a transaction the next open  *)
(* rolls it back and "no operator intervention is needed".                 *)
RecoveryRuns == ~(Refused /\ begun)

(* docs/API_GUIDE.md, the safe pattern of growing the database before      *)
(* ef_txn_begin: beginning a transaction changes no slot.                  *)
BeginKeeps == [][pc = "begin_reset" /\ pc' # "closed" => Content(d') = Content(d)]_vars
=============================================================================
