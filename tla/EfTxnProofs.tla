---------------------------- MODULE EfTxnProofs ----------------------------
(***************************************************************************)
(* Proofs about EfTxn, for every number of slots, keys and records and for *)
(* every sequence of calls, deaths and recoveries.                         *)
(***************************************************************************)
EXTENDS EfTxn, WellFoundedInduction, TLAPS

LOCAL INSTANCE FiniteSetsExt    \* Min

-----------------------------------------------------------------------------
(* Induction over the natural numbers, in the form used here: about sets,  *)
(* from the fact that every set of natural numbers that is not empty has a *)
(* least element.                                                          *)

(* Every set of natural numbers that is not empty has a least element; the *)
(* loops over slots and entries in src/src stop at the first one.          *)
LEMMA LeastNat ==
  ASSUME NEW T, T \subseteq Nat, T # {}
  PROVE \E n \in T : \A m \in T : n <= m
<1> DEFINE R == {ss \in Nat \X Nat : ss[1] < ss[2]}
<1>1. IsWellFoundedOn(R, Nat)
  BY NatLessThanWellFounded DEF OpToRel
<1>2. \A m, n \in Nat : m < n => <<m, n>> \in R
  OBVIOUS
<1> HIDE DEF R
<1>3. PICK x \in T : \A y \in T : ~(<<y, x>> \in R)
  BY <1>1, WFMin
<1>4. \A y \in T : y \in Nat
  OBVIOUS
<1>5. \A y \in T : x <= y
  <2>1. TAKE y \in T
  <2>2. x \in Nat /\ y \in Nat
    BY <1>4
  <2>3. ~(<<y, x>> \in R)
    BY <1>3
  <2>4. ~(y < x)
    BY <2>2, <2>3, <1>2
  <2> QED BY <2>2, <2>4
<1> QED BY <1>5

(* A set with 0 and with the successor of each of its numbers holds every  *)
(* natural number: what a loop of src/src keeps in each turn, it keeps.    *)
LEMMA SetInduction ==
  ASSUME NEW S, 0 \in S, \A n \in Nat : n \in S => n + 1 \in S
  PROVE \A n \in Nat : n \in S
<1>1. SUFFICES ASSUME NEW n \in Nat, n \notin S PROVE FALSE
  OBVIOUS
<1>2. PICK m \in {k \in Nat : k \notin S} : \A k \in {j \in Nat : j \notin S} : m <= k
  BY <1>1, LeastNat
<1>3. m # 0 /\ m \in Nat /\ m - 1 \in Nat /\ m - 1 \in S
  BY <1>2
<1> QED BY <1>2, <1>3

(* The same up to a bound: a loop of n turns.                              *)
LEMMA BoundedInduction ==
  ASSUME NEW n \in Nat, NEW S, 0 \in S, \A k \in 1..n : k - 1 \in S => k \in S
  PROVE n \in S
<1> DEFINE T == {k \in Nat : k <= n => k \in S}
<1>1. 0 \in T
  OBVIOUS
<1>2. ASSUME NEW k \in Nat, k \in T PROVE k + 1 \in T
  <2>1. CASE k + 1 <= n
    <3>1. k \in S /\ k + 1 \in 1..n /\ (k + 1) - 1 = k
      BY <1>2, <2>1
    <3>2. k + 1 \in S
      BY <3>1
    <3> QED BY <3>2
  <2>2. CASE ~(k + 1 <= n)
    BY <2>2
  <2> QED BY <2>1, <2>2
<1> HIDE DEF T
<1>3. n \in T
  BY <1>1, <1>2, SetInduction
<1> QED BY <1>3 DEF T

-----------------------------------------------------------------------------
(* The flag of the handle, the lock and the state of the file.             *)

(* The steps a handle takes without and within a transaction.              *)
Outside == {"begin", "end", "unlock", "closed", "recover", "recover_state", "rebuild"}
Inside == {"record", "begin_reset", "spoiled", "abort"}
Labels == {"idle"} \cup Outside \cup Inside

FlagSet ==
  /\ pc \in Labels /\ active \in BOOLEAN
  /\ pc \in Outside => ~active
  /\ pc \in Inside => active

(* A handle in a transaction has the lock, and the file says so.           *)
Owned ==
  active => /\ lock = 1
            /\ state = IF pc = "abort" THEN "ABORTING" ELSE "ACTIVE"
            /\ pc # "begin_reset" => begun

(* Before a transaction, after it and once recovery is over nothing is     *)
(* left of one; the stores of begin and end come one by one.               *)
Cleared ==
  /\ pc = "idle" /\ ~active => lock = 0
  /\ pc = "rebuild" => lock = 0
  /\ pc = "begin" => lock = 1
  /\ pc \in {"idle", "begin", "unlock", "rebuild"} /\ ~active => state = "NONE"
  /\ pc \in {"idle", "begin", "end", "unlock"} /\ ~active => ~begun /\ log = << >>
  /\ pc = "recover_state" => log = << >>
  /\ state = "NONE" => log = << >>

(* A checksum is stored between calls only, so that a file that is         *)
(* accepted has either no transaction or one that was cut short.           *)
SumSettled ==
  /\ sum.state \in {"NONE", "ACTIVE"}
  /\ sum.lock = IF sum.state = "ACTIVE" THEN 1 ELSE 0

TxnInv == FlagSet /\ Owned /\ Cleared /\ SumSettled

-----------------------------------------------------------------------------
(* What the calls of the API leave alone (Finish, RecordLater).            *)
CallFrame ==
  /\ pc = "idle"
  /\ UNCHANGED <<lock, state, sum, active, begun>>
  /\ pc' = "idle" \/ (pc' = "record" /\ active)
  /\ ~active => log' = log

(* A call that ends with Finish touches neither the lock nor the state of  *)
(* the transaction.                                                        *)
LEMMA FinishFrame ==
  ASSUME NEW r, NEW label, FlagSet, pc = "idle", Finish(r, label)
  PROVE CallFrame
BY DEF Finish, Append_, CallFrame, FlagSet

(* Neither does one that ends with RecordLater; it waits for its records   *)
(* only in a transaction.                                                  *)
LEMMA RecordLaterFrame ==
  ASSUME NEW r, NEW label, FlagSet, pc = "idle", RecordLater(r, label)
  PROVE CallFrame
<1>1. ~active => todo' = << >>
  BY DEF RecordLater
<1>2. todo' = << >> => pc' = "idle"
  BY DEF RecordLater, Goto
<1>3. pc' \in {"idle", "record"}
  BY DEF RecordLater, Goto
<1>4. UNCHANGED <<lock, state, sum, active, begun, log>>
  BY DEF RecordLater
<1>5. active \in BOOLEAN
  BY DEF FlagSet
<1> QED BY <1>1, <1>2, <1>3, <1>4, <1>5 DEF CallFrame

(* A call of the API, in a transaction or not, keeps the agreement.        *)
LEMMA CallFrameKeeps ==
  ASSUME TxnInv, CallFrame
  PROVE TxnInv'
<1> USE DEF CallFrame, Outside, Inside, Labels
<1>1. FlagSet'
  BY DEF TxnInv, FlagSet
<1>2. Owned'
  BY DEF TxnInv, FlagSet, Owned
<1>3. Cleared'
  BY DEF TxnInv, FlagSet, Owned, Cleared
<1>4. SumSettled'
  BY DEF TxnInv, SumSettled
<1> QED BY <1>1, <1>2, <1>3, <1>4 DEF TxnInv

(* The calls, as one action.                                               *)
ApiCall ==
  \/ Alloc
  \/ \E s \in 1..Size(d) : Free(s) \/ Status(s)
  \/ \E s \in 1..Size(d), t \in 0..Size(d) : Link(s, t)
  \/ \E s \in 1..Size(d), v \in Values, op \in {"write", "long"} : Write(s, v, op)
  \/ \E s \in 1..Size(d), v \in Values : WriteByte(s, v) \/ Blob(s, v)
  \/ \E v \in Values : Push(v)
  \/ Pop
  \/ \E p \in Pairs, room \in BOOLEAN : Put(p[1], p[2], room)
  \/ \E k \in Keys : Remove(k)

(* Every call returns through one of the two ends.                         *)
LEMMA ApiCallEnds ==
  ASSUME ApiCall
  PROVE pc = "idle" /\ \E r, label : Finish(r, label) \/ RecordLater(r, label)
<1>1. CASE Alloc
  BY <1>1 DEF Alloc, Call, Called
<1>2. ASSUME NEW s \in 1..Size(d), Free(s) \/ Status(s)
      PROVE pc = "idle" /\ \E r, label : Finish(r, label) \/ RecordLater(r, label)
  BY <1>2 DEF Free, Status, Call, Called
<1>3. ASSUME NEW s \in 1..Size(d), NEW t \in 0..Size(d), Link(s, t)
      PROVE pc = "idle" /\ \E r, label : Finish(r, label) \/ RecordLater(r, label)
  BY <1>3 DEF Link, Call, Called
<1>4. ASSUME NEW s \in 1..Size(d), NEW v \in Values, NEW op \in {"write", "long"}, Write(s, v, op)
      PROVE pc = "idle" /\ \E r, label : Finish(r, label) \/ RecordLater(r, label)
  BY <1>4 DEF Write, Call, Called
<1>5. ASSUME NEW s \in 1..Size(d), NEW v \in Values, WriteByte(s, v) \/ Blob(s, v)
      PROVE pc = "idle" /\ \E r, label : Finish(r, label) \/ RecordLater(r, label)
  BY <1>5 DEF WriteByte, Blob, Call, Called
<1>6. ASSUME NEW v \in Values, Push(v)
      PROVE pc = "idle" /\ \E r, label : Finish(r, label) \/ RecordLater(r, label)
  BY <1>6 DEF Push, Called
<1>7. CASE Pop
  BY <1>7 DEF Pop, Called
<1>8. ASSUME NEW p \in Pairs, NEW room, Put(p[1], p[2], room)
      PROVE pc = "idle" /\ \E r, label : Finish(r, label) \/ RecordLater(r, label)
  BY <1>8 DEF Put, Call, Called
<1>9. ASSUME NEW k \in Keys, Remove(k)
      PROVE pc = "idle" /\ \E r, label : Finish(r, label) \/ RecordLater(r, label)
  BY <1>9 DEF Remove, Call, Called
<1> QED BY <1>1, <1>2, <1>3, <1>4, <1>5, <1>6, <1>7, <1>8, <1>9 DEF ApiCall

(* The calls of the API keep TxnInv.                                       *)
LEMMA ApiCallAgrees ==
  ASSUME TxnInv, ApiCall
  PROVE TxnInv'
<1>1. PICK r, label : Finish(r, label) \/ RecordLater(r, label)
  BY ApiCallEnds
<1>2. pc = "idle"
  BY ApiCallEnds
<1>3. FlagSet
  BY DEF TxnInv
<1>4. CallFrame
  BY <1>1, <1>2, <1>3, FinishFrame, RecordLaterFrame
<1> QED BY <1>4, CallFrameKeeps

(* Record, ef_grow and ef_sync.                                            *)
LEMMA PlainAgrees ==
  ASSUME TxnInv, Record \/ Grow \/ Sync
  PROVE TxnInv'
<1> USE DEF Outside, Inside, Labels, TxnInv
<1>1. CASE Record
  <2>1. FlagSet'
    BY <1>1 DEF Record, FlagSet, Goto
  <2>2. Owned' /\ SumSettled'
    BY <1>1 DEF Record, FlagSet, Owned, SumSettled, Goto, auxVars, txnAux
  <2>3. Cleared'
    BY <1>1 DEF Record, FlagSet, Owned, Cleared, Goto
  <2> QED BY <2>1, <2>2, <2>3
<1>2. CASE Grow
  BY <1>2 DEF Grow, Call, Called, FlagSet, Owned, Cleared, SumSettled, txnAux
<1>3. CASE Sync
  <2>1. FlagSet' /\ Owned' /\ Cleared'
    BY <1>3 DEF Sync, Call, Called, FlagSet, Owned, Cleared, txnAux
  <2>2. pc = "idle" /\ sum' = IF dirty THEN Superblock ELSE sum
    BY <1>3 DEF Sync, Call, Called, CommitMeta
  <2>3. Superblock.state = state /\ Superblock.lock = lock
    BY DEF Superblock, SuperblockOf
  <2>4. SumSettled'
    BY <2>2, <2>3 DEF SumSettled, FlagSet, Owned, Cleared
  <2> QED BY <2>1, <2>4
<1> QED BY <1>1, <1>2, <1>3

(* The steps of ef_txn_begin keep TxnInv.                                  *)
LEMMA BeginAgrees ==
  ASSUME TxnInv, Begin \/ BeginActive \/ BeginReset
  PROVE TxnInv'
<1> USE DEF Outside, Inside, Labels, TxnInv, Goto
<1>1. CASE Begin
  BY <1>1 DEF Begin, LockAcquire, FlagSet, Owned, Cleared, SumSettled, auxVars, txnAux
<1>2. CASE BeginActive
  BY <1>2 DEF BeginActive, StoreState, FlagSet, Owned, Cleared, SumSettled, auxVars, txnAux
<1>3. CASE BeginReset
  <2>1. pc = "begin_reset" /\ pc' \in {"idle", "spoiled"} /\ begun' /\ log' = << >>
    BY <1>3 DEF BeginReset, ResetLog
  <2>2. UNCHANGED <<lock, state, sum, active>>
    BY <1>3 DEF BeginReset
  <2> QED BY <2>1, <2>2 DEF FlagSet, Owned, Cleared, SumSettled
<1> QED BY <1>1, <1>2, <1>3

(* The steps of ef_txn_commit, and the end of an abort, keep TxnInv.       *)
LEMMA EndAgrees ==
  ASSUME TxnInv, Commit \/ EndState \/ EndUnlock
  PROVE TxnInv'
<1> USE DEF Outside, Inside, Labels, TxnInv, Goto
<1>1. CASE Commit
  <2>1. pc = "idle" /\ active /\ pc' = "end" /\ active' = FALSE /\ begun' = FALSE /\ log' = << >>
    BY <1>1 DEF Commit, ResetLog
  <2>2. UNCHANGED <<lock, state, sum>>
    BY <1>1 DEF Commit
  <2> QED BY <2>1, <2>2 DEF FlagSet, Owned, Cleared, SumSettled
<1>2. CASE EndState
  BY <1>2 DEF EndState, StoreState, FlagSet, Owned, Cleared, SumSettled, auxVars, txnAux
<1>3. CASE EndUnlock
  BY <1>3 DEF EndUnlock, LockRelease, FlagSet, Owned, Cleared, SumSettled, auxVars, txnAux
<1> QED BY <1>1, <1>2, <1>3

(* The steps of ef_txn_abort keep TxnInv.                                  *)
LEMMA AbortAgrees ==
  ASSUME TxnInv, Abort \/ ReplayRecord \/ AbortReset
  PROVE TxnInv'
<1> USE DEF Outside, Inside, Labels, TxnInv, Goto
<1>1. CASE Abort
  BY <1>1 DEF Abort, StoreState, FlagSet, Owned, Cleared, SumSettled, auxVars, txnAux
<1>2. CASE ReplayRecord
  <2>1. UNCHANGED <<lock, state, sum, log, pc, active, begun>>
    BY <1>2 DEF ReplayRecord, auxVars, txnAux
  <2> QED BY <2>1 DEF FlagSet, Owned, Cleared, SumSettled
<1>3. CASE AbortReset
  <2>1. pc = "abort" /\ pc' = "end" /\ active' = FALSE /\ begun' = FALSE /\ log' = << >>
    BY <1>3 DEF AbortReset, ResetLog
  <2>2. UNCHANGED <<lock, state, sum>>
    BY <1>3 DEF AbortReset
  <2> QED BY <2>1, <2>2 DEF FlagSet, Owned, Cleared, SumSettled
<1> QED BY <1>1, <1>2, <1>3

(* ef_close, the death of the process and a new file keep TxnInv.          *)
LEMMA CloseAgrees ==
  ASSUME TxnInv, Close \/ Crash \/ NewFile
  PROVE TxnInv'
<1> USE DEF Outside, Inside, Labels, TxnInv, Goto
<1>1. CASE Close
  <2>1. pc \in {"idle", "spoiled"} /\ pc' = "closed" /\ active' = FALSE
    BY <1>1 DEF Close, NoHandle
  <2>2. UNCHANGED <<lock, state, log>>
    BY <1>1 DEF Close
  <2>3. sum' = IF dirty THEN Superblock ELSE sum
    BY <1>1 DEF Close, CommitMeta
  <2>4. Superblock.state = state /\ Superblock.lock = lock
    BY DEF Superblock, SuperblockOf
  <2>5. SumSettled'
    BY <2>1, <2>3, <2>4 DEF SumSettled, FlagSet, Owned, Cleared
  <2> QED BY <2>1, <2>2, <2>5 DEF FlagSet, Owned, Cleared
<1>2. CASE Crash
  BY <1>2 DEF Crash, NoHandle, fileVars, FlagSet, Owned, Cleared, SumSettled
<1>3. CASE NewFile
  <2>1. pc = "closed" /\ pc' = "idle" /\ active' = active /\ begun' = FALSE
    BY <1>3 DEF NewFile
  <2>2. lock' = 0 /\ state' = "NONE" /\ log' = << >> /\ sum' = NewSum
    BY <1>3 DEF NewFile
  <2>3. NewSum.state = "NONE" /\ NewSum.lock = 0
    BY DEF NewSum
  <2>4. SumSettled'
    BY <2>2, <2>3 DEF SumSettled
  <2> QED BY <2>1, <2>2, <2>4 DEF FlagSet, Owned, Cleared
<1> QED BY <1>1, <1>2, <1>3

(* A file that open accepts has the state that its checksum was made of:   *)
(* not ABORTING, and the lock with it.                                     *)
LEMMA OpenAgrees ==
  ASSUME TxnInv, Open \/ RecoverReset \/ RecoverState \/ Rebuild
  PROVE TxnInv'
<1> USE DEF Outside, Inside, Labels, TxnInv, Goto
<1>1. CASE Open
  <2>1. pc = "closed" /\ sum = Superblock /\ UNCHANGED <<lock, state, sum, log, active, begun>>
    BY <1>1 DEF Open, fileVars, auxVars, txnAux
  <2>2. pc' = IF state = "ACTIVE" THEN "recover" ELSE "rebuild"
    BY <1>1 DEF Open
  <2>3. Superblock.state = state /\ Superblock.lock = lock
    BY DEF Superblock, SuperblockOf
  <2>4. state \in {"NONE", "ACTIVE"} /\ lock = IF state = "ACTIVE" THEN 1 ELSE 0
    BY <2>1, <2>3 DEF SumSettled
  <2> QED BY <2>1, <2>2, <2>4 DEF FlagSet, Owned, Cleared, SumSettled
<1>2. CASE RecoverReset
  BY <1>2 DEF RecoverReset, FlagSet, Owned, Cleared, SumSettled, auxVars, txnAux
<1>3. CASE RecoverState
  BY <1>3 DEF RecoverState, StoreState, LockRelease, FlagSet, Owned, Cleared, SumSettled, auxVars,
              txnAux
<1>4. CASE Rebuild
  <2>1. pc = "rebuild" /\ pc' = "idle" /\ begun' = FALSE /\ UNCHANGED <<lock, state, log, active>>
    BY <1>4 DEF Rebuild
  <2>2. sum' = SuperblockOf(d')
    BY <1>4 DEF Rebuild
  <2>3. SuperblockOf(d').state = state /\ SuperblockOf(d').lock = lock
    BY DEF SuperblockOf
  <2>4. SumSettled'
    BY <2>1, <2>2, <2>3 DEF SumSettled, FlagSet, Cleared
  <2> QED BY <2>1, <2>4 DEF FlagSet, Owned, Cleared
<1> QED BY <1>1, <1>2, <1>3, <1>4

(* TxnInv is an invariant: at every step of every call the flag of the     *)
(* handle, the lock, the state and the log of the file stand as the order  *)
(* of the stores of begin, commit, abort and recovery says.                *)
THEOREM TxnInvariant == Spec => []TxnInv
<1>1. Init => TxnInv
  <2> SUFFICES ASSUME Init PROVE TxnInv
    OBVIOUS
  <2>1. pc = "idle" /\ active = FALSE /\ begun = FALSE
    BY DEF Init
  <2>2. lock = 0 /\ state = "NONE" /\ log = << >>
    BY DEF Init
  <2>3. sum.state = "NONE" /\ sum.lock = 0
    BY DEF Init, NewSum
  <2> QED BY <2>1, <2>2, <2>3 DEF TxnInv, FlagSet, Owned, Cleared, SumSettled, Outside, Inside, Labels
<1>2. TxnInv /\ [Next]_vars => TxnInv'
  <2> SUFFICES ASSUME TxnInv, [Next]_vars PROVE TxnInv'
    OBVIOUS
  <2>1. CASE ApiCall
    BY <2>1, ApiCallAgrees
  <2>2. CASE Record \/ Grow \/ Sync
    BY <2>2, PlainAgrees
  <2>3. CASE Begin \/ BeginActive \/ BeginReset
    BY <2>3, BeginAgrees
  <2>4. CASE Commit \/ EndState \/ EndUnlock
    BY <2>4, EndAgrees
  <2>5. CASE Abort \/ ReplayRecord \/ AbortReset
    BY <2>5, AbortAgrees
  <2>6. CASE Close \/ Crash \/ NewFile
    BY <2>6, CloseAgrees
  <2>7. CASE Open \/ RecoverReset \/ RecoverState \/ Rebuild
    BY <2>7, OpenAgrees
  <2>8. CASE UNCHANGED vars
    <3>1. UNCHANGED <<lock, state, sum, log, pc, active, begun>>
      BY <2>8 DEF vars, fileVars, handleVars, auxVars, txnAux
    <3> QED BY <3>1 DEF TxnInv, FlagSet, Owned, Cleared, SumSettled
  <2> QED BY <2>1, <2>2, <2>3, <2>4, <2>5, <2>6, <2>7, <2>8 DEF Next, ApiCall
<1> QED BY <1>1, <1>2, PTL DEF Spec

(* Between calls the flag of the handle, the lock, the state and the log   *)
(* agree, whatever was committed, aborted, cut short or recovered before   *)
(* (ef_txn_begin, ef_txn_commit, ef_txn_abort, ef_txn_recover_from_stale_lock). *)
THEOREM TxnAgreesTheorem == Spec => []TxnAgrees
<1>1. TxnInv => TxnAgrees
  BY DEF TxnInv, TxnAgrees, FlagSet, Owned, Cleared
<1> QED BY <1>1, TxnInvariant, PTL

-----------------------------------------------------------------------------
(* What every call of EfSlots returns: a database of the same shape, undo  *)
(* records of the kinds that replay knows, and a database whose superblock *)
(* is as before unless the call has marked it dirty.                       *)

DbFields == {"slot", "head", "count", "index", "qhead", "qtail"}
ResFields == {"db", "err", "recs", "got", "marked"}
Kinds == {"SLOT_STATUS", "SLOT_NEXT", "SLOT_PAYLOAD", "SLOT_ALLOC", "SLOT_FREE", "INDEX_PUT",
          "INDEX_REMOVE", "QUEUE_PUSH", "QUEUE_POP", "FREE_COUNT"}

IsDb(e) == DOMAIN e = DbFields /\ \E n \in Nat : DOMAIN e.slot = 1..n
IsRecs(q) == \E n \in Nat : DOMAIN q = 1..n /\ \A i \in 1..n : q[i].kind \in Kinds
SameMeta(a, b) ==
  /\ DOMAIN a.slot = DOMAIN b.slot
  /\ a.head = b.head /\ a.count = b.count /\ a.qhead = b.qhead /\ a.qtail = b.qtail

IsRes(r) == DOMAIN r = ResFields /\ IsDb(r.db) /\ IsRecs(r.recs)
Tracked(e, r) == IsRes(r) /\ (r.marked = TRUE \/ SameMeta(e, r.db))

(* No records, one record and two are sequences of known kinds.            *)
LEMMA NoRecs == IsRecs(<< >>)
BY DEF IsRecs

(* One record.                                                             *)
LEMMA OneRec ==
  ASSUME NEW a, a.kind \in Kinds
  PROVE IsRecs(<<a>>)
BY DEF IsRecs

(* Two records.                                                            *)
LEMMA TwoRecs ==
  ASSUME NEW a, NEW b, a.kind \in Kinds, b.kind \in Kinds
  PROVE IsRecs(<<a, b>>)
<1>1. DOMAIN <<a, b>> = 1..2
  OBVIOUS
<1>2. \A i \in 1..2 : i = 1 \/ i = 2
  OBVIOUS
<1> QED BY <1>1, <1>2 DEF IsRecs

(* So are two sequences of records, one after the other (the undo log      *)
(* grows by ef_undo_append).                                               *)
LEMMA ConcatRecs ==
  ASSUME NEW p, NEW q, IsRecs(p), IsRecs(q)
  PROVE IsRecs(p \o q)
<1>1. PICK m \in Nat : DOMAIN p = 1..m /\ \A i \in 1..m : p[i].kind \in Kinds
  BY DEF IsRecs
<1>2. PICK n \in Nat : DOMAIN q = 1..n /\ \A i \in 1..n : q[i].kind \in Kinds
  BY DEF IsRecs
<1>3. Len(p) = m /\ Len(q) = n
  BY <1>1, <1>2
<1>4. DOMAIN (p \o q) = 1..(m + n)
  BY <1>1, <1>2, <1>3
<1>5. ASSUME NEW i \in 1..(m + n) PROVE (p \o q)[i].kind \in Kinds
  BY <1>1, <1>2, <1>3
<1>6. m + n \in Nat
  OBVIOUS
<1> QED BY <1>4, <1>5, <1>6 DEF IsRecs

(* So is the beginning of a sequence of records.                           *)
LEMMA SubRecs ==
  ASSUME NEW q, IsRecs(q), NEW n \in Int, n <= Len(q)
  PROVE IsRecs(SubSeq(q, 1, n))
<1>1. PICK m \in Nat : DOMAIN q = 1..m /\ \A i \in 1..m : q[i].kind \in Kinds
  BY DEF IsRecs
<1>2. Len(q) = m
  BY <1>1
<1>3. CASE n <= 0
  <2>1. DOMAIN SubSeq(q, 1, n) = 1..0
    BY <1>1, <1>2, <1>3
  <2> QED BY <2>1 DEF IsRecs
<1>4. CASE n > 0
  <2>1. DOMAIN SubSeq(q, 1, n) = 1..n /\ \A i \in 1..n : SubSeq(q, 1, n)[i] = q[i]
    BY <1>1, <1>2, <1>4
  <2> QED BY <2>1, <1>1, <1>2, <1>4 DEF IsRecs
<1> QED BY <1>3, <1>4

(* The kinds of the records that calls make.                               *)
LEMMA RecKinds ==
  ASSUME NEW s, NEW slot, NEW k, NEW n, NEW t
  PROVE /\ Rec("SLOT_ALLOC", s).kind \in Kinds
        /\ StatusRec(s, slot).kind \in Kinds /\ NextRec(s, slot).kind \in Kinds
        /\ PayloadRec(s, slot).kind \in Kinds /\ FreeRec(s, slot).kind \in Kinds
        /\ KeyRec("INDEX_PUT", k, s).kind \in Kinds /\ KeyRec("INDEX_REMOVE", k, s).kind \in Kinds
        /\ CountRec(n).kind \in Kinds
        /\ PushRec(s, n).kind \in Kinds /\ PopRec(s, n, t).kind \in Kinds
BY DEF Rec, StatusRec, NextRec, PayloadRec, FreeRec, KeyRec, CountRec, PushRec, PopRec, Kinds

(* A result is tracked if the superblock is as before, whatever became of  *)
(* the slots.                                                              *)
LEMMA ResultTracked ==
  ASSUME NEW e, NEW f, NEW err, NEW recs, IsDb(f), SameMeta(e, f), IsRecs(recs)
  PROVE Tracked(e, Result(f, err, recs))
<1> DEFINE r == Result(f, err, recs)
<1>1. r.db = f /\ r.recs = recs /\ DOMAIN r = ResFields
  BY DEF Result, ResFields
<1> HIDE DEF r
<1>2. Tracked(e, r)
  BY <1>1 DEF Tracked, IsRes
<1> QED BY <1>2 DEF r

(* A result with the mark of ef_db_mark_meta_dirty is tracked.             *)
LEMMA MarkedTracked ==
  ASSUME NEW e, NEW f, NEW err, NEW recs, IsDb(f), IsRecs(recs)
  PROVE Tracked(e, Marked(f, err, recs))
<1> DEFINE r == Marked(f, err, recs)
<1>1. r.db = f /\ r.recs = recs /\ r.marked = TRUE /\ DOMAIN r = ResFields
  BY DEF Marked, Result, ResFields
<1> HIDE DEF r
<1>2. Tracked(e, r)
  BY <1>1 DEF Tracked, IsRes
<1> QED BY <1>2 DEF r

(* A database has its own superblock.                                      *)
LEMMA SameMetaSelf ==
  ASSUME NEW e
  PROVE SameMeta(e, e)
BY DEF SameMeta

(* A call that refuses, and changes nothing, is tracked.                   *)
LEMMA RefuseTracked ==
  ASSUME NEW e, NEW err, IsDb(e)
  PROVE Tracked(e, Refuse(e, err))
BY NoRecs, SameMetaSelf, ResultTracked DEF Refuse

(* A store to a slot changes no field of the superblock.                   *)
LEMMA SlotStored ==
  ASSUME NEW e, IsDb(e), NEW s, NEW x
  PROVE IsDb([e EXCEPT !.slot[s] = x]) /\ SameMeta(e, [e EXCEPT !.slot[s] = x])
BY DEF IsDb, DbFields, SameMeta

(* ef_slot_header_crc_store changes no field of the superblock.            *)
LEMMA StampStored ==
  ASSUME NEW e, IsDb(e), NEW s
  PROVE IsDb(StampSlot(e, s)) /\ SameMeta(e, StampSlot(e, s))
BY DEF StampSlot, IsDb, DbFields, SameMeta

(* Nor does ef_index_remove_by_slot.                                       *)
LEMMA IndexCleared ==
  ASSUME NEW e, IsDb(e), NEW s
  PROVE IsDb(RemoveBySlot(e, s)) /\ SameMeta(e, RemoveBySlot(e, s))
BY DEF RemoveBySlot, IsDb, DbFields, SameMeta

(* ef_return_slot_to_pool keeps the shape of the database.                 *)
LEMMA SlotReturned ==
  ASSUME NEW e, IsDb(e), NEW s
  PROVE IsDb(ReturnSlot(e, s))
<1> DEFINE f == RemoveBySlot(e, s)
<1>1. IsDb(f)
  BY IndexCleared
<1> HIDE DEF f
<1>2. IsDb([f EXCEPT !.slot[s] = [EmptySlot EXCEPT !.next = e.head], !.head = s,
                     !.count = (@ + 1) % CountMod])
  BY <1>1 DEF IsDb, DbFields
<1> QED BY <1>2 DEF ReturnSlot, f

(* ef_alloc_slot_ex is tracked.                                            *)
LEMMA AllocTracked ==
  ASSUME NEW e, IsDb(e)
  PROVE Tracked(e, AllocSlot(e))
<1> DEFINE s == e.head
           f == [e EXCEPT !.head = e.slot[s].next, !.count = @ - 1,
                          !.slot[s] = Stamp([EmptySlot EXCEPT !.status = "USED"])]
           q == <<Rec("SLOT_ALLOC", s), CountRec(-1)>>
<1>1. IsDb(f)
  BY DEF IsDb, DbFields
<1>2. IsRecs(q)
  BY RecKinds, TwoRecs
<1>3. s = 0 \/ e.count = 0 => AllocSlot(e) = Refuse(e, "SLOT_FULL")
  BY DEF AllocSlot
<1>4. ~(s = 0 \/ e.count = 0) => AllocSlot(e) = [Marked(f, "OK", q) EXCEPT !.got = s]
  BY DEF AllocSlot
<1> HIDE DEF f, q, s
<1>5. Tracked(e, [Marked(f, "OK", q) EXCEPT !.got = s])
  <2> DEFINE r == [Marked(f, "OK", q) EXCEPT !.got = s]
  <2>1. r.db = f /\ r.recs = q /\ r.marked = TRUE /\ DOMAIN r = ResFields
    BY DEF Marked, Result, ResFields
  <2> HIDE DEF r
  <2>2. Tracked(e, r)
    BY <1>1, <1>2, <2>1 DEF Tracked, IsRes
  <2> QED BY <2>2 DEF r
<1> QED BY <1>3, <1>4, <1>5, RefuseTracked

(* ef_grow is tracked.                                                     *)
LEMMA GrowTracked ==
  ASSUME NEW e, IsDb(e), NEW room, NEW txn
  PROVE Tracked(e, GrowSlots(e, room, txn))
<1> DEFINE f == [e EXCEPT !.slot = Append(@, [EmptySlot EXCEPT !.next = e.head]),
                          !.head = Size(e) + 1, !.count = (@ + 1) % CountMod]
<1>1. IsDb(f)
  <2>1. PICK n \in Nat : DOMAIN e.slot = 1..n
    BY DEF IsDb
  <2>2. DOMAIN f = DbFields /\ f.slot = Append(e.slot, [EmptySlot EXCEPT !.next = e.head])
    BY DEF IsDb, DbFields
  <2>3. DOMAIN f.slot = 1..(n + 1)
    BY <2>1, <2>2
  <2> HIDE DEF f
  <2> QED BY <2>2, <2>3 DEF IsDb
<1>2. \/ \E err : GrowSlots(e, room, txn) = Refuse(e, err)
      \/ GrowSlots(e, room, txn) = Marked(f, "OK", << >>)
  BY DEF GrowSlots
<1> HIDE DEF f
<1> QED BY <1>1, <1>2, NoRecs, RefuseTracked, MarkedTracked

(* ef_alloc_ex, which grows the file when there is no free slot, is        *)
(* tracked.                                                                *)
LEMMA AllocGrowingTracked ==
  ASSUME NEW e, IsDb(e), NEW room, NEW txn
  PROVE Tracked(e, AllocGrowing(e, room, txn))
<1> DEFINE a == AllocSlot(e)
           g == GrowSlots(e, room, txn)
           b == AllocSlot(g.db)
<1>1. Tracked(e, a) /\ Tracked(e, g)
  BY AllocTracked, GrowTracked
<1>2. Tracked(g.db, b)
  BY <1>1, AllocTracked DEF Tracked, IsRes
<1>3. AllocGrowing(e, room, txn) \in {a, g, [b EXCEPT !.marked = TRUE]}
  BY DEF AllocGrowing
<1> HIDE DEF a, g, b
<1>4. Tracked(e, [b EXCEPT !.marked = TRUE])
  BY <1>2 DEF Tracked, IsRes, ResFields
<1> QED BY <1>1, <1>3, <1>4

(* What Tracked says of the fields, and how it is put together.            *)
LEMMA TrackedParts ==
  ASSUME NEW e, NEW r, Tracked(e, r)
  PROVE /\ DOMAIN r = ResFields /\ IsDb(r.db) /\ IsRecs(r.recs)
        /\ r.marked = TRUE \/ SameMeta(e, r.db)
BY DEF Tracked, IsRes

(* The parts put together.                                                 *)
LEMMA TrackedMade ==
  ASSUME NEW e, NEW r, DOMAIN r = ResFields, IsDb(r.db), IsRecs(r.recs),
         r.marked = TRUE \/ SameMeta(e, r.db)
  PROVE Tracked(e, r)
BY DEF Tracked, IsRes

(* The superblock of one database, of a second and of a third.             *)
LEMMA SameMetaTrans ==
  ASSUME NEW a, NEW b, NEW c, SameMeta(a, b), SameMeta(b, c)
  PROVE SameMeta(a, c)
BY DEF SameMeta

(* ef_unlink_free_slot keeps the shape of the database.                    *)
LEMMA UnlinkShape ==
  ASSUME NEW e, IsDb(e), NEW s
  PROVE IsRes(Unlink(e, s)) /\ (Unlink(e, s).err # "OK" => Tracked(e, Unlink(e, s)))
<1> DEFINE c == Cursor(e)
           t == c[Min({k \in DOMAIN c : c[k] # 0 /\ e.slot[c[k]].next = s})]
           f == [e EXCEPT !.head = e.slot[s].next, !.slot[s].next = 0]
           g == [e EXCEPT !.slot[t].next = e.slot[s].next, !.slot[s].next = 0]
<1>1. Unlink(e, s) \in {Result(f, "OK", << >>), Refuse(e, "NOT_FOUND"), Result(g, "OK", << >>)}
  BY DEF Unlink
<1>2. IsDb(f)
  BY DEF IsDb, DbFields
<1> HIDE DEF t
<1>3. IsDb(g)
  BY DEF IsDb, DbFields
<1> HIDE DEF f, g
<1>4. \A h : IsDb(h) => IsRes(Result(h, "OK", << >>)) /\ Result(h, "OK", << >>).err = "OK"
  <2>1. TAKE h
  <2>2. HAVE IsDb(h)
  <2>3. Tracked(h, Result(h, "OK", << >>))
    BY <2>2, NoRecs, SameMetaSelf, ResultTracked
  <2> QED BY <2>3 DEF Tracked, Result
<1>5. Tracked(e, Refuse(e, "NOT_FOUND"))
  BY RefuseTracked
<1> QED BY <1>1, <1>2, <1>3, <1>4, <1>5 DEF Tracked

(* ef_claim_slot is tracked.                                               *)
LEMMA ClaimTracked ==
  ASSUME NEW e, IsDb(e), NEW s
  PROVE Tracked(e, ClaimSlot(e, s))
<1> DEFINE u == Unlink(e, s)
           r == [u EXCEPT !.db.slot[s] = Stamp([@ EXCEPT !.status = "USED"]),
                          !.db.count = IF @ > 0 THEN @ - 1 ELSE 0,
                          !.marked = TRUE]
<1>1. IsRes(u) /\ (u.err # "OK" => Tracked(e, u))
  BY UnlinkShape
<1>2. ClaimSlot(e, s) = IF u.err # "OK" THEN u ELSE r
  BY DEF ClaimSlot
<1> HIDE DEF u
<1>3. DOMAIN r = ResFields /\ r.recs = u.recs /\ r.marked = TRUE /\ IsDb(r.db)
  BY <1>1 DEF IsRes, ResFields, IsDb, DbFields
<1> HIDE DEF r
<1>4. Tracked(e, r)
  BY <1>1, <1>3, TrackedMade DEF IsRes
<1> QED BY <1>1, <1>2, <1>4

-----------------------------------------------------------------------------
(* Releasing a chain: what the loop keeps in each turn.                    *)

(* One turn of the loops that release a chain keeps the result tracked.    *)
LEMMA WalkStepTracked ==
  ASSUME NEW e, NEW w, NEW txn, Tracked(e, w)
  PROVE Tracked(e, WalkStep(w, txn))
<1> DEFINE t == w.got
           cut == [w.db EXCEPT !.slot[t].next = 0]
           f == IF txn THEN StampSlot(cut, t) ELSE ReturnSlot(cut, t)
           stop == [w EXCEPT !.err = "NOT_FOUND"]
           go == [w EXCEPT !.db = f, !.got = w.db.slot[t].next, !.marked = @ \/ ~txn]
<1>1. WalkStep(w, txn) \in {w, stop, go}
  BY DEF WalkStep
<1>2. DOMAIN w = ResFields /\ IsDb(w.db) /\ IsRecs(w.recs)
  BY TrackedParts
<1>3. w.marked = TRUE \/ SameMeta(e, w.db)
  BY TrackedParts
<1>4. Tracked(e, stop)
  <2>1. DOMAIN stop = ResFields /\ stop.db = w.db /\ stop.recs = w.recs /\ stop.marked = w.marked
    BY <1>2 DEF ResFields
  <2> HIDE DEF stop
  <2> QED BY <1>2, <1>3, <2>1, TrackedMade
<1>5. IsDb(cut) /\ SameMeta(w.db, cut)
  BY <1>2 DEF IsDb, DbFields, SameMeta
<1> HIDE DEF cut, t
<1>6. IsDb(f) /\ (txn => SameMeta(w.db, f))
  BY <1>5, StampStored, SlotReturned, SameMetaTrans
<1> HIDE DEF f
<1>7. DOMAIN go = ResFields /\ go.db = f /\ go.recs = w.recs
  BY <1>2 DEF ResFields
<1>8. w.marked = TRUE \/ ~txn => go.marked = TRUE
  BY <1>2 DEF ResFields
<1> HIDE DEF go
<1>9. go.marked = TRUE \/ SameMeta(e, go.db)
  BY <1>3, <1>6, <1>7, <1>8, SameMetaTrans
<1>10. Tracked(e, go)
  BY <1>2, <1>6, <1>7, <1>9, TrackedMade
<1> HIDE DEF stop
<1> QED BY <1>1, <1>4, <1>10

(* The function that WalkChain computes with.                              *)
IsWalk(w, start, txn, n) ==
  w = [k \in 0..n |-> IF k = 0 THEN start ELSE WalkStep(w[k - 1], txn)]

(* The loop of WalkChain is what its turns make of it: the recursive       *)
(* function that defines it exists.                                        *)
LEMMA WalkExists ==
  ASSUME NEW start, NEW txn
  PROVE \A n \in Nat : \E w : IsWalk(w, start, txn, n)
<1> DEFINE S == {n \in Nat : \E w : IsWalk(w, start, txn, n)}
<1>1. 0 \in S
  <2> DEFINE w == [k \in 0..0 |-> start]
  <2>1. w = [k \in 0..0 |-> IF k = 0 THEN start ELSE WalkStep(w[k - 1], txn)]
    OBVIOUS
  <2> QED BY <2>1 DEF IsWalk
<1>2. ASSUME NEW n \in Nat, n \in S PROVE n + 1 \in S
  <2>1. PICK w : IsWalk(w, start, txn, n)
    BY <1>2
  <2> DEFINE v == [k \in 0..n + 1 |-> IF k = 0 THEN start ELSE WalkStep(w[k - 1], txn)]
  <2>2. \A k \in 0..n : v[k] = w[k]
    BY <2>1 DEF IsWalk
  <2>3. \A k \in 0..n + 1 : k # 0 => k - 1 \in 0..n
    OBVIOUS
  <2>4. v = [k \in 0..n + 1 |-> IF k = 0 THEN start ELSE WalkStep(v[k - 1], txn)]
    BY <2>2, <2>3
  <2>5. IsWalk(v, start, txn, n + 1)
    BY <2>4 DEF IsWalk
  <2> HIDE DEF v
  <2> QED BY <2>5
<1> HIDE DEF S
<1>3. \A n \in Nat : n \in S
  BY <1>1, <1>2, SetInduction
<1> QED BY <1>3 DEF S

(* After each turn the result is tracked, by induction over the turns.     *)
LEMMA WalkTracked ==
  ASSUME NEW e, NEW start, NEW txn, NEW n \in Nat, NEW w, IsWalk(w, start, txn, n),
         Tracked(e, start)
  PROVE Tracked(e, w[n])
<1> DEFINE S == {k \in 0..n : Tracked(e, w[k])}
<1>1. 0 \in S
  BY DEF IsWalk
<1>2. ASSUME NEW k \in 1..n, k - 1 \in S PROVE k \in S
  <2>1. w[k] = WalkStep(w[k - 1], txn)
    BY DEF IsWalk
  <2>2. Tracked(e, w[k])
    BY <1>2, <2>1, WalkStepTracked
  <2> QED BY <2>2
<1> HIDE DEF S
<1>3. n \in S
  BY <1>1, <1>2, BoundedInduction
<1> QED BY <1>3 DEF S

(* ef_blob_release_chain and ef_blob_unlink_chain_in_txn are tracked,      *)
(* however long the chain.                                                 *)
LEMMA WalkChainTracked ==
  ASSUME NEW e, IsDb(e), NEW s, NEW txn
  PROVE Tracked(e, WalkChain(e, s, txn))
<1> DEFINE start == [Refuse([e EXCEPT !.slot[s] = Stamp([@ EXCEPT !.next = 0])], "OK")
                       EXCEPT !.got = e.slot[s].next]
           n == Size(e) + 1
           w == CHOOSE v : IsWalk(v, start, txn, n)
           last == [w[n] EXCEPT !.got = 0]
<1>1. n \in Nat
  BY DEF IsDb, Size
<1>2. Tracked(e, start)
  <2> DEFINE f == [e EXCEPT !.slot[s] = Stamp([@ EXCEPT !.next = 0])]
  <2>1. IsDb(f) /\ SameMeta(e, f)
    BY DEF IsDb, DbFields, SameMeta
  <2>2. start.db = f /\ start.recs = << >> /\ DOMAIN start = ResFields
    BY DEF Refuse, Result, ResFields
  <2> HIDE DEF f, start
  <2> QED BY <2>1, <2>2, NoRecs, TrackedMade
<1>3. WalkChain(e, s, txn) = last
  BY DEF WalkChain, IsWalk
<1> HIDE DEF start, n
<1>4. IsWalk(w, start, txn, n)
  BY <1>1, WalkExists
<1> HIDE DEF w
<1>5. Tracked(e, w[n])
  BY <1>1, <1>2, <1>4, WalkTracked
<1>6. last.db = w[n].db /\ last.recs = w[n].recs /\ last.marked = w[n].marked
      /\ DOMAIN last = ResFields
  BY <1>5, TrackedParts DEF ResFields
<1> HIDE DEF last
<1>7. Tracked(e, last)
  BY <1>5, <1>6, TrackedParts, TrackedMade
<1> QED BY <1>3, <1>7

-----------------------------------------------------------------------------
(* The calls of the slot API and of the index.                             *)

(* ef_free_slot is tracked.                                                *)
LEMMA FreeTracked ==
  ASSUME NEW e, IsDb(e), NEW s
  PROVE Tracked(e, FreeSlot(e, s))
<1> DEFINE r == IF e.slot[s].status = "USED" THEN ReleaseChain(e, s) ELSE Refuse(e, "OK")
           q == <<FreeRec(s, e.slot[s]), CountRec(1)>>
           m == Marked(ReturnSlot(r.db, s), "OK", q)
<1>1. Tracked(e, r)
  BY WalkChainTracked, RefuseTracked DEF ReleaseChain
<1>2. \/ \E err : FreeSlot(e, s) = Refuse(e, err)
      \/ FreeSlot(e, s) \in {r, m}
  BY DEF FreeSlot
<1>3. IsRecs(q)
  BY RecKinds, TwoRecs
<1> HIDE DEF r, q
<1>4. Tracked(e, m)
  BY <1>1, <1>3, TrackedParts, SlotReturned, MarkedTracked
<1> HIDE DEF m
<1> QED BY <1>1, <1>2, <1>4, RefuseTracked

(* ef_set_status is tracked.                                               *)
LEMMA StatusTracked ==
  ASSUME NEW e, IsDb(e), NEW s, NEW status
  PROVE Tracked(e, SetStatus(e, s, status))
<1> DEFINE slot == e.slot[s]
           f == [e EXCEPT !.slot[s] = Stamp([slot EXCEPT !.status = status])]
           r == Result(f, "OK", <<StatusRec(s, slot)>>)
<1>1. SetStatus(e, s, status) \in {FreeSlot(e, s), ClaimSlot(e, s), Refuse(e, "OK"), r}
  BY DEF SetStatus
<1>2. IsDb(f) /\ SameMeta(e, f)
  BY SlotStored
<1>3. IsRecs(<<StatusRec(s, slot)>>)
  BY RecKinds, OneRec
<1> HIDE DEF f, slot
<1>4. Tracked(e, r)
  BY <1>2, <1>3, ResultTracked
<1> HIDE DEF r
<1> QED BY <1>1, <1>4, FreeTracked, ClaimTracked, RefuseTracked

(* ef_set_next_offset is tracked.                                          *)
LEMMA NextTracked ==
  ASSUME NEW e, IsDb(e), NEW s, NEW t
  PROVE Tracked(e, SetNext(e, s, t))
<1> DEFINE slot == e.slot[s]
           f == [e EXCEPT !.slot[s] = Stamp([slot EXCEPT !.next = t])]
           q == IF slot.next = t THEN << >> ELSE <<NextRec(s, slot)>>
           r == Result(f, "OK", q)
<1>1. \/ \E err : SetNext(e, s, t) = Refuse(e, err)
      \/ SetNext(e, s, t) = r
  BY DEF SetNext
<1>2. IsDb(f) /\ SameMeta(e, f)
  BY SlotStored
<1>3. IsRecs(q)
  BY RecKinds, OneRec, NoRecs
<1> HIDE DEF f, q, slot
<1>4. Tracked(e, r)
  BY <1>2, <1>3, ResultTracked
<1> HIDE DEF r
<1> QED BY <1>1, <1>4, RefuseTracked

(* ef_write_payload is tracked.                                            *)
LEMMA PayloadTracked ==
  ASSUME NEW e, IsDb(e), NEW s, NEW payload
  PROVE Tracked(e, WritePayload(e, s, payload))
<1> DEFINE slot == e.slot[s]
           c == IF slot.status = "FREE" THEN ClaimSlot(e, s) ELSE Refuse(e, "OK")
           f == [c.db EXCEPT !.slot[s] = Stamp([@ EXCEPT !.payload = payload, !.status = "USED"])]
           q == <<IF slot.status = "FREE" THEN StatusRec(s, slot) ELSE PayloadRec(s, slot)>>
           r == [Result(f, "OK", q) EXCEPT !.marked = c.marked]
<1>1. \/ \E err : WritePayload(e, s, payload) = Refuse(e, err)
      \/ WritePayload(e, s, payload) \in {c, r}
  BY DEF WritePayload
<1>2. Tracked(e, c)
  BY ClaimTracked, RefuseTracked
<1>3. IsRecs(q)
  BY RecKinds, OneRec
<1> HIDE DEF c, q, slot
<1>4. IsDb(f) /\ SameMeta(c.db, f)
  BY <1>2, TrackedParts DEF IsDb, DbFields, SameMeta
<1> HIDE DEF f
<1>5. r.db = f /\ r.recs = q /\ r.marked = c.marked /\ DOMAIN r = ResFields
  BY DEF Result, ResFields
<1> HIDE DEF r
<1>6. r.marked = TRUE \/ SameMeta(e, f)
  BY <1>2, <1>4, <1>5, TrackedParts, SameMetaTrans
<1>7. Tracked(e, r)
  BY <1>3, <1>4, <1>5, <1>6, TrackedMade
<1> QED BY <1>1, <1>2, <1>7, RefuseTracked

(* ef_write_field is tracked.                                              *)
LEMMA FieldTracked ==
  ASSUME NEW e, IsDb(e), NEW s, NEW field, NEW slot, NEW junk
  PROVE Tracked(e, WriteField(e, s, field, slot, junk))
<1> DEFINE f == [e EXCEPT !.slot[s] = Stamp(slot)]
           q == IF field = "status" THEN <<[Rec("SLOT_PAYLOAD", s) EXCEPT !.first = junk]>>
                ELSE << >>
           r == Result(f, "OK", q)
<1>1. WriteField(e, s, field, slot, junk) \in {Refuse(e, "BAD_CHECKSUM"), r}
  BY DEF WriteField
<1>2. IsDb(f) /\ SameMeta(e, f)
  BY SlotStored
<1>3. IsRecs(q)
  <2>1. [Rec("SLOT_PAYLOAD", s) EXCEPT !.first = junk].kind \in Kinds
    BY DEF Rec, Kinds
  <2> QED BY <2>1, OneRec, NoRecs
<1> HIDE DEF f, q
<1>4. Tracked(e, r)
  BY <1>2, <1>3, ResultTracked
<1> HIDE DEF r
<1> QED BY <1>1, <1>4, RefuseTracked

(* ef_index_put and ef_index_remove are tracked.                           *)
LEMMA IndexTracked ==
  ASSUME NEW e, IsDb(e), NEW k, NEW s, NEW room, NEW txn
  PROVE Tracked(e, IndexPut(e, k, s, room, txn)) /\ Tracked(e, IndexRemove(e, k))
<1> DEFINE f == [e EXCEPT !.index[k] = s]
           p == <<KeyRec("INDEX_PUT", k, s)>>
           g == [e EXCEPT !.index[k] = 0]
           q == <<KeyRec("INDEX_REMOVE", k, e.index[k])>>
<1>1. IsDb(f) /\ IsDb(g)
  BY DEF IsDb, DbFields
<1>2. IsRecs(p) /\ IsRecs(q)
  BY RecKinds, OneRec, NoRecs
<1>3. \/ IndexPut(e, k, s, room, txn) \in {Marked(f, "OK", << >>), Marked(f, "OK", p)}
      \/ \E err : IndexPut(e, k, s, room, txn) = Refuse(e, err)
  BY DEF IndexPut
<1>4. IndexRemove(e, k) \in {Refuse(e, "NOT_FOUND"), Marked(g, "OK", q)}
  BY DEF IndexRemove
<1> HIDE DEF f, g, p, q
<1> QED BY <1>1, <1>2, <1>3, <1>4, NoRecs, MarkedTracked, RefuseTracked

-----------------------------------------------------------------------------
(* Writing a blob.                                                         *)

(* One turn of the loop of ef_write_blob keeps the result tracked.         *)
LEMMA WriteStepTracked ==
  ASSUME NEW e, NEW w, NEW data, NEW i, NEW room, NEW txn, Tracked(e, w)
  PROVE Tracked(e, WriteStep(w, data, i, room, txn))
<1> DEFINE a == AllocGrowing(w.db, room, txn)
           last == IF Len(data) < i + ChunkCap - 1 THEN Len(data) ELSE i + ChunkCap - 1
           ov == [EmptySlot EXCEPT !.status = "OVERFLOW", !.payload.rest = SubSeq(data, i, last)]
           fail == [w EXCEPT !.err = a.err, !.db = a.db, !.marked = @ \/ a.marked]
           go == [a EXCEPT !.db.slot[w.got] = Stamp([@ EXCEPT !.next = a.got]),
                           !.db.slot[a.got] = Stamp(ov),
                           !.recs = w.recs \o @]
<1>1. \/ WriteStep(w, data, i, room, txn) \in {w, fail}
      \/ WriteStep(w, data, i, room, txn) = go /\ a.err = "OK"
  BY DEF WriteStep
<1>2. DOMAIN w = ResFields /\ IsDb(w.db) /\ IsRecs(w.recs)
  BY TrackedParts
<1>3. w.marked = TRUE \/ SameMeta(e, w.db)
  BY TrackedParts
<1>4. Tracked(w.db, a)
  BY <1>2, AllocGrowingTracked
<1>5. a.err = "OK" => a.marked = TRUE
  <2>1. \A x : AllocSlot(x).err = "OK" => AllocSlot(x).marked = TRUE
    BY DEF AllocSlot, Refuse, Result, Marked
  <2>2. \A x : GrowSlots(x, room, txn).err = "OK" => GrowSlots(x, room, txn).marked = TRUE
    BY DEF GrowSlots, Refuse, Result, Marked
  <2>3. \A x : [AllocSlot(x) EXCEPT !.marked = TRUE].marked = TRUE
    BY DEF AllocSlot, Refuse, Result, Marked
  <2> QED BY <2>1, <2>2, <2>3 DEF AllocGrowing
<1> HIDE DEF a, ov
<1>6. DOMAIN a = ResFields /\ IsDb(a.db) /\ IsRecs(a.recs)
  BY <1>4, TrackedParts
<1>7. Tracked(e, fail)
  <2>1. DOMAIN fail = ResFields /\ fail.db = a.db /\ fail.recs = w.recs
    BY <1>2 DEF ResFields
  <2>2. w.marked = TRUE \/ a.marked = TRUE => fail.marked = TRUE
    BY <1>2 DEF ResFields
  <2>3. a.marked = TRUE \/ SameMeta(w.db, a.db)
    BY <1>4, TrackedParts
  <2> HIDE DEF fail
  <2>4. fail.marked = TRUE \/ SameMeta(e, fail.db)
    BY <1>3, <2>1, <2>2, <2>3, SameMetaTrans
  <2> QED BY <1>2, <1>6, <2>1, <2>4, TrackedMade
<1>8. ASSUME a.err = "OK" PROVE Tracked(e, go)
  <2>1. DOMAIN go = ResFields /\ go.marked = a.marked /\ go.recs = w.recs \o a.recs
    BY <1>6 DEF ResFields
  <2>2. IsDb(go.db)
    BY <1>6 DEF ResFields, IsDb, DbFields
  <2>3. IsRecs(w.recs \o a.recs)
    BY <1>2, <1>6, ConcatRecs
  <2> HIDE DEF go
  <2> QED BY <1>5, <1>8, <2>1, <2>2, <2>3, TrackedMade
<1> HIDE DEF fail, go
<1> QED BY <1>1, <1>7, <1>8

(* The function that WriteChain computes with.                             *)
PieceOf(k) == InlineCap + (k - 1) * ChunkCap + 1
IsLoop(w, start, data, room, txn, n) ==
  w = [k \in 0..n |-> IF k = 0 THEN start ELSE WriteStep(w[k - 1], data, PieceOf(k), room, txn)]

(* The loop of WriteChain is what its turns make of it.                    *)
LEMMA LoopExists ==
  ASSUME NEW start, NEW data, NEW room, NEW txn
  PROVE \A n \in Nat : \E w : IsLoop(w, start, data, room, txn, n)
<1> DEFINE Turn(x, k) == WriteStep(x, data, PieceOf(k), room, txn)
           S == {n \in Nat : \E w : IsLoop(w, start, data, room, txn, n)}
<1>0. \A w, n : IsLoop(w, start, data, room, txn, n) <=>
                w = [k \in 0..n |-> IF k = 0 THEN start ELSE Turn(w[k - 1], k)]
  BY DEF IsLoop
<1> HIDE DEF Turn
<1>1. 0 \in S
  <2> DEFINE w == [k \in 0..0 |-> start]
  <2>1. w = [k \in 0..0 |-> IF k = 0 THEN start ELSE Turn(w[k - 1], k)]
    OBVIOUS
  <2> HIDE DEF w
  <2> QED BY <1>0, <2>1
<1>2. ASSUME NEW n \in Nat, n \in S PROVE n + 1 \in S
  <2>1. PICK w : w = [k \in 0..n |-> IF k = 0 THEN start ELSE Turn(w[k - 1], k)]
    BY <1>0, <1>2
  <2> DEFINE v == [k \in 0..n + 1 |-> IF k = 0 THEN start ELSE Turn(w[k - 1], k)]
  <2>2. \A k \in 0..n : v[k] = w[k]
    BY <2>1
  <2>3. \A k \in 0..n + 1 : k # 0 => k - 1 \in 0..n
    OBVIOUS
  <2>4. v = [k \in 0..n + 1 |-> IF k = 0 THEN start ELSE Turn(v[k - 1], k)]
    BY <2>2, <2>3
  <2> HIDE DEF v
  <2> QED BY <1>0, <2>4
<1> HIDE DEF S
<1>3. \A n \in Nat : n \in S
  BY <1>1, <1>2, SetInduction
<1> QED BY <1>3 DEF S

(* After each turn the result is tracked, by induction over the turns.     *)
LEMMA LoopTracked ==
  ASSUME NEW e, NEW start, NEW data, NEW room, NEW txn, NEW n \in Nat, NEW w,
         IsLoop(w, start, data, room, txn, n), Tracked(e, start)
  PROVE Tracked(e, w[n])
<1> DEFINE S == {k \in 0..n : Tracked(e, w[k])}
<1>1. 0 \in S
  BY DEF IsLoop
<1>2. ASSUME NEW k \in 1..n, k - 1 \in S PROVE k \in S
  <2>1. w[k] = WriteStep(w[k - 1], data, PieceOf(k), room, txn)
    BY DEF IsLoop
  <2>2. Tracked(e, w[k])
    BY <1>2, <2>1, WriteStepTracked
  <2> QED BY <2>2
<1> HIDE DEF S
<1>3. n \in S
  BY <1>1, <1>2, BoundedInduction
<1> QED BY <1>3 DEF S

(* The chain that ef_write_blob writes, however long, is tracked.          *)
LEMMA WriteChainTracked ==
  ASSUME NEW e, IsDb(e), NEW s, NEW data, Len(data) \in Nat, NEW room, NEW txn
  PROVE Tracked(e, WriteChain(e, s, data, room, txn))
<1> DEFINE start == [Refuse(e, "OK") EXCEPT !.got = s]
           n == Len(data)
           w == CHOOSE v : IsLoop(v, start, data, room, txn, n)
<1>1. Tracked(e, start)
  <2>1. start.db = e /\ start.recs = << >> /\ DOMAIN start = ResFields
    BY DEF Refuse, Result, ResFields
  <2> HIDE DEF start
  <2> QED BY <2>1, NoRecs, SameMetaSelf, TrackedMade
<1>2. WriteChain(e, s, data, room, txn) = w[n]
  BY DEF WriteChain, IsLoop, PieceOf
<1> HIDE DEF start
<1>3. IsLoop(w, start, data, room, txn, n)
  BY LoopExists
<1> HIDE DEF w
<1> QED BY <1>1, <1>2, <1>3, LoopTracked

(* So is what ef_write_blob does when a slot cannot be allocated.          *)
LEMMA DropTracked ==
  ASSUME NEW e, NEW w, Tracked(e, w), NEW s
  PROVE Tracked(e, DropBlob(w, s))
<1> DEFINE r == ReleaseChain(w.db, s)
           z == [r.db EXCEPT !.slot[s].payload = ZeroPayload]
           f == StampSlot(z, s)
           drop == [w EXCEPT !.db = f, !.marked = @ \/ r.marked]
<1>1. DropBlob(w, s) = drop
  BY DEF DropBlob
<1>2. DOMAIN w = ResFields /\ IsDb(w.db) /\ IsRecs(w.recs)
  BY TrackedParts
<1>3. w.marked = TRUE \/ SameMeta(e, w.db)
  BY TrackedParts
<1>4. Tracked(w.db, r)
  BY <1>2, WalkChainTracked DEF ReleaseChain
<1> HIDE DEF r
<1>5. IsDb(r.db) /\ (r.marked = TRUE \/ SameMeta(w.db, r.db))
  BY <1>4, TrackedParts
<1>6. IsDb(z) /\ SameMeta(r.db, z)
  BY <1>5 DEF IsDb, DbFields, SameMeta
<1> HIDE DEF z
<1>7. IsDb(f) /\ SameMeta(r.db, f)
  BY <1>6, StampStored, SameMetaTrans
<1> HIDE DEF f
<1>8. DOMAIN drop = ResFields /\ drop.db = f /\ drop.recs = w.recs
  BY <1>2 DEF ResFields
<1>9. w.marked = TRUE \/ r.marked = TRUE => drop.marked = TRUE
  BY <1>2 DEF ResFields
<1> HIDE DEF drop
<1>10. drop.marked = TRUE \/ SameMeta(e, drop.db)
  BY <1>3, <1>5, <1>7, <1>8, <1>9, SameMetaTrans
<1> QED BY <1>1, <1>2, <1>7, <1>8, <1>10, TrackedMade

(* ef_write_blob is tracked.                                               *)
LEMMA BlobTracked ==
  ASSUME NEW e, IsDb(e), NEW s, NEW data, Len(data) \in Nat, NEW room, NEW txn
  PROVE Tracked(e, WriteBlob(e, s, data, room, txn))
<1> DEFINE claimed == IF e.slot[s].status = "FREE" THEN ClaimSlot(e, s) ELSE Refuse(e, "OK")
           busy == [claimed EXCEPT !.err = "SLOT_BUSY"]
           c == claimed.db
           r == IF txn THEN UnlinkChain(c, s) ELSE ReleaseChain(c, s)
           head == PayloadRec(s, r.db.slot[s])
           written == [r.db EXCEPT !.slot[s].payload = BlobHead(data)]
           w == WriteChain(written, s, data, room, txn)
           stamped == [w EXCEPT !.db = StampSlot(@, s)]
           end == IF w.err # "OK" THEN DropBlob(w, s) ELSE stamped
           held == [r EXCEPT !.marked = @ \/ claimed.marked]
           last == [end EXCEPT !.recs = <<head>> \o @, !.got = 0,
                               !.marked = @ \/ claimed.marked \/ r.marked]
<1>1. WriteBlob(e, s, data, room, txn) \in {Refuse(e, "BAD_CHECKSUM"), claimed, busy, held, last}
  BY DEF WriteBlob
<1>2. Tracked(e, claimed)
  BY ClaimTracked, RefuseTracked
<1>3. IsDb(c) /\ (claimed.marked = TRUE \/ SameMeta(e, c))
  BY <1>2, TrackedParts
<1> HIDE DEF claimed
<1>4. Tracked(e, busy)
  <2>1. DOMAIN claimed = ResFields /\ IsRecs(claimed.recs)
    BY <1>2, TrackedParts
  <2>2. DOMAIN busy = ResFields /\ busy.db = c /\ busy.recs = claimed.recs
        /\ busy.marked = claimed.marked
    BY <2>1 DEF ResFields
  <2> HIDE DEF busy, c
  <2> QED BY <1>3, <2>1, <2>2, TrackedMade
<1> HIDE DEF busy
<1>5. Tracked(c, r)
  BY <1>3, WalkChainTracked DEF UnlinkChain, ReleaseChain
<1> HIDE DEF r, c
<1>6. DOMAIN r = ResFields /\ IsDb(r.db) /\ IsRecs(r.recs) /\ (r.marked = TRUE \/ SameMeta(c, r.db))
  BY <1>5, TrackedParts
<1>7. IsDb(written) /\ SameMeta(r.db, written)
  BY <1>6 DEF IsDb, DbFields, SameMeta
<1> HIDE DEF written
<1>8. Tracked(written, w)
  BY <1>7, WriteChainTracked
<1> HIDE DEF w
<1>9. Tracked(written, stamped)
  <2>1. DOMAIN w = ResFields /\ IsDb(w.db) /\ IsRecs(w.recs)
        /\ (w.marked = TRUE \/ SameMeta(written, w.db))
    BY <1>8, TrackedParts
  <2>2. IsDb(StampSlot(w.db, s)) /\ SameMeta(w.db, StampSlot(w.db, s))
    BY <2>1, StampStored
  <2>3. stamped.db = StampSlot(w.db, s) /\ DOMAIN stamped = ResFields
        /\ stamped.recs = w.recs /\ stamped.marked = w.marked
    BY <2>1 DEF ResFields
  <2> HIDE DEF stamped
  <2> QED BY <2>1, <2>2, <2>3, SameMetaTrans, TrackedMade
<1> HIDE DEF stamped
<1>10. Tracked(written, end)
  BY <1>8, <1>9, DropTracked
<1> HIDE DEF end
<1>11. Tracked(e, held)
  <2>1. DOMAIN held = ResFields /\ held.db = r.db /\ held.recs = r.recs
    BY <1>6 DEF ResFields
  <2>2. r.marked = TRUE \/ claimed.marked = TRUE => held.marked = TRUE
    BY <1>6 DEF ResFields
  <2> HIDE DEF held
  <2>3. held.marked = TRUE \/ SameMeta(e, held.db)
    BY <1>3, <1>6, <2>1, <2>2, SameMetaTrans
  <2> QED BY <1>6, <2>1, <2>3, TrackedMade
<1>12. Tracked(e, last)
  <2>1. DOMAIN end = ResFields /\ IsDb(end.db) /\ IsRecs(end.recs)
        /\ (end.marked = TRUE \/ SameMeta(written, end.db))
    BY <1>10, TrackedParts
  <2>2. DOMAIN last = ResFields /\ last.db = end.db /\ last.recs = <<head>> \o end.recs
    BY <2>1 DEF ResFields
  <2>3. end.marked = TRUE \/ claimed.marked = TRUE \/ r.marked = TRUE => last.marked = TRUE
    BY <2>1 DEF ResFields
  <2>4. IsRecs(<<head>>)
    BY RecKinds, OneRec
  <2> HIDE DEF last, head
  <2>5. IsRecs(last.recs)
    BY <2>1, <2>2, <2>4, ConcatRecs
  <2>6. last.marked = TRUE \/ SameMeta(e, written)
    BY <1>3, <1>6, <1>7, <2>3, SameMetaTrans
  <2>7. last.marked = TRUE \/ SameMeta(e, last.db)
    BY <2>1, <2>2, <2>3, <2>6, SameMetaTrans
  <2> QED BY <2>1, <2>2, <2>5, <2>7, TrackedMade
<1> HIDE DEF held, last
<1> QED BY <1>1, <1>2, <1>4, <1>11, <1>12, RefuseTracked

-----------------------------------------------------------------------------
(* The queue, the rebuilding of the free list and the inverses of records. *)

(* ef_queue_dummy_offset keeps the shape of the database.                  *)
LEMMA DummyShape ==
  ASSUME NEW e, IsDb(e)
  PROVE IsRes(QueueDummy(e))
<1> DEFINE a == AllocSlot(e)
           s == a.got
           back == [a EXCEPT !.db = ReturnSlot(a.db, s)]
           made == [a EXCEPT !.db.slot[s] = Stamp([EmptySlot EXCEPT !.status = "QUEUE_DUMMY"]),
                             !.db.qhead = s, !.db.qtail = s]
<1>1. QueueDummy(e) \in {Refuse(e, "OK"), a, back, made}
  BY DEF QueueDummy
<1>2. DOMAIN a = ResFields /\ IsDb(a.db) /\ IsRecs(a.recs)
  BY AllocTracked, TrackedParts
<1> HIDE DEF a
<1>3. IsRes(back)
  <2>1. DOMAIN back = ResFields /\ back.db = ReturnSlot(a.db, s) /\ back.recs = a.recs
    BY <1>2 DEF ResFields
  <2> HIDE DEF back
  <2> QED BY <1>2, <2>1, SlotReturned DEF IsRes
<1>4. IsRes(made)
  <2>1. DOMAIN made = ResFields /\ IsDb(made.db) /\ made.recs = a.recs
    BY <1>2 DEF ResFields, IsDb, DbFields
  <2> HIDE DEF made
  <2> QED BY <1>2, <2>1 DEF IsRes
<1>5. IsRes(a)
  BY <1>2 DEF IsRes
<1>6. IsRes(Refuse(e, "OK"))
  BY RefuseTracked DEF Tracked
<1> HIDE DEF back, made
<1> QED BY <1>1, <1>3, <1>4, <1>5, <1>6

(* ef_queue_enqueue_mpmc is tracked.                                       *)
LEMMA PushTracked ==
  ASSUME NEW e, IsDb(e), NEW v, NEW room, NEW txn
  PROVE Tracked(e, QueuePush(e, v, room, txn))
<1> DEFINE a == AllocGrowing(e, room, txn)
           n == a.got
           b == [a.db EXCEPT !.slot[n].payload.first = <<0, v>>]
           q == QueueDummy(b)
           node == [q.db EXCEPT !.slot[n] = Stamp([@ EXCEPT !.next = 0, !.status = "QUEUED"])]
           t == node.qtail
           recs == a.recs \o q.recs
           linked == [node EXCEPT !.slot[t] = Stamp([@ EXCEPT !.next = n]), !.qtail = n]
           more == Append(recs, PushRec(n, node.slot[t].next))
<1>1. QueuePush(e, v, room, txn) \in
        {a, Marked(ReturnSlot(q.db, n), q.err, recs), Marked(ReturnSlot(node, n), "OFFSET", recs),
         Marked(linked, "OK", more)}
  BY DEF QueuePush
<1>2. Tracked(e, a)
  BY AllocGrowingTracked
<1> HIDE DEF a
<1>3. IsDb(a.db) /\ IsRecs(a.recs)
  BY <1>2, TrackedParts
<1>4. IsDb(b)
  BY <1>3 DEF IsDb, DbFields
<1> HIDE DEF b
<1>5. IsDb(q.db) /\ IsRecs(q.recs)
  BY <1>4, DummyShape DEF IsRes
<1> HIDE DEF q
<1>6. IsDb(node)
  BY <1>5 DEF IsDb, DbFields
<1>7. IsRecs(recs)
  BY <1>3, <1>5, ConcatRecs
<1> HIDE DEF node, recs
<1>8. IsDb(linked)
  BY <1>6 DEF IsDb, DbFields
<1>9. IsRecs(more)
  <2> DEFINE x == PushRec(n, node.slot[t].next)
  <2>1. x.kind \in Kinds
    BY RecKinds
  <2> HIDE DEF x
  <2>2. PICK m \in Nat : DOMAIN recs = 1..m /\ \A i \in 1..m : recs[i].kind \in Kinds
    BY <1>7 DEF IsRecs
  <2>3. DOMAIN Append(recs, x) = 1..(m + 1) /\ m + 1 \in Nat
    BY <2>2
  <2>4. \A i \in 1..(m + 1) : Append(recs, x)[i] = IF i <= m THEN recs[i] ELSE x
    BY <2>2
  <2>5. IsRecs(Append(recs, x))
    BY <2>1, <2>2, <2>3, <2>4 DEF IsRecs
  <2> QED BY <2>5 DEF x
<1> HIDE DEF linked, more, t, n
<1>10. IsDb(ReturnSlot(q.db, n)) /\ IsDb(ReturnSlot(node, n))
  BY <1>5, <1>6, SlotReturned
<1> QED BY <1>1, <1>2, <1>7, <1>8, <1>9, <1>10, MarkedTracked

(* ef_queue_dequeue_mpmc is tracked.                                       *)
LEMMA PopTracked ==
  ASSUME NEW e, IsDb(e)
  PROVE Tracked(e, QueuePop(e))
<1> DEFINE f == e.slot[e.qhead].next
           next == e.slot[f].next
           popped == [e EXCEPT !.slot[e.qhead] = Stamp([@ EXCEPT !.next = next]),
                               !.qtail = IF @ # f THEN @ ELSE IF next # 0 THEN next ELSE e.qhead]
           recs == <<PopRec(f, next, e.qtail)>>
<1>1. \/ \E err : QueuePop(e) = Refuse(e, err)
      \/ QueuePop(e) = Marked(ReturnSlot(popped, f), "OK", recs)
  BY DEF QueuePop
<1>2. IsRecs(recs)
  BY RecKinds, OneRec
<1>3. IsDb(popped)
  BY DEF IsDb, DbFields
<1> HIDE DEF popped, recs, f
<1>4. IsDb(ReturnSlot(popped, f))
  BY <1>3, SlotReturned
<1> QED BY <1>1, <1>2, <1>4, RefuseTracked, MarkedTracked

(* ef_rebuild_free_list keeps the shape of the database.                   *)
LEMMA RebuildShape ==
  ASSUME NEW e, IsDb(e)
  PROVE IsDb(RebuildFreeList(e))
<1>1. ASSUME NEW f, IsDb(f) PROVE IsDb(RefreshChecksums(f))
  <2>1. PICK n \in Nat : DOMAIN f.slot = 1..n
    BY <1>1 DEF IsDb
  <2>2. Size(f) = n
    BY <2>1 DEF Size
  <2>3. DOMAIN RefreshChecksums(f) = DbFields /\ DOMAIN RefreshChecksums(f).slot = 1..n
    BY <1>1, <2>2 DEF RefreshChecksums, IsDb, DbFields
  <2> QED BY <2>3 DEF IsDb
<1> DEFINE free == {s \in 1..Size(e) : e.slot[s].status = "FREE"}
           first(set) == IF set = {} THEN 0 ELSE Min(set)
           slots == [s \in 1..Size(e) |-> IF s \in free
                                          THEN [e.slot[s] EXCEPT !.next = first({t \in free : t > s})]
                                          ELSE e.slot[s]]
           f == [e EXCEPT !.slot = slots, !.head = first(free), !.count = Cardinality(free)]
<1>2. RebuildFreeList(e) = RefreshChecksums(f)
  BY DEF RebuildFreeList
<1>3. DOMAIN slots = 1..Size(e) /\ Size(e) \in Nat
  BY DEF IsDb, Size
<1> HIDE DEF slots, free, first
<1>4. IsDb(f)
  BY <1>3 DEF IsDb, DbFields
<1> HIDE DEF f
<1> QED BY <1>1, <1>2, <1>4

(* Undoing a record (ef_undo_replay_reverse) keeps the shape of the        *)
(* database.                                                               *)
LEMMA UndoShape ==
  ASSUME NEW e, IsDb(e), NEW r, r.kind \in Kinds, NEW more
  PROVE IsDb(UndoRecord(e, r, more))
<1>1. CASE r.kind = "SLOT_STATUS"
  BY <1>1 DEF UndoRecord, RestoreStatus, IsDb, DbFields
<1>2. CASE r.kind = "SLOT_NEXT"
  BY <1>2 DEF UndoRecord, RestoreNext, IsDb, DbFields
<1>3. CASE r.kind = "SLOT_PAYLOAD"
  BY <1>3 DEF UndoRecord, IsDb, DbFields
<1>4. CASE r.kind = "SLOT_ALLOC"
  BY <1>4 DEF UndoRecord, RestoreAlloc, IsDb, DbFields
<1>5. CASE r.kind = "SLOT_FREE"
  BY <1>5 DEF UndoRecord, RestoreFree, IsDb, DbFields
<1>6. CASE r.kind = "INDEX_PUT"
  BY <1>6, IndexCleared DEF UndoRecord
<1>7. CASE r.kind = "INDEX_REMOVE"
  BY <1>7 DEF UndoRecord, IsDb, DbFields
<1>8. CASE r.kind = "QUEUE_PUSH"
  <2> DEFINE s == r.slot
             saved == r.next
             u == IF saved = 0
                  THEN [e EXCEPT !.slot[e.qhead] = [@ EXCEPT !.next = 0, !.crc = OtherSum]]
                  ELSE [e EXCEPT !.slot[saved] = Stamp([@ EXCEPT !.next = 0])]
             v == [u EXCEPT !.qtail = saved, !.slot[s] = Stamp([@ EXCEPT !.status = "USED"])]
  <2>1. UndoRecord(e, r, more) = RestorePush(e, s, saved)
    BY <1>8 DEF UndoRecord
  <2>2. RestorePush(e, s, saved) \in {e, v}
    BY DEF RestorePush
  <2>3. IsDb(u)
    BY DEF IsDb, DbFields
  <2> HIDE DEF u
  <2>4. IsDb(v)
    BY <2>3 DEF IsDb, DbFields
  <2> HIDE DEF v
  <2> QED BY <2>1, <2>2, <2>4
<1>9. CASE r.kind = "QUEUE_POP"
  BY <1>9 DEF UndoRecord, RestorePop, IsDb, DbFields
<1>10. CASE r.kind = "FREE_COUNT"
  BY <1>10 DEF UndoRecord, IsDb, DbFields
<1> QED BY <1>1, <1>2, <1>3, <1>4, <1>5, <1>6, <1>7, <1>8, <1>9, <1>10 DEF Kinds

-----------------------------------------------------------------------------
(* Between calls the superblock is marked dirty or has its checksum; for   *)
(* that the database and the log keep their shapes.                        *)

Shapes == IsDb(d) /\ IsRecs(log) /\ IsRecs(todo)
InLog == pc \in {"abort", "recover"} => pos \in Nat /\ pos <= Len(log)
Summed == pc \in {"idle", "spoiled", "record"} => dirty \/ sum = Superblock

MetaInv == Shapes /\ InLog /\ Summed

(* Every call ends with a result that is tracked.                          *)
LEMMA ApiCallTracked ==
  ASSUME IsDb(d), ApiCall
  PROVE \E r, label : Tracked(d, r) /\ (Finish(r, label) \/ RecordLater(r, label))
<1> DEFINE Goal == \E r, label : Tracked(d, r) /\ (Finish(r, label) \/ RecordLater(r, label))
<1>0. \A r, label : Tracked(d, r) /\ (Finish(r, label) \/ RecordLater(r, label)) => Goal
  OBVIOUS
<1> HIDE DEF Goal
<1>1. ASSUME Alloc PROVE Goal
  <2>1. PICK label : RecordLater(AllocSlot(d), label)
    BY <1>1 DEF Alloc
  <2> QED BY <1>0, <2>1, AllocTracked
<1>2. ASSUME NEW s, Free(s) PROVE Goal
  <2>1. PICK label : Finish(FreeSlot(d, s), label)
    BY <1>2 DEF Free
  <2> QED BY <1>0, <2>1, FreeTracked
<1>3. ASSUME NEW s, Status(s) PROVE Goal
  <2>1. PICK label : Finish(SetStatus(d, s, "USED"), label)
    BY <1>3 DEF Status
  <2> QED BY <1>0, <2>1, StatusTracked
<1>4. ASSUME NEW s, NEW t, Link(s, t) PROVE Goal
  <2>1. PICK label : Finish(SetNext(d, s, t), label)
    BY <1>4 DEF Link
  <2> QED BY <1>0, <2>1, NextTracked
<1>5. ASSUME NEW s, NEW v, NEW op, Write(s, v, op) PROVE Goal
  <2>1. PICK payload, label : \/ Finish(WritePayload(d, s, payload), label)
                              \/ RecordLater(WritePayload(d, s, payload), label)
    BY <1>5 DEF Write
  <2> QED BY <1>0, <2>1, PayloadTracked
<1>6. ASSUME NEW s, NEW v, WriteByte(s, v) PROVE Goal
  <2>1. PICK field, slot : Finish(WriteField(d, s, field, slot, <<1, v>>), "field")
    BY <1>6 DEF WriteByte
  <2> QED BY <1>0, <2>1, FieldTracked
<1>7. ASSUME NEW s, NEW v, Blob(s, v) PROVE Goal
  <2> DEFINE data == [i \in 1..InlineCap + 1 |-> v]
  <2>1. PICK label : Finish(WriteBlob(d, s, data, NumSlots + Growth, active), label)
    BY <1>7 DEF Blob
  <2>2. Len(data) \in Nat
    BY CapAssumption
  <2> HIDE DEF data
  <2> QED BY <1>0, <2>1, <2>2, BlobTracked
<1>8. ASSUME NEW v, Push(v) PROVE Goal
  <2>1. PICK label : RecordLater(QueuePush(d, v, NumSlots + Growth, active), label)
    BY <1>8 DEF Push
  <2> QED BY <1>0, <2>1, PushTracked
<1>9. ASSUME Pop PROVE Goal
  <2>1. PICK label : Finish(QueuePop(d), label)
    BY <1>9 DEF Pop
  <2> QED BY <1>0, <2>1, PopTracked
<1>10. ASSUME NEW k, NEW s, NEW room, Put(k, s, room) PROVE Goal
  <2>1. PICK label : RecordLater(IndexPut(d, k, s, room, active), label)
    BY <1>10 DEF Put
  <2> QED BY <1>0, <2>1, IndexTracked
<1>11. ASSUME NEW k, Remove(k) PROVE Goal
  <2>1. PICK label : RecordLater(IndexRemove(d, k), label)
    BY <1>11 DEF Remove
  <2> QED BY <1>0, <2>1, IndexTracked
<1>12. Goal
  BY <1>1, <1>2, <1>3, <1>4, <1>5, <1>6, <1>7, <1>8, <1>9, <1>10, <1>11 DEF ApiCall
<1> QED BY <1>12 DEF Goal

(* What the undo log takes of the records of a call are records.           *)
LEMMA FitsRecs ==
  ASSUME NEW q, IsRecs(q), IsRecs(log)
  PROVE IsRecs(Fits(q)) /\ IsRecs(log \o Fits(q))
<1>1. Len(q) \in Nat /\ Len(log) \in Nat
  BY DEF IsRecs
<1> DEFINE n == IF LogSlots < Len(log) + Len(q) THEN LogSlots - Len(log) ELSE Len(q)
<1>2. n \in Int /\ n <= Len(q)
  BY <1>1, TxnAssumption
<1>3. Fits(q) = SubSeq(q, 1, n)
  BY DEF Fits
<1> HIDE DEF n
<1>4. IsRecs(Fits(q))
  BY <1>2, <1>3, SubRecs
<1> QED BY <1>4, ConcatRecs

(* The fields that the checksum covers.                                    *)
LEMMA SuperblockKept ==
  ASSUME IsDb(d), SameMeta(d, d'), UNCHANGED <<lock, state>>
  PROVE Superblock' = Superblock
<1>1. PICK n \in Nat : DOMAIN d.slot = 1..n
  BY DEF IsDb
<1>2. DOMAIN d'.slot = 1..n
  BY <1>1 DEF SameMeta
<1>3. Size(d') = Size(d)
  BY <1>1, <1>2 DEF Size
<1> QED BY <1>3 DEF Superblock, SuperblockOf, SameMeta

(* The calls of the API keep MetaInv.                                      *)
LEMMA ApiCallMeta ==
  ASSUME MetaInv, ApiCall
  PROVE MetaInv'
<1>1. PICK r, label : Tracked(d, r) /\ (Finish(r, label) \/ RecordLater(r, label))
  BY ApiCallTracked DEF MetaInv, Shapes
<1>2. pc = "idle"
  BY ApiCallEnds
<1>3. IsDb(r.db) /\ IsRecs(r.recs) /\ (r.marked = TRUE \/ SameMeta(d, r.db))
  BY <1>1, TrackedParts
<1>4. d' = r.db /\ UNCHANGED <<lock, state, sum>>
  BY <1>1 DEF Finish, RecordLater
<1>5. pc' \in {"idle", "record"}
  BY <1>1, <1>2 DEF Finish, RecordLater, Goto
<1>6. dirty \/ r.marked = TRUE => dirty'
  BY <1>1 DEF Finish, RecordLater
<1>7. IsRecs(log') /\ IsRecs(todo')
  <2>1. CASE Finish(r, label)
    BY <2>1, <1>3, FitsRecs DEF Finish, Append_, MetaInv, Shapes
  <2>2. CASE RecordLater(r, label)
    BY <2>2, <1>3, NoRecs DEF RecordLater, MetaInv, Shapes
  <2> QED BY <1>1, <2>1, <2>2
<1>8. Shapes'
  BY <1>3, <1>4, <1>7 DEF Shapes
<1>9. Summed'
  <2>1. dirty \/ sum = Superblock
    BY <1>2 DEF MetaInv, Summed
  <2>2. SameMeta(d, d') => Superblock' = Superblock
    BY <1>4, SuperblockKept DEF MetaInv, Shapes
  <2> QED BY <1>3, <1>4, <1>6, <2>1, <2>2 DEF Summed
<1> QED BY <1>5, <1>8, <1>9 DEF MetaInv, InLog

(* The late record of a call, ef_grow and ef_sync keep MetaInv.            *)
LEMMA PlainMeta ==
  ASSUME MetaInv, Record \/ Grow \/ Sync
  PROVE MetaInv'
<1> USE DEF MetaInv
<1>1. CASE Record
  <2>1. pc = "record" /\ pc' = "idle" /\ todo' = << >> /\ UNCHANGED <<d, lock, state, sum>>
    BY <1>1 DEF Record, Goto
  <2>2. log' = IF active THEN log \o Fits(todo) ELSE log
    BY <1>1 DEF Record, Append_
  <2>3. dirty => dirty'
    BY <1>1 DEF Record
  <2>4. Superblock' = Superblock
    BY <2>1 DEF Superblock, SuperblockOf
  <2>5. Shapes'
    BY <2>1, <2>2, FitsRecs, NoRecs DEF Shapes
  <2> QED BY <2>1, <2>3, <2>4, <2>5 DEF InLog, Summed
<1>2. CASE Grow
  <2> DEFINE r == GrowSlots(d, NumSlots + Growth, active)
  <2>1. pc = "idle" /\ pc' = "idle" /\ d' = r.db /\ UNCHANGED <<lock, state, sum, log, todo>>
    BY <1>2 DEF Grow, Call, Called
  <2>2. dirty \/ r.marked => dirty'
    BY <1>2 DEF Grow
  <2>3. Tracked(d, r)
    BY GrowTracked DEF Shapes
  <2> HIDE DEF r
  <2>4. IsDb(r.db) /\ (r.marked = TRUE \/ SameMeta(d, r.db))
    BY <2>3, TrackedParts
  <2>5. SameMeta(d, d') => Superblock' = Superblock
    BY <2>1, SuperblockKept DEF Shapes
  <2>6. Shapes'
    BY <2>1, <2>4 DEF Shapes
  <2>7. Summed'
    BY <2>1, <2>2, <2>4, <2>5 DEF Summed
  <2> QED BY <2>1, <2>6, <2>7 DEF InLog
<1>3. CASE Sync
  <2>1. pc = "idle" /\ pc' = "idle" /\ UNCHANGED <<d, lock, state, log, todo>>
    BY <1>3 DEF Sync, Call, Called
  <2>2. sum' = IF dirty THEN Superblock ELSE sum
    BY <1>3 DEF Sync, CommitMeta
  <2>3. Superblock' = Superblock
    BY <2>1 DEF Superblock, SuperblockOf
  <2> QED BY <2>1, <2>2, <2>3 DEF Shapes, InLog, Summed
<1> QED BY <1>1, <1>2, <1>3

(* ef_undo_reset leaves an empty log.                                      *)
LEMMA ResetLogShapes ==
  ASSUME Shapes, ResetLog, todo' = todo
  PROVE Shapes'
<1> DEFINE slots == [s \in 1..Size(d) |-> IF s > base THEN EmptySlot ELSE d.slot[s]]
<1>1. log' = << >> /\ d' = [d EXCEPT !.slot = slots]
  BY DEF ResetLog
<1>2. DOMAIN slots = 1..Size(d) /\ Size(d) \in Nat
  BY DEF Shapes, IsDb, Size
<1> HIDE DEF slots
<1>3. IsDb(d')
  BY <1>1, <1>2 DEF Shapes, IsDb, DbFields
<1> QED BY <1>1, <1>3, NoRecs DEF Shapes

(* Begin, commit and abort.                                                *)
LEMMA TxnMeta ==
  ASSUME MetaInv, \/ Begin \/ BeginActive \/ BeginReset \/ Commit \/ EndState \/ EndUnlock
                  \/ Abort \/ ReplayRecord \/ AbortReset
  PROVE MetaInv'
<1> USE DEF MetaInv, Goto
<1>1. CASE Begin
  BY <1>1 DEF Begin, Shapes, InLog, Summed
<1>2. CASE BeginActive
  BY <1>2 DEF BeginActive, Shapes, InLog, Summed
<1>3. CASE BeginReset
  <2>1. Shapes'
    BY <1>3, ResetLogShapes DEF BeginReset
  <2>2. pc' \in {"idle", "spoiled"} /\ dirty'
    BY <1>3 DEF BeginReset
  <2> QED BY <2>1, <2>2 DEF InLog, Summed
<1>4. CASE Commit
  <2>1. Shapes'
    BY <1>4, ResetLogShapes DEF Commit
  <2>2. pc' = "end"
    BY <1>4 DEF Commit
  <2> QED BY <2>1, <2>2 DEF InLog, Summed
<1>5. CASE EndState
  BY <1>5 DEF EndState, Shapes, InLog, Summed
<1>6. CASE EndUnlock
  BY <1>6 DEF EndUnlock, Shapes, InLog, Summed
<1>7. CASE Abort
  <2>1. pc' = "abort" /\ pos' = Len(log) /\ UNCHANGED <<d, log, todo>>
    BY <1>7 DEF Abort
  <2>2. Len(log) \in Nat
    BY DEF Shapes, IsRecs
  <2> QED BY <2>1, <2>2 DEF Shapes, InLog, Summed
<1>8. CASE ReplayRecord
  <2>1. pc \in {"abort", "recover"} /\ pos > 0 /\ pos' = pos - 1 /\ UNCHANGED <<log, pc, todo>>
    BY <1>8 DEF ReplayRecord
  <2>2. d' = UndoRecord(d, log[pos], pos < Len(log))
    BY <1>8 DEF ReplayRecord
  <2>3. pos \in Nat /\ pos <= Len(log)
    BY <2>1 DEF InLog
  <2>4. log[pos].kind \in Kinds
    BY <2>1, <2>3 DEF Shapes, IsRecs
  <2>5. IsDb(d')
    BY <2>2, <2>4, UndoShape DEF Shapes
  <2>6. pos - 1 \in Nat /\ pos - 1 <= Len(log)
    BY <2>1, <2>3 DEF Shapes, IsRecs
  <2> QED BY <2>1, <2>5, <2>6 DEF Shapes, InLog, Summed
<1>9. CASE AbortReset
  <2>1. Shapes'
    BY <1>9, ResetLogShapes DEF AbortReset
  <2>2. pc' = "end"
    BY <1>9 DEF AbortReset
  <2> QED BY <2>1, <2>2 DEF InLog, Summed
<1> QED BY <1>1, <1>2, <1>3, <1>4, <1>5, <1>6, <1>7, <1>8, <1>9

(* A new file has MetaInv.                                                 *)
LEMMA NewFileMeta ==
  /\ IsDb(NewDb)
  /\ NewSum = [slots |-> Size(NewDb), head |-> NewDb.head, count |-> NewDb.count,
               qhead |-> NewDb.qhead, qtail |-> NewDb.qtail, lock |-> 0, state |-> "NONE"]
<1> DEFINE slots == [s \in 1..NumSlots |->
                       [EmptySlot EXCEPT !.next = IF s < NumSlots THEN s + 1 ELSE 0]]
<1>1. NumSlots \in Nat
  BY TxnAssumption
<1>2. DOMAIN slots = 1..NumSlots
  OBVIOUS
<1>3. Len(slots) = NumSlots
  BY <1>1, <1>2
<1>4. NewDb = [slot |-> slots, head |-> 1, count |-> NumSlots, index |-> [k \in Keys |-> 0],
               qhead |-> 0, qtail |-> 0]
  BY DEF NewDb
<1> HIDE DEF slots
<1>5. DOMAIN NewDb = DbFields /\ NewDb.slot = slots /\ NewDb.head = 1 /\ NewDb.count = NumSlots
      /\ NewDb.qhead = 0 /\ NewDb.qtail = 0
  BY <1>4 DEF DbFields
<1>6. IsDb(NewDb)
  BY <1>1, <1>2, <1>5 DEF IsDb
<1> QED BY <1>3, <1>5, <1>6 DEF NewSum, Size

(* Closing, dying and opening.                                             *)
LEMMA OpenMeta ==
  ASSUME MetaInv, Close \/ Crash \/ Open \/ RecoverReset \/ RecoverState \/ Rebuild \/ NewFile
  PROVE MetaInv'
<1> USE DEF MetaInv, Goto
<1>1. CASE Close
  <2>1. pc' = "closed" /\ todo' = << >> /\ UNCHANGED <<d, log>>
    BY <1>1 DEF Close, NoHandle
  <2> QED BY <2>1, NoRecs DEF Shapes, InLog, Summed
<1>2. CASE Crash
  <2>1. pc' = "closed" /\ todo' = << >> /\ UNCHANGED <<d, log>>
    BY <1>2 DEF Crash, NoHandle, fileVars
  <2> QED BY <2>1, NoRecs DEF Shapes, InLog, Summed
<1>3. CASE Open
  <2>1. pc' \in {"recover", "rebuild"} /\ pos' = Len(log) /\ UNCHANGED <<d, log, todo>>
    BY <1>3 DEF Open, fileVars
  <2>2. Len(log) \in Nat
    BY DEF Shapes, IsRecs
  <2> QED BY <2>1, <2>2 DEF Shapes, InLog, Summed
<1>4. CASE RecoverReset
  BY <1>4, NoRecs DEF RecoverReset, Shapes, InLog, Summed
<1>5. CASE RecoverState
  BY <1>5 DEF RecoverState, Shapes, InLog, Summed
<1>6. CASE Rebuild
  <2>1. pc' = "idle" /\ d' = RebuildFreeList(d) /\ UNCHANGED <<lock, state, log, todo>>
    BY <1>6 DEF Rebuild
  <2>2. sum' = SuperblockOf(d')
    BY <1>6 DEF Rebuild
  <2>3. Superblock' = SuperblockOf(d')
    BY <2>1 DEF Superblock, SuperblockOf
  <2>4. IsDb(d')
    BY <2>1, RebuildShape DEF Shapes
  <2> QED BY <2>1, <2>2, <2>3, <2>4 DEF Shapes, InLog, Summed
<1>7. CASE NewFile
  <2>1. pc' = "idle" /\ todo' = todo /\ log' = << >>
    BY <1>7 DEF NewFile
  <2>2. d' = NewDb /\ lock' = 0 /\ state' = "NONE" /\ sum' = NewSum
    BY <1>7 DEF NewFile
  <2>3. IsDb(d') /\ sum' = Superblock'
    BY <2>2, NewFileMeta DEF Superblock, SuperblockOf
  <2> QED BY <2>1, <2>3, NoRecs DEF Shapes, InLog, Summed
<1> QED BY <1>1, <1>2, <1>3, <1>4, <1>5, <1>6, <1>7

(* MetaInv is an invariant: no call changes a field that the checksum of   *)
(* the superblock covers without a mark, chains of any length included.    *)
THEOREM MetaInvariant == Spec => []MetaInv
<1>1. Init => MetaInv
  <2> SUFFICES ASSUME Init PROVE MetaInv
    OBVIOUS
  <2>1. pc = "idle" /\ log = << >> /\ todo = << >>
    BY DEF Init
  <2>2. d = NewDb /\ lock = 0 /\ state = "NONE" /\ sum = NewSum
    BY DEF Init
  <2>3. IsDb(d) /\ sum = Superblock
    BY <2>2, NewFileMeta DEF Superblock, SuperblockOf
  <2> QED BY <2>1, <2>3, NoRecs DEF MetaInv, Shapes, InLog, Summed
<1>2. MetaInv /\ [Next]_vars => MetaInv'
  <2> SUFFICES ASSUME MetaInv, [Next]_vars PROVE MetaInv'
    OBVIOUS
  <2>1. CASE ApiCall
    BY <2>1, ApiCallMeta
  <2>2. CASE Record \/ Grow \/ Sync
    BY <2>2, PlainMeta
  <2>3. CASE \/ Begin \/ BeginActive \/ BeginReset \/ Commit \/ EndState \/ EndUnlock
             \/ Abort \/ ReplayRecord \/ AbortReset
    BY <2>3, TxnMeta
  <2>4. CASE Close \/ Crash \/ Open \/ RecoverReset \/ RecoverState \/ Rebuild \/ NewFile
    BY <2>4, OpenMeta
  <2>5. CASE UNCHANGED vars
    <3>1. UNCHANGED <<d, lock, state, sum, log, pc, dirty, pos, todo>>
      BY <2>5 DEF vars, fileVars, handleVars
    <3> QED BY <3>1 DEF MetaInv, Shapes, InLog, Summed, Superblock, SuperblockOf
  <2> QED BY <2>1, <2>2, <2>3, <2>4, <2>5 DEF Next, ApiCall
<1> QED BY <1>1, <1>2, PTL DEF Spec

(* Whatever changes the superblock also marks it dirty, so that ef_close   *)
(* and ef_sync leave a file that the next open accepts.                    *)
THEOREM DirtyTrackedTheorem == Spec => []DirtyTracked
<1>1. MetaInv => DirtyTracked
  BY DEF MetaInv, Summed, DirtyTracked
<1> QED BY <1>1, MetaInvariant, PTL
=============================================================================
