-------------------------- MODULE EfFreeListProofs --------------------------
(***************************************************************************)
(* Proofs about EfFreeList, for every number of threads and of slots.      *)
(***************************************************************************)
EXTENDS EfFreeList, FiniteSetTheorems, WellFoundedInduction, TLAPS

-----------------------------------------------------------------------------
(* What ef_rebuild_free_list builds.                                       *)

(* A non-empty set of naturals has a least element.                        *)
LEMMA LeastElement ==
  ASSUME NEW S \in SUBSET Nat, S # {}
  PROVE  Least(S) \in S /\ \A x \in S : Least(S) <= x
<1>1. \E m \in S : \A y \in S : ~ (<<y, m>> \in OpToRel(<, Nat))
  BY NatLessThanWellFounded, WFMin
<1>2. PICK m \in S : \A y \in S : ~ (<<y, m>> \in OpToRel(<, Nat))
  BY <1>1
<1>3. \A y \in S : m <= y
  <2> TAKE y \in S
  <2>1. m \in Nat /\ y \in Nat
    OBVIOUS
  <2>2. ~ (y < m)
    BY <1>2, <2>1 DEF OpToRel
  <2> QED
    BY <2>1, <2>2
<1> QED
  BY <1>3 DEF Least

(* The sets the rebuilt list is made of are finite.                        *)
LEMMA SlotsFinite ==
  /\ Slots \subseteq Nat \ {0}
  /\ IsFiniteSet(Slots)
  /\ Cardinality(Slots) = MaxSlots
  /\ \A F \in SUBSET Slots : IsFiniteSet(F) /\ Cardinality(F) \in Nat /\ Cardinality(F) <= MaxSlots
<1>1. IsFiniteSet(Slots) /\ Cardinality(Slots) = MaxSlots /\ Slots \subseteq Nat \ {0}
  BY MaxSlotsAssumption, FS_Interval DEF Slots
<1>2. ASSUME NEW F \in SUBSET Slots
      PROVE  IsFiniteSet(F) /\ Cardinality(F) \in Nat /\ Cardinality(F) <= MaxSlots
  BY <1>1, FS_Subset, FS_CardinalityType
<1> QED
  BY <1>1, <1>2

(* Linking the slots of F in the order of their ids gives a list of F: the *)
(* head is the highest, every link leads one down, the last link is Null.  *)
LEMMA RebuiltList ==
  ASSUME NEW F \in SUBSET Slots
  PROVE  /\ F = {} => LinkFrom(F, 0) = Null
         /\ F # {} => LinkFrom(F, 0) \in F /\ Height(F, LinkFrom(F, 0)) = Cardinality(F)
         /\ \A s \in Slots : Height(F, s) \in Nat /\ (s \in F <=> Height(F, s) > 0)
         /\ \A s \in F : Height(F, s) <= Cardinality(F)
         /\ \A s, r \in F : Height(F, s) = Height(F, r) => s = r
         /\ \A s \in F : IF Height(F, s) = 1 THEN LinkFrom(F, s) = Null
                         ELSE LinkFrom(F, s) \in F /\ Height(F, LinkFrom(F, s)) = Height(F, s) - 1
<1> USE DEF Null
<1>0. \A f \in F : f \in Nat /\ f > 0
  BY SlotsFinite
<1>1. \A s \in Nat : /\ Above(F, s) \in SUBSET Slots /\ Above(F, s) \subseteq F
                     /\ IsFiniteSet(Above(F, s)) /\ Cardinality(Above(F, s)) \in Nat
  BY SlotsFinite DEF Above
<1>2. ASSUME NEW s \in Nat, Above(F, s) # {}
      PROVE  /\ LinkFrom(F, s) \in F
             /\ Above(F, s) = Above(F, LinkFrom(F, s)) \cup {LinkFrom(F, s)}
             /\ Cardinality(Above(F, s)) = Cardinality(Above(F, LinkFrom(F, s))) + 1
  <2> DEFINE m == LinkFrom(F, s)
  <2>1. m \in Above(F, s) /\ \A x \in Above(F, s) : m <= x
    BY <1>1, <1>2, LeastElement, SlotsFinite DEF LinkFrom
  <2>2. m \in F /\ m \in Nat
    BY <2>1, <1>1, SlotsFinite
  <2>3. Above(F, s) = Above(F, m) \cup {m}
    <3>1. m > s
      BY <2>1 DEF Above
    <3>2. ASSUME NEW x \in F
          PROVE  x > s <=> x > m \/ x = m
      <4>1. x \in Nat
        BY <1>0
      <4>2. x > s => m <= x
        BY <2>1 DEF Above
      <4> HIDE DEF m
      <4> QED
        BY <2>2, <3>1, <4>1, <4>2
    <3> HIDE DEF m
    <3> QED
      BY <2>2, <3>2 DEF Above
  <2>4. m \notin Above(F, m)
    BY <2>2 DEF Above
  <2>5. IsFiniteSet(Above(F, m))
    BY <1>1, <2>2
  <2> HIDE DEF m
  <2>6. Cardinality(Above(F, m) \cup {m}) = Cardinality(Above(F, m)) + 1
    BY <2>4, <2>5, FS_AddElement
  <2> QED
    BY <2>2, <2>3, <2>6 DEF m
<1>3. \A s \in Slots : Height(F, s) \in Nat /\ (s \in F <=> Height(F, s) > 0)
  BY <1>1, SlotsFinite DEF Height
<1>4. ASSUME NEW s \in F
      PROVE  Height(F, s) <= Cardinality(F)
  <2>1. s \in Nat /\ s \notin Above(F, s)
    BY SlotsFinite DEF Above
  <2>2. Cardinality(Above(F, s) \cup {s}) = Cardinality(Above(F, s)) + 1
    BY <1>1, <2>1, FS_AddElement
  <2>3. Above(F, s) \cup {s} \in SUBSET F
    BY <1>1, <2>1
  <2>4. Cardinality(Above(F, s) \cup {s}) <= Cardinality(F)
    BY <2>3, SlotsFinite, FS_Subset
  <2> QED
    BY <2>2, <2>4 DEF Height
<1>5. ASSUME NEW s \in F, NEW r \in F, s < r
      PROVE  Height(F, s) # Height(F, r)
  <2>1. s \in Nat /\ r \in Nat
    BY SlotsFinite
  <2>2. Above(F, r) \in SUBSET Above(F, s)
    <3>1. \A x \in F : x > r => x > s
      BY <1>0, <1>5, <2>1
    <3> QED
      BY <3>1 DEF Above
  <2>3. Above(F, r) # Above(F, s)
    BY <1>5, <2>1 DEF Above
  <2>4. Cardinality(Above(F, r)) # Cardinality(Above(F, s))
    BY <1>1, <2>1, <2>2, <2>3, FS_Subset
  <2> QED
    BY <1>1, <2>1, <2>4 DEF Height
<1>6. \A s, r \in F : Height(F, s) = Height(F, r) => s = r
  <2> SUFFICES ASSUME NEW s \in F, NEW r \in F, Height(F, s) = Height(F, r)
               PROVE  s = r
    OBVIOUS
  <2>1. s \in Nat /\ r \in Nat
    BY SlotsFinite
  <2>2. ~(s < r) /\ ~(r < s)
    BY <1>5
  <2> QED
    BY <2>1, <2>2
<1>7. ASSUME NEW s \in F
      PROVE  IF Height(F, s) = 1 THEN LinkFrom(F, s) = Null
             ELSE LinkFrom(F, s) \in F /\ Height(F, LinkFrom(F, s)) = Height(F, s) - 1
  <2>1. s \in Nat
    BY SlotsFinite
  <2>2. CASE Above(F, s) = {}
    BY <2>2, FS_EmptySet DEF Height, LinkFrom
  <2>3. CASE Above(F, s) # {}
    <3>1. Cardinality(Above(F, s)) # 0
      BY <1>1, <2>1, <2>3, FS_EmptySet
    <3>2. /\ LinkFrom(F, s) \in F
          /\ Cardinality(Above(F, s)) = Cardinality(Above(F, LinkFrom(F, s))) + 1
      BY <1>2, <2>1, <2>3
    <3>3. LinkFrom(F, s) \in Nat
      BY <3>2, SlotsFinite
    <3>4. /\ Height(F, s) = Cardinality(Above(F, s)) + 1
          /\ Height(F, LinkFrom(F, s)) = Cardinality(Above(F, LinkFrom(F, s))) + 1
      BY <3>2 DEF Height
    <3>5. Cardinality(Above(F, LinkFrom(F, s))) \in Nat
      BY <1>1, <3>3
    <3>6. Cardinality(Above(F, s)) \in Nat
      BY <1>1, <2>1
    <3> QED
      BY <3>1, <3>2, <3>4, <3>5, <3>6
  <2> QED
    BY <2>2, <2>3
<1>8. Above(F, 0) = F
  BY <1>0 DEF Above
<1>9. F = {} => LinkFrom(F, 0) = Null
  BY <1>8 DEF LinkFrom
<1>10. F # {} => LinkFrom(F, 0) \in F /\ Height(F, LinkFrom(F, 0)) = Cardinality(F)
  <2> HAVE F # {}
  <2>1. LinkFrom(F, 0) \in F
    BY <1>2, <1>8
  <2>2. Cardinality(Above(F, 0)) = Cardinality(Above(F, LinkFrom(F, 0))) + 1
    BY <1>2, <1>8
  <2> QED
    BY <1>8, <2>1, <2>2 DEF Height
<1> QED
  BY <1>3, <1>4, <1>6, <1>7, <1>9, <1>10

-----------------------------------------------------------------------------
(* Facts used for every action.                                            *)

(* The list is a finite set of slots.                                      *)
LEMMA ListFacts ==
  /\ InList \in SUBSET Slots /\ IsFiniteSet(InList)
  /\ Depth \in Nat /\ Depth <= MaxSlots
  /\ InList = {} <=> Depth = 0
<1>1. InList \in SUBSET Slots
  BY DEF InList
<1>2. IsFiniteSet(InList) /\ Depth \in Nat /\ Depth <= MaxSlots
  BY <1>1, SlotsFinite DEF Depth
<1>3. InList = {} <=> Depth = 0
  BY <1>2, FS_EmptySet DEF Depth
<1> QED
  BY <1>1, <1>2, <1>3

(* The threads between two steps of a call are finitely many.              *)
LEMMA CountedFinite ==
  /\ IsFiniteSet(Popping) /\ Cardinality(Popping) \in Nat
  /\ IsFiniteSet(Pushing) /\ Cardinality(Pushing) \in Nat
<1>1. Popping \in SUBSET Threads /\ Pushing \in SUBSET Threads
  BY DEF Popping, Pushing
<1>2. IsFiniteSet(Popping) /\ IsFiniteSet(Pushing)
  BY <1>1, ThreadsAssumption, FS_Subset
<1> QED
  BY <1>2, FS_CardinalityType

(* A thread that is popping holds a slot that is not on the list, and only *)
(* one thread pops: there is room for one more than the list has.          *)
LEMMA Room ==
  ASSUME IInv
  PROVE  Depth + Cardinality(Popping) <= MaxSlots
<1>1. CASE Popping = {}
  BY <1>1, FS_EmptySet, ListFacts
<1>2. CASE Popping # {}
  <2>1. PICK t \in Popping : TRUE
    BY <1>2
  <2>2. t \in Threads /\ pc[t] \in {"pop_link", "pop_status", "pop_dec"}
    BY <2>1 DEF Popping
  <2>3. Popping = {t}
    BY <2>2 DEF Popping, IInv, LockExcludes, Locked, PopLabels
  <2>4. head[t] \in owned[t] /\ head[t] \in Slots /\ head[t] \notin InList
    BY <2>2 DEF IInv, PopReads, OwnedOnce, TypeOK
  <2>5. Cardinality(InList \cup {head[t]}) = Depth + 1
    BY <2>4, ListFacts, FS_AddElement DEF Depth
  <2>6. InList \cup {head[t]} \in SUBSET Slots
    BY <2>4, ListFacts
  <2>7. Cardinality(InList \cup {head[t]}) <= MaxSlots
    BY <2>6, SlotsFinite
  <2> QED
    BY <2>3, <2>5, <2>7, FS_Singleton
<1> QED
  BY <1>1, <1>2

(* Where no position changes, the list is the same.                        *)
LEMMA SameList ==
  ASSUME UNCHANGED pos
  PROVE  InList' = InList /\ Depth' = Depth
BY DEF InList, Depth

(* A step that moves one thread to a label outside both counting windows,  *)
(* or within the same one, leaves the counting windows alone.              *)
LEMMA SameWindows ==
  ASSUME TypeOK, NEW t \in Threads, NEW l, pc' = [pc EXCEPT ![t] = l],
         pc[t] \in {"pop_link", "pop_status", "pop_dec"} <=> l \in {"pop_link", "pop_status", "pop_dec"},
         pc[t] = "push_inc" <=> l = "push_inc"
  PROVE  Popping' = Popping /\ Pushing' = Pushing
BY DEF TypeOK, Popping, Pushing

(* Steps that change neither the list, its links, the counter, nor who     *)
(* holds what.                                                             *)
LEMMA Quiet ==
  ASSUME IInv, UNCHANGED <<free_list_head, free_count, next_offset, auxVars>>,
         Popping' = Popping, Pushing' = Pushing
  PROVE  OwnedOnce' /\ ListLinked' /\ CountExact'
<1>1. InList' = InList /\ Depth' = Depth
  BY SameList DEF auxVars
<1>2. OwnedOnce'
  BY <1>1 DEF IInv, OwnedOnce, auxVars
<1>3. ListLinked'
  BY <1>1 DEF IInv, ListLinked, auxVars
<1>4. CountExact'
  BY <1>1 DEF IInv, CountExact
<1> QED
  BY <1>2, <1>3, <1>4

-----------------------------------------------------------------------------
(* The invariant holds at the start.                                       *)
LEMMA InitInv == Init => IInv
<1> SUFFICES ASSUME Init PROVE IInv
  OBVIOUS
<1> USE DEF Init
<1>1. Slots \in SUBSET Slots
  OBVIOUS
<1>2. /\ LinkFrom(Slots, 0) \in Slots /\ Height(Slots, LinkFrom(Slots, 0)) = Cardinality(Slots)
      /\ \A s \in Slots : Height(Slots, s) \in Nat /\ Height(Slots, s) > 0
      /\ \A s \in Slots : Height(Slots, s) <= Cardinality(Slots)
      /\ \A s, r \in Slots : Height(Slots, s) = Height(Slots, r) => s = r
      /\ \A s \in Slots : IF Height(Slots, s) = 1 THEN LinkFrom(Slots, s) = Null
           ELSE LinkFrom(Slots, s) \in Slots /\ Height(Slots, LinkFrom(Slots, s)) = Height(Slots, s) - 1
  <2>1. 1 \in Slots
    BY MaxSlotsAssumption DEF Slots
  <2> QED
    BY <1>1, <2>1, RebuiltList
<1>3. InList = Slots /\ Depth = Cardinality(Slots)
  BY <1>2 DEF InList, Depth
<1>4. TypeOK
  <2>1. free_count \in 0..MaxSlots
    BY SlotsFinite, CountAssumption, MaxSlotsAssumption
  <2>2. next_offset \in [Slots -> Slots \cup {Null}]
    BY <1>2
  <2>3. pc \in [Threads -> Labels]
    BY DEF Labels
  <2> QED
    BY <1>2, <2>1, <2>2, <2>3 DEF TypeOK
<1>5. LockExcludes
  BY DEF LockExcludes, Locked, PopLabels
<1>6. OwnedOnce
  BY <1>3 DEF OwnedOnce
<1>7. ListLinked
  <2>1. 1 \in InList
    BY <1>3, MaxSlotsAssumption DEF Slots
  <2> QED
    BY <1>2, <1>3, <2>1 DEF ListLinked
<1>8. CountExact
  <2>1. Popping = {} /\ Pushing = {}
    BY DEF Popping, Pushing
  <2> QED
    BY <1>3, <2>1, FS_EmptySet, SlotsFinite DEF CountExact
<1>9. \A t \in Threads : PopReads(t) /\ PushReads(t)
  BY DEF PopReads, PushReads, PushLabels
<1>10. StatusAgrees
  BY <1>3 DEF StatusAgrees
<1> QED
  BY <1>4, <1>5, <1>6, <1>7, <1>8, <1>9, <1>10 DEF IInv

-----------------------------------------------------------------------------
(* Every step preserves the invariant when the pop runs under the lock.    *)

(* Steps that only move a thread and change its locals.                    *)
LEMMA QuietSteps ==
  ASSUME HasSeqlock, IInv, NEW t \in Threads,
         \/ AllocCall(t) \/ AllocLock(t) \/ PopHead(t) \/ PopCount(t) \/ PopNext(t)
         \/ PopRetry(t) \/ AllocUnlock(t) \/ FreeLock(t) \/ FreeUnlock(t) \/ PushHead(t)
  PROVE  IInv'
<1> USE DEF IInv
<1>1. CASE AllocCall(t)
  <2> USE <1>1 DEF AllocCall, Goto, sharedVars, auxVars
  <2>1. pc' = [pc EXCEPT ![t] = "alloc_lock"] /\ pc[t] = "idle"
    OBVIOUS
  <2>2. Popping' = Popping /\ Pushing' = Pushing
    BY <2>1, SameWindows
  <2>3. OwnedOnce' /\ ListLinked' /\ CountExact' /\ InList' = InList
    BY <2>2, Quiet, SameList
  <2>4. TypeOK'
    BY <2>1 DEF TypeOK, Labels, PopLabels, PushLabels
  <2>5. LockExcludes'
    BY <2>1 DEF LockExcludes, Locked, PopLabels, TypeOK
  <2>6. \A u \in Threads : PopReads(u)' /\ PushReads(u)'
    BY <2>1, <2>3 DEF PopReads, PushReads, PushLabels, TypeOK, ListLinked
  <2>7. StatusAgrees'
    BY <2>1, <2>3 DEF StatusAgrees, PushLabels, TypeOK
  <2> QED
    BY <2>3, <2>4, <2>5, <2>6, <2>7
<1>2. CASE LockAcquire(t, "alloc_lock", "pop_head")
  <2> USE <1>2 DEF LockAcquire, Goto, sharedVars, auxVars
  <2>1. pc' = [pc EXCEPT ![t] = "pop_head"] /\ pc[t] = "alloc_lock"
    OBVIOUS
  <2>2. Popping' = Popping /\ Pushing' = Pushing
    BY <2>1, SameWindows
  <2>3. OwnedOnce' /\ ListLinked' /\ CountExact' /\ InList' = InList
    BY <2>2, Quiet, SameList
  <2>4. TypeOK'
    BY <2>1 DEF TypeOK, Labels, PopLabels, PushLabels
  <2>5. LockExcludes'
    BY <2>1 DEF LockExcludes, Locked, PopLabels, TypeOK
  <2>6. \A u \in Threads : PopReads(u)' /\ PushReads(u)'
    BY <2>1, <2>3 DEF PopReads, PushReads, PushLabels, TypeOK, ListLinked
  <2>7. StatusAgrees'
    BY <2>1, <2>3 DEF StatusAgrees, PushLabels, TypeOK
  <2> QED
    BY <2>3, <2>4, <2>5, <2>6, <2>7
<1>3. CASE LockBusy(t, "alloc_lock")
  <2> USE <1>3 DEF LockBusy, Return, Goto, sharedVars, auxVars
  <2>1. pc' = [pc EXCEPT ![t] = "idle"] /\ pc[t] = "alloc_lock"
    OBVIOUS
  <2>2. Popping' = Popping /\ Pushing' = Pushing
    BY <2>1, SameWindows
  <2>3. OwnedOnce' /\ ListLinked' /\ CountExact' /\ InList' = InList
    BY <2>2, Quiet, SameList
  <2>4. TypeOK'
    BY <2>1 DEF TypeOK, Labels, PopLabels, PushLabels
  <2>5. LockExcludes'
    BY <2>1 DEF LockExcludes, Locked, PopLabels, TypeOK
  <2>6. \A u \in Threads : PopReads(u)' /\ PushReads(u)'
    BY <2>1, <2>3 DEF PopReads, PushReads, PushLabels, TypeOK, ListLinked
  <2>7. StatusAgrees'
    BY <2>1, <2>3 DEF StatusAgrees, PushLabels, TypeOK
  <2> QED
    BY <2>3, <2>4, <2>5, <2>6, <2>7
<1>4. CASE LockAcquire(t, "free_lock", "free_unlock")
  <2> USE <1>4 DEF LockAcquire, Goto, sharedVars, auxVars
  <2>1. pc' = [pc EXCEPT ![t] = "free_unlock"] /\ pc[t] = "free_lock"
    OBVIOUS
  <2>2. Popping' = Popping /\ Pushing' = Pushing
    BY <2>1, SameWindows
  <2>3. OwnedOnce' /\ ListLinked' /\ CountExact' /\ InList' = InList
    BY <2>2, Quiet, SameList
  <2>4. TypeOK'
    BY <2>1 DEF TypeOK, Labels, PopLabels, PushLabels
  <2>5. LockExcludes'
    BY <2>1 DEF LockExcludes, Locked, PopLabels, TypeOK
  <2>6. \A u \in Threads : PopReads(u)' /\ PushReads(u)'
    BY <2>1, <2>3 DEF PopReads, PushReads, PushLabels, TypeOK, ListLinked
  <2>7. StatusAgrees'
    BY <2>1, <2>3 DEF StatusAgrees, PushLabels, TypeOK
  <2> QED
    BY <2>3, <2>4, <2>5, <2>6, <2>7
<1>5. CASE LockBusy(t, "free_lock")
  <2> USE <1>5 DEF LockBusy, Return, Goto, sharedVars, auxVars
  <2>1. pc' = [pc EXCEPT ![t] = "idle"] /\ pc[t] = "free_lock"
    OBVIOUS
  <2>2. Popping' = Popping /\ Pushing' = Pushing
    BY <2>1, SameWindows
  <2>3. OwnedOnce' /\ ListLinked' /\ CountExact' /\ InList' = InList
    BY <2>2, Quiet, SameList
  <2>4. TypeOK'
    BY <2>1 DEF TypeOK, Labels, PopLabels, PushLabels
  <2>5. LockExcludes'
    BY <2>1 DEF LockExcludes, Locked, PopLabels, TypeOK
  <2>6. \A u \in Threads : PopReads(u)' /\ PushReads(u)'
    BY <2>1, <2>3 DEF PopReads, PushReads, PushLabels, TypeOK, ListLinked
  <2>7. StatusAgrees'
    BY <2>1, <2>3 DEF StatusAgrees, PushLabels, TypeOK
  <2> QED
    BY <2>3, <2>4, <2>5, <2>6, <2>7
<1>6. CASE PopHead(t) /\ free_list_head = Null
  <2> USE <1>6 DEF PopHead, PopFails, Goto, sharedVars, auxVars
  <2>1. pc' = [pc EXCEPT ![t] = "alloc_unlock"] /\ pc[t] = "pop_head"
    OBVIOUS
  <2>2. Popping' = Popping /\ Pushing' = Pushing
    BY <2>1, SameWindows
  <2>3. OwnedOnce' /\ ListLinked' /\ CountExact' /\ InList' = InList
    BY <2>2, Quiet, SameList
  <2>4. TypeOK'
    BY <2>1 DEF TypeOK, Labels, PopLabels, PushLabels
  <2>5. LockExcludes'
    BY <2>1 DEF LockExcludes, Locked, PopLabels, TypeOK
  <2>6. \A u \in Threads : PopReads(u)' /\ PushReads(u)'
    BY <2>1, <2>3 DEF PopReads, PushReads, PushLabels, TypeOK, ListLinked
  <2>7. StatusAgrees'
    BY <2>1, <2>3 DEF StatusAgrees, PushLabels, TypeOK
  <2> QED
    BY <2>3, <2>4, <2>5, <2>6, <2>7
<1>7. CASE PopHead(t) /\ free_list_head # Null
  <2> USE <1>7 DEF PopHead, Goto, sharedVars, auxVars
  <2>1. pc' = [pc EXCEPT ![t] = "pop_count"] /\ pc[t] = "pop_head"
    OBVIOUS
  <2>2. Popping' = Popping /\ Pushing' = Pushing
    BY <2>1, SameWindows
  <2>3. OwnedOnce' /\ ListLinked' /\ CountExact' /\ InList' = InList
    BY <2>2, Quiet, SameList
  <2>4. TypeOK'
    BY <2>1 DEF TypeOK, Labels, PopLabels, PushLabels
  <2>5. LockExcludes'
    BY <2>1 DEF LockExcludes, Locked, PopLabels, TypeOK
  <2>6. \A u \in Threads : PopReads(u)' /\ PushReads(u)'
    BY <2>1, <2>3 DEF PopReads, PushReads, PushLabels, TypeOK, ListLinked
  <2>7. StatusAgrees'
    BY <2>1, <2>3 DEF StatusAgrees, PushLabels, TypeOK
  <2> QED
    BY <2>3, <2>4, <2>5, <2>6, <2>7
<1>8. CASE PopCount(t) /\ free_count = 0
  <2> USE <1>8 DEF PopCount, PopFails, Goto, sharedVars, auxVars
  <2>1. pc' = [pc EXCEPT ![t] = "alloc_unlock"] /\ pc[t] = "pop_count"
    OBVIOUS
  <2>2. Popping' = Popping /\ Pushing' = Pushing
    BY <2>1, SameWindows
  <2>3. OwnedOnce' /\ ListLinked' /\ CountExact' /\ InList' = InList
    BY <2>2, Quiet, SameList
  <2>4. TypeOK'
    BY <2>1 DEF TypeOK, Labels, PopLabels, PushLabels
  <2>5. LockExcludes'
    BY <2>1 DEF LockExcludes, Locked, PopLabels, TypeOK
  <2>6. \A u \in Threads : PopReads(u)' /\ PushReads(u)'
    BY <2>1, <2>3 DEF PopReads, PushReads, PushLabels, TypeOK, ListLinked
  <2>7. StatusAgrees'
    BY <2>1, <2>3 DEF StatusAgrees, PushLabels, TypeOK
  <2> QED
    BY <2>3, <2>4, <2>5, <2>6, <2>7
<1>9. CASE PopCount(t) /\ free_count # 0
  <2> USE <1>9 DEF PopCount, Goto, sharedVars, auxVars
  <2>1. pc' = [pc EXCEPT ![t] = "pop_next"] /\ pc[t] = "pop_count"
    OBVIOUS
  <2>2. Popping' = Popping /\ Pushing' = Pushing
    BY <2>1, SameWindows
  <2>3. OwnedOnce' /\ ListLinked' /\ CountExact' /\ InList' = InList
    BY <2>2, Quiet, SameList
  <2>4. TypeOK'
    BY <2>1 DEF TypeOK, Labels, PopLabels, PushLabels
  <2>5. LockExcludes'
    BY <2>1 DEF LockExcludes, Locked, PopLabels, TypeOK
  <2>6. \A u \in Threads : PopReads(u)' /\ PushReads(u)'
    BY <2>1, <2>3 DEF PopReads, PushReads, PushLabels, TypeOK, ListLinked
  <2>7. StatusAgrees'
    BY <2>1, <2>3 DEF StatusAgrees, PushLabels, TypeOK
  <2> QED
    BY <2>3, <2>4, <2>5, <2>6, <2>7
<1>10. CASE PopNext(t)
  <2> USE <1>10 DEF PopNext, Goto, sharedVars, auxVars
  <2>1. pc' = [pc EXCEPT ![t] = "pop_cas"] /\ pc[t] = "pop_next"
    OBVIOUS
  <2>2. Popping' = Popping /\ Pushing' = Pushing
    BY <2>1, SameWindows
  <2>3. OwnedOnce' /\ ListLinked' /\ CountExact' /\ InList' = InList
    BY <2>2, Quiet, SameList
  <2>4. TypeOK'
    <3>1. head[t] \in Slots
      BY <2>1, ListFacts DEF PopReads
    <3> QED
      BY <2>1, <3>1 DEF TypeOK, Labels, PopLabels
  <2>5. LockExcludes'
    BY <2>1 DEF LockExcludes, Locked, PopLabels, TypeOK
  <2>6. \A u \in Threads : PopReads(u)' /\ PushReads(u)'
    BY <2>1, <2>3 DEF PopReads, PushReads, PushLabels, TypeOK, ListLinked
  <2>7. StatusAgrees'
    BY <2>1, <2>3 DEF StatusAgrees, PushLabels, TypeOK
  <2> QED
    BY <2>3, <2>4, <2>5, <2>6, <2>7
<1>11. CASE PopRetry(t) /\ spins[t] + 1 < SpinMax
  <2> USE <1>11 DEF PopRetry, Goto, sharedVars, auxVars
  <2>1. pc' = [pc EXCEPT ![t] = "pop_head"] /\ pc[t] = "pop_cas"
    OBVIOUS
  <2>2. Popping' = Popping /\ Pushing' = Pushing
    BY <2>1, SameWindows
  <2>3. OwnedOnce' /\ ListLinked' /\ CountExact' /\ InList' = InList
    BY <2>2, Quiet, SameList
  <2>4. TypeOK'
    BY <2>1 DEF TypeOK, Labels, PopLabels, PushLabels
  <2>5. LockExcludes'
    BY <2>1 DEF LockExcludes, Locked, PopLabels, TypeOK
  <2>6. \A u \in Threads : PopReads(u)' /\ PushReads(u)'
    BY <2>1, <2>3 DEF PopReads, PushReads, PushLabels, TypeOK, ListLinked
  <2>7. StatusAgrees'
    BY <2>1, <2>3 DEF StatusAgrees, PushLabels, TypeOK
  <2> QED
    BY <2>3, <2>4, <2>5, <2>6, <2>7
<1>12. CASE PopRetry(t) /\ ~(spins[t] + 1 < SpinMax)
  <2> USE <1>12 DEF PopRetry, PopFails, Goto, sharedVars, auxVars
  <2>1. pc' = [pc EXCEPT ![t] = "alloc_unlock"] /\ pc[t] = "pop_cas"
    OBVIOUS
  <2>2. Popping' = Popping /\ Pushing' = Pushing
    BY <2>1, SameWindows
  <2>3. OwnedOnce' /\ ListLinked' /\ CountExact' /\ InList' = InList
    BY <2>2, Quiet, SameList
  <2>4. TypeOK'
    BY <2>1 DEF TypeOK, Labels, PopLabels, PushLabels
  <2>5. LockExcludes'
    BY <2>1 DEF LockExcludes, Locked, PopLabels, TypeOK
  <2>6. \A u \in Threads : PopReads(u)' /\ PushReads(u)'
    BY <2>1, <2>3 DEF PopReads, PushReads, PushLabels, TypeOK, ListLinked
  <2>7. StatusAgrees'
    BY <2>1, <2>3 DEF StatusAgrees, PushLabels, TypeOK
  <2> QED
    BY <2>3, <2>4, <2>5, <2>6, <2>7
<1>13. CASE AllocUnlock(t)
  <2> USE <1>13 DEF AllocUnlock, Return, Goto, sharedVars, auxVars
  <2>1. pc' = [pc EXCEPT ![t] = "idle"] /\ pc[t] = "alloc_unlock"
    OBVIOUS
  <2>2. Popping' = Popping /\ Pushing' = Pushing
    BY <2>1, SameWindows
  <2>3. OwnedOnce' /\ ListLinked' /\ CountExact' /\ InList' = InList
    BY <2>2, Quiet, SameList
  <2>4. TypeOK'
    BY <2>1 DEF TypeOK, Labels, PopLabels, PushLabels
  <2>5. LockExcludes'
    BY <2>1 DEF LockExcludes, Locked, PopLabels, TypeOK
  <2>6. \A u \in Threads : PopReads(u)' /\ PushReads(u)'
    BY <2>1, <2>3 DEF PopReads, PushReads, PushLabels, TypeOK, ListLinked
  <2>7. StatusAgrees'
    BY <2>1, <2>3 DEF StatusAgrees, PushLabels, TypeOK
  <2> QED
    BY <2>3, <2>4, <2>5, <2>6, <2>7
<1>14. CASE FreeUnlock(t)
  <2> USE <1>14 DEF FreeUnlock, Goto, sharedVars, auxVars
  <2>1. pc' = [pc EXCEPT ![t] = "push_head"] /\ pc[t] = "free_unlock"
    OBVIOUS
  <2>2. Popping' = Popping /\ Pushing' = Pushing
    BY <2>1, SameWindows
  <2>3. OwnedOnce' /\ ListLinked' /\ CountExact' /\ InList' = InList
    BY <2>2, Quiet, SameList
  <2>4. TypeOK'
    BY <2>1 DEF TypeOK, Labels, PopLabels, PushLabels
  <2>5. LockExcludes'
    BY <2>1 DEF LockExcludes, Locked, PopLabels, TypeOK
  <2>6. \A u \in Threads : PopReads(u)' /\ PushReads(u)'
    BY <2>1, <2>3 DEF PopReads, PushReads, PushLabels, TypeOK, ListLinked
  <2>7. StatusAgrees'
    BY <2>1, <2>3 DEF StatusAgrees, PushLabels, TypeOK
  <2> QED
    BY <2>3, <2>4, <2>5, <2>6, <2>7
<1>15. CASE PushHead(t)
  <2> USE <1>15 DEF PushHead, Goto, sharedVars, auxVars
  <2>1. pc' = [pc EXCEPT ![t] = "push_link"] /\ pc[t] = "push_head"
    OBVIOUS
  <2>2. Popping' = Popping /\ Pushing' = Pushing
    BY <2>1, SameWindows
  <2>3. OwnedOnce' /\ ListLinked' /\ CountExact' /\ InList' = InList
    BY <2>2, Quiet, SameList
  <2>4. TypeOK'
    BY <2>1 DEF TypeOK, Labels, PopLabels, PushLabels
  <2>5. LockExcludes'
    BY <2>1 DEF LockExcludes, Locked, PopLabels, TypeOK
  <2>6. \A u \in Threads : PopReads(u)' /\ PushReads(u)'
    BY <2>1, <2>3 DEF PopReads, PushReads, PushLabels, TypeOK, ListLinked
  <2>7. StatusAgrees'
    BY <2>1, <2>3 DEF StatusAgrees, PushLabels, TypeOK
  <2> QED
    BY <2>3, <2>4, <2>5, <2>6, <2>7
<1> QED
  BY <1>1, <1>2, <1>3, <1>4, <1>5, <1>6, <1>7, <1>8, <1>9, <1>10, <1>11, <1>12, <1>13, <1>14, <1>15
     DEF AllocLock, FreeLock

(* Writing the link of a slot its caller holds does not touch the list.    *)
LEMMA RelinkOwned ==
  ASSUME IInv, NEW t \in Threads, NEW s \in owned[t], NEW v \in Slots \cup {Null},
         next_offset' = [next_offset EXCEPT ![s] = v],
         UNCHANGED <<free_list_head, free_count, auxVars>>,
         Popping' = Popping, Pushing' = Pushing
  PROVE  /\ OwnedOnce' /\ ListLinked' /\ CountExact'
         /\ InList' = InList
         /\ s \in Slots /\ s \notin InList
         /\ next_offset' \in [Slots -> Slots \cup {Null}]
         /\ \A r \in Slots : r # s => next_offset'[r] = next_offset[r]
         /\ next_offset'[s] = v
         /\ \A u \in Threads : \A r \in owned[u] : r = s => u = t
<1>1. InList' = InList /\ Depth' = Depth
  BY SameList DEF auxVars
<1>2. s \in Slots /\ s \notin InList /\ InList \in SUBSET Slots
  BY ListFacts DEF IInv, OwnedOnce, TypeOK
<1>3. /\ next_offset' \in [Slots -> Slots \cup {Null}]
      /\ \A r \in Slots : r # s => next_offset'[r] = next_offset[r]
      /\ next_offset'[s] = v
  BY <1>2 DEF IInv, TypeOK
<1>4. OwnedOnce'
  BY <1>1 DEF IInv, OwnedOnce, auxVars
<1>5. ListLinked'
  <2>1. \A r \in InList : next_offset'[r] = next_offset[r]
    BY <1>2, <1>3
  <2> QED
    BY <1>1, <2>1 DEF IInv, ListLinked, auxVars
<1>6. CountExact'
  BY <1>1 DEF IInv, CountExact
<1>7. \A u \in Threads : \A r \in owned[u] : r = s => u = t
  BY DEF IInv, OwnedOnce
<1> QED
  BY <1>1, <1>2, <1>3, <1>4, <1>5, <1>6, <1>7

(* A link is cleared by a pop or stored by a push; a call of               *)
(* ef_free_slot.                                                           *)
LEMMA LinkSteps ==
  ASSUME HasSeqlock, IInv, NEW t \in Threads,
         PopLink(t) \/ PushLink(t) \/ \E s \in Slots : FreeCall(t, s)
  PROVE  IInv'
<1> USE DEF IInv
<1>1. CASE PopLink(t)
  <2> USE <1>1 DEF PopLink, Goto, sharedVars, auxVars
  <2>1. pc' = [pc EXCEPT ![t] = "pop_status"] /\ pc[t] = "pop_link"
    OBVIOUS
  <2>2. Popping' = Popping /\ Pushing' = Pushing
    BY <2>1, SameWindows
  <2>3. head[t] \in owned[t]
    BY <2>1 DEF PopReads, PushReads, PushLabels
  <2>4. Null \in Slots \cup {Null}
    BY DEF TypeOK
  <2>5. /\ OwnedOnce' /\ ListLinked' /\ CountExact'
        /\ InList' = InList
        /\ head[t] \in Slots /\ head[t] \notin InList
        /\ next_offset' \in [Slots -> Slots \cup {Null}]
        /\ \A r \in Slots : r # head[t] => next_offset'[r] = next_offset[r]
        /\ next_offset'[head[t]] = Null
        /\ \A u \in Threads : \A r \in owned[u] : r = head[t] => u = t
    BY <2>2, <2>3, <2>4, RelinkOwned
  <2>6. TypeOK'
    BY <2>1, <2>5 DEF TypeOK, Labels, PopLabels, PushLabels
  <2>7. LockExcludes'
    BY <2>1 DEF LockExcludes, Locked, PopLabels, TypeOK
  <2>8. ASSUME NEW u \in Threads
        PROVE  PopReads(u)' /\ PushReads(u)'
    <3>1. PopReads(u)'
      BY <2>1, <2>5, ListFacts DEF PopReads, TypeOK
    <3>2. PushReads(u)'
      BY <2>1, <2>3, <2>5 DEF PushReads, PushLabels, TypeOK
    <3> QED
      BY <3>1, <3>2
  <2>9. StatusAgrees'
    BY <2>1, <2>5 DEF StatusAgrees, PushLabels, TypeOK
  <2> QED
    BY <2>5, <2>6, <2>7, <2>8, <2>9
<1>2. CASE PushLink(t)
  <2> USE <1>2 DEF PushLink, Goto, sharedVars, auxVars
  <2>1. pc' = [pc EXCEPT ![t] = "push_status"] /\ pc[t] = "push_link"
    OBVIOUS
  <2>2. Popping' = Popping /\ Pushing' = Pushing
    BY <2>1, SameWindows
  <2>3. slot[t] \in owned[t]
    BY <2>1 DEF PopReads, PushReads, PushLabels
  <2>4. head[t] \in Slots \cup {Null}
    BY DEF TypeOK
  <2>5. /\ OwnedOnce' /\ ListLinked' /\ CountExact'
        /\ InList' = InList
        /\ slot[t] \in Slots /\ slot[t] \notin InList
        /\ next_offset' \in [Slots -> Slots \cup {Null}]
        /\ \A r \in Slots : r # slot[t] => next_offset'[r] = next_offset[r]
        /\ next_offset'[slot[t]] = head[t]
        /\ \A u \in Threads : \A r \in owned[u] : r = slot[t] => u = t
    BY <2>2, <2>3, <2>4, RelinkOwned
  <2>6. TypeOK'
    BY <2>1, <2>5 DEF TypeOK, Labels, PopLabels, PushLabels
  <2>7. LockExcludes'
    BY <2>1 DEF LockExcludes, Locked, PopLabels, TypeOK
  <2>8. ASSUME NEW u \in Threads
        PROVE  PopReads(u)' /\ PushReads(u)'
    <3>1. PopReads(u)'
      BY <2>1, <2>5, ListFacts DEF PopReads, TypeOK
    <3>2. PushReads(u)'
      BY <2>1, <2>3, <2>5 DEF PushReads, PushLabels, TypeOK
    <3> QED
      BY <3>1, <3>2
  <2>9. StatusAgrees'
    BY <2>1, <2>5 DEF StatusAgrees, PushLabels, TypeOK
  <2> QED
    BY <2>5, <2>6, <2>7, <2>8, <2>9
<1>3. CASE \E s \in Slots : FreeCall(t, s) /\ status[s] = "USED"
  <2>0. PICK s \in Slots : FreeCall(t, s) /\ status[s] = "USED"
    BY <1>3
  <2> USE <2>0 DEF FreeCall, Goto, sharedVars, auxVars
  <2>1. pc' = [pc EXCEPT ![t] = "free_lock"] /\ pc[t] = "idle"
    OBVIOUS
  <2>2. Popping' = Popping /\ Pushing' = Pushing
    BY <2>1, SameWindows
  <2>3. s \in owned[t]
    OBVIOUS
  <2>4. Null \in Slots \cup {Null}
    BY DEF TypeOK
  <2>5. /\ OwnedOnce' /\ ListLinked' /\ CountExact'
        /\ InList' = InList
        /\ s \in Slots /\ s \notin InList
        /\ next_offset' \in [Slots -> Slots \cup {Null}]
        /\ \A r \in Slots : r # s => next_offset'[r] = next_offset[r]
        /\ next_offset'[s] = Null
        /\ \A u \in Threads : \A r \in owned[u] : r = s => u = t
    BY <2>2, <2>3, <2>4, RelinkOwned
  <2>6. TypeOK'
    BY <2>1, <2>5 DEF TypeOK, Labels, PopLabels, PushLabels
  <2>7. LockExcludes'
    BY <2>1 DEF LockExcludes, Locked, PopLabels, TypeOK
  <2>8. ASSUME NEW u \in Threads
        PROVE  PopReads(u)' /\ PushReads(u)'
    <3>1. PopReads(u)'
      BY <2>1, <2>5, ListFacts DEF PopReads, TypeOK
    <3>2. PushReads(u)'
      BY <2>1, <2>3, <2>5 DEF PushReads, PushLabels, TypeOK
    <3> QED
      BY <3>1, <3>2
  <2>9. StatusAgrees'
    BY <2>1, <2>5 DEF StatusAgrees, PushLabels, TypeOK
  <2> QED
    BY <2>5, <2>6, <2>7, <2>8, <2>9
<1>4. CASE \E s \in Slots : FreeCall(t, s) /\ status[s] # "USED"
  <2>1. PICK s \in Slots : FreeCall(t, s) /\ status[s] # "USED"
    BY <1>4
  <2>2. s \in owned[t] /\ pc[t] = "idle"
    BY <2>1 DEF FreeCall
  <2>3. FALSE
    BY <2>1, <2>2 DEF StatusAgrees, PushLabels
  <2> QED
    BY <2>3
<1> QED
  BY <1>1, <1>2, <1>3, <1>4

(* The status words that a pop and a push store.                           *)
LEMMA StatusSteps ==
  ASSUME HasSeqlock, IInv, NEW t \in Threads, PopStatus(t) \/ PushStatus(t)
  PROVE  IInv'
<1> USE DEF IInv
<1>1. CASE PopStatus(t)
  <2> USE <1>1 DEF PopStatus, Goto, sharedVars, auxVars
  <2>1. pc' = [pc EXCEPT ![t] = "pop_dec"] /\ pc[t] = "pop_status"
    OBVIOUS
  <2>2. Popping' = Popping /\ Pushing' = Pushing
    BY <2>1, SameWindows
  <2>3. OwnedOnce' /\ ListLinked' /\ CountExact' /\ InList' = InList
    BY <2>2, Quiet, SameList
  <2>4. head[t] \in owned[t] /\ head[t] \in Slots
    BY <2>1 DEF PopReads, PushReads, PushLabels, TypeOK
  <2>5. /\ status' \in [Slots -> {"FREE", "USED"}]
        /\ \A r \in Slots : r # head[t] => status'[r] = status[r]
        /\ status'[head[t]] = "USED"
    BY <2>4 DEF TypeOK
  <2>6. head[t] \notin InList \cup stray /\ \A u \in Threads : head[t] \in owned[u] => u = t
    BY <2>4 DEF OwnedOnce
  <2>7. TypeOK'
    BY <2>1, <2>5 DEF TypeOK, Labels, PopLabels, PushLabels
  <2>8. LockExcludes'
    BY <2>1 DEF LockExcludes, Locked, PopLabels, TypeOK
  <2>9. ASSUME NEW u \in Threads
        PROVE  PopReads(u)' /\ PushReads(u)'
    <3>1. PopReads(u)'
      BY <2>1, <2>3 DEF PopReads, TypeOK
    <3>2. PushReads(u)'
      BY <2>1, <2>5, <2>6 DEF PushReads, PushLabels, TypeOK
    <3> QED
      BY <3>1, <3>2
  <2>10. StatusAgrees'
    <3>1. \A r \in (InList \cup stray)' : status'[r] = "FREE"
      BY <2>3, <2>5, <2>6, ListFacts DEF StatusAgrees, TypeOK
    <3>2. ASSUME NEW u \in Threads, NEW r \in owned'[u]
          PROVE  \/ status'[r] = "USED"
                 \/ r = head'[u] /\ pc'[u] \in {"pop_link", "pop_status"}
                 \/ r = slot'[u] /\ pc'[u] \in PushLabels
      BY <2>1, <2>5, <2>6 DEF StatusAgrees, PushLabels, TypeOK
    <3> QED
      BY <3>1, <3>2 DEF StatusAgrees
  <2> QED
    BY <2>3, <2>7, <2>8, <2>9, <2>10
<1>2. CASE PushStatus(t)
  <2> USE <1>2 DEF PushStatus, Goto, sharedVars, auxVars
  <2>1. pc' = [pc EXCEPT ![t] = "push_cas"] /\ pc[t] = "push_status"
    OBVIOUS
  <2>2. Popping' = Popping /\ Pushing' = Pushing
    BY <2>1, SameWindows
  <2>3. OwnedOnce' /\ ListLinked' /\ CountExact' /\ InList' = InList
    BY <2>2, Quiet, SameList
  <2>4. slot[t] \in owned[t] /\ slot[t] \in Slots
    BY <2>1 DEF PopReads, PushReads, PushLabels, TypeOK
  <2>5. /\ status' \in [Slots -> {"FREE", "USED"}]
        /\ \A r \in Slots : r # slot[t] => status'[r] = status[r]
        /\ status'[slot[t]] = "FREE"
    BY <2>4 DEF TypeOK
  <2>6. slot[t] \notin InList \cup stray /\ \A u \in Threads : slot[t] \in owned[u] => u = t
    BY <2>4 DEF OwnedOnce
  <2>7. TypeOK'
    BY <2>1, <2>5 DEF TypeOK, Labels, PopLabels, PushLabels
  <2>8. LockExcludes'
    BY <2>1 DEF LockExcludes, Locked, PopLabels, TypeOK
  <2>9. ASSUME NEW u \in Threads
        PROVE  PopReads(u)' /\ PushReads(u)'
    <3>1. PopReads(u)'
      BY <2>1, <2>3 DEF PopReads, TypeOK
    <3>2. PushReads(u)'
      BY <2>1, <2>5, <2>6 DEF PushReads, PushLabels, TypeOK
    <3> QED
      BY <3>1, <3>2
  <2>10. StatusAgrees'
    <3>1. \A r \in (InList \cup stray)' : status'[r] = "FREE"
      BY <2>3, <2>5, <2>6, ListFacts DEF StatusAgrees, TypeOK
    <3>2. ASSUME NEW u \in Threads, NEW r \in owned'[u]
          PROVE  \/ status'[r] = "USED"
                 \/ r = head'[u] /\ pc'[u] \in {"pop_link", "pop_status"}
                 \/ r = slot'[u] /\ pc'[u] \in PushLabels
      BY <2>1, <2>5, <2>6 DEF StatusAgrees, PushLabels, TypeOK
    <3> QED
      BY <3>1, <3>2 DEF StatusAgrees
  <2> QED
    BY <2>3, <2>7, <2>8, <2>9, <2>10
<1> QED
  BY <1>1, <1>2

(* The two updates of the counter.                                         *)
LEMMA CountSteps ==
  ASSUME HasSeqlock, IInv, NEW t \in Threads, PopDec(t) \/ PushInc(t)
  PROVE  IInv'
<1> USE DEF IInv
<1>1. CASE PopDec(t)
  <2> USE <1>1 DEF PopDec, Goto, sharedVars, auxVars
  <2>1. pc' = [pc EXCEPT ![t] = "alloc_unlock"] /\ pc[t] = "pop_dec"
    OBVIOUS
  <2>2. t \in Popping /\ Popping' = Popping \ {t} /\ Pushing' = Pushing
    BY <2>1 DEF Popping, Pushing, TypeOK
  <2>3. InList' = InList /\ Depth' = Depth
    BY SameList
  <2>4. OwnedOnce' /\ ListLinked'
    BY <2>3 DEF OwnedOnce, ListLinked
  <2>5. free_count' = free_count - 1 /\ free_count \in Nat /\ free_count >= 1
    BY <2>1, CountAssumption DEF PopReads, FreeCountDec, TypeOK
  <2>6. Cardinality(Popping') = Cardinality(Popping) - 1
    BY <2>2, CountedFinite, FS_RemoveElement
  <2>7. CountExact'
    BY <2>2, <2>3, <2>5, <2>6, CountedFinite, ListFacts, MaxSlotsAssumption DEF CountExact
  <2>8. TypeOK'
    BY <2>1, <2>5, MaxSlotsAssumption DEF TypeOK, Labels, PopLabels
  <2>9. LockExcludes'
    BY <2>1 DEF LockExcludes, Locked, PopLabels, TypeOK
  <2>10. ASSUME NEW u \in Threads
         PROVE  PopReads(u)' /\ PushReads(u)'
    <3>1. u # t => ~Locked(u)
      BY <2>1 DEF LockExcludes, Locked, PopLabels
    <3>2. PopReads(u)'
      BY <2>1, <3>1 DEF PopReads, Locked, PopLabels, TypeOK
    <3>3. PushReads(u)'
      BY <2>1 DEF PushReads, PushLabels, TypeOK
    <3> QED
      BY <3>2, <3>3
  <2>11. StatusAgrees'
    BY <2>1, <2>3 DEF StatusAgrees, PushLabels, TypeOK
  <2> QED
    BY <2>4, <2>7, <2>8, <2>9, <2>10, <2>11
<1>2. CASE PushInc(t)
  <2> USE <1>2 DEF PushInc, Return, Goto, sharedVars, auxVars
  <2>1. pc' = [pc EXCEPT ![t] = "idle"] /\ pc[t] = "push_inc"
    OBVIOUS
  <2>2. t \in Pushing /\ Pushing' = Pushing \ {t} /\ Popping' = Popping
    BY <2>1 DEF Popping, Pushing, TypeOK
  <2>3. InList' = InList /\ Depth' = Depth
    BY SameList
  <2>4. OwnedOnce' /\ ListLinked'
    BY <2>3 DEF OwnedOnce, ListLinked
  <2>5. Cardinality(Pushing') = Cardinality(Pushing) - 1 /\ Cardinality(Pushing) >= 1
    <3>1. Cardinality(Pushing') = Cardinality(Pushing) - 1
      BY <2>2, CountedFinite, FS_RemoveElement
    <3>2. IsFiniteSet(Pushing') /\ Cardinality(Pushing') \in Nat
      BY <2>2, CountedFinite, FS_RemoveElement, FS_CardinalityType
    <3> QED
      BY <3>1, <3>2, CountedFinite
  <2>6. Depth + Cardinality(Popping) <= MaxSlots
    BY Room
  <2>7. free_count \in Nat /\ free_count + 1 <= MaxSlots
    BY <2>5, <2>6, CountedFinite, ListFacts, MaxSlotsAssumption DEF CountExact, TypeOK
  <2>8. free_count' = free_count + 1
    BY <2>7, CountAssumption, MaxSlotsAssumption DEF FreeCountInc
  <2>9. CountExact'
    BY <2>2, <2>3, <2>5, <2>7, <2>8, CountedFinite, ListFacts DEF CountExact
  <2>10. TypeOK'
    BY <2>1, <2>7, <2>8, CountAssumption, MaxSlotsAssumption DEF TypeOK, Labels
  <2>11. LockExcludes'
    BY <2>1 DEF LockExcludes, Locked, PopLabels, TypeOK
  <2>12. \A u \in Threads : PopReads(u)' /\ PushReads(u)'
    BY <2>1, <2>3, <2>7, <2>8 DEF PopReads, PushReads, PushLabels, TypeOK
  <2>13. StatusAgrees'
    BY <2>1, <2>3 DEF StatusAgrees, PushLabels, TypeOK
  <2> QED
    BY <2>4, <2>9, <2>10, <2>11, <2>12, <2>13
<1> QED
  BY <1>1, <1>2

(* The CAS of a pop: what it installs as the new head is the second slot   *)
(* of the list, because the list's top is still as the pop read it.        *)
LEMMA PopCasStep ==
  ASSUME HasSeqlock, IInv, NEW t \in Threads, PopCas(t)
  PROVE  IInv'
<1> USE DEF IInv, PopCas, Goto, sharedVars, auxVars
<1> DEFINE h == head[t]
<1>1. pc' = [pc EXCEPT ![t] = "pop_link"] /\ pc[t] = "pop_cas"
  OBVIOUS
<1>2. /\ h \in InList /\ h \in Slots /\ h = free_list_head /\ next[t] = next_offset[h]
      /\ pos[h] = Depth /\ Depth >= 1 /\ Depth \in Nat
  BY <1>1, ListFacts DEF PopReads, ListLinked, InList
<1>3. /\ pos' \in [Slots -> Nat] /\ pos'[h] = 0
      /\ \A r \in Slots : r # h => pos'[r] = pos[r]
  BY <1>2 DEF TypeOK
<1>4. InList' = InList \ {h}
  BY <1>2, <1>3 DEF InList
<1>5. Depth' = Depth - 1
  <2>1. Cardinality(InList \ {head[t]}) = Cardinality(InList) - 1
    BY <1>2, ListFacts, FS_RemoveElement
  <2> QED
    BY <1>4, <2>1 DEF Depth
<1>6. OwnedOnce'
  <2>1. \A u \in Threads : u # t => owned'[u] = owned[u]
    BY DEF TypeOK
  <2>2. owned'[t] = owned[t] \cup {h}
    BY DEF TypeOK
  <2>3. \A u \in Threads : h \notin owned[u]
    BY <1>2 DEF OwnedOnce
  <2>4. \A r \in Slots : r \in InList' \/ r \in stray' \/ \E u \in Threads : r \in owned'[u]
    <3> TAKE r \in Slots
    <3>1. r \in InList \/ r \in stray \/ \E u \in Threads : r \in owned[u]
      BY DEF OwnedOnce
    <3> HIDE DEF h
    <3> QED
      BY <1>4, <2>1, <2>2, <3>1
  <2>5. Slots = InList' \cup stray' \cup UNION {owned'[u] : u \in Threads}
    <3>1. InList' \subseteq Slots /\ stray' \subseteq Slots /\ \A u \in Threads : owned'[u] \subseteq Slots
      BY <1>2, <1>4, <2>1, <2>2, ListFacts DEF TypeOK
    <3> QED
      BY <2>4, <3>1
  <2>6. InList' \cap stray' = {}
    BY <1>4 DEF OwnedOnce
  <2>7. \A u \in Threads : owned'[u] \cap (InList' \cup stray') = {}
    <3>1. h \notin stray
      BY <1>2 DEF OwnedOnce
    <3> QED
      BY <1>4, <2>1, <2>2, <3>1 DEF OwnedOnce
  <2>8. \A u, v \in Threads : u # v => owned'[u] \cap owned'[v] = {}
    BY <2>1, <2>2, <2>3 DEF OwnedOnce
  <2> QED
    BY <2>5, <2>6, <2>7, <2>8 DEF OwnedOnce
<1>7. ListLinked'
  <2>1. \A r \in InList' : r \in Slots /\ r \in InList /\ r # h /\ pos'[r] = pos[r] /\ pos[r] \in Nat
    BY <1>3, <1>4, ListFacts DEF TypeOK
  <2>2. \A r \in InList' : pos'[r] <= Depth'
    BY <1>2, <1>5, <2>1 DEF ListLinked
  <2>3. \A r, q \in InList' : pos'[r] = pos'[q] => r = q
    BY <2>1 DEF ListLinked
  <2>4. ASSUME NEW r \in InList'
        PROVE  IF pos'[r] = 1 THEN next_offset'[r] = Null
               ELSE next_offset'[r] \in InList' /\ pos'[next_offset'[r]] = pos'[r] - 1
    <3>1. CASE pos[r] = 1
      BY <2>1, <3>1 DEF ListLinked
    <3>2. CASE pos[r] # 1
      <4>1. next_offset[r] \in InList /\ pos[next_offset[r]] = pos[r] - 1
        BY <2>1, <3>2 DEF ListLinked
      <4>2. next_offset[r] # h
        BY <1>2, <1>5, <2>1, <2>2, <4>1
      <4>3. pos'[next_offset[r]] = pos[next_offset[r]]
        BY <1>3, <4>1, <4>2, ListFacts
      <4> QED
        BY <1>4, <2>1, <3>2, <4>1, <4>2, <4>3
    <3> QED
      BY <3>1, <3>2
  <2>5. IF InList' = {} THEN free_list_head' = Null
        ELSE free_list_head' \in InList' /\ pos'[free_list_head'] = Depth'
    <3>1. CASE Depth = 1
      <4>1. InList' = {}
        <5>1. \A r \in InList' : pos'[r] > 0 /\ pos'[r] \in Nat
          BY <2>1 DEF InList
        <5> QED
          BY <1>5, <2>2, <3>1, <5>1
      <4> QED
        BY <1>2, <3>1, <4>1 DEF ListLinked
    <3>2. CASE Depth # 1
      <4>1. next[t] \in InList /\ pos[next[t]] = Depth - 1
        BY <1>2, <3>2 DEF ListLinked
      <4>2. next[t] # h
        BY <1>2, <4>1
      <4>3. pos'[next[t]] = pos[next[t]]
        BY <1>3, <4>1, <4>2, ListFacts
      <4> QED
        BY <1>4, <1>5, <4>1, <4>2, <4>3
    <3> QED
      BY <3>1, <3>2
  <2> QED
    BY <2>2, <2>3, <2>4, <2>5 DEF ListLinked
<1>8. CountExact'
  <2>1. t \notin Popping /\ Popping' = Popping \cup {t} /\ Pushing' = Pushing
    BY <1>1 DEF Popping, Pushing, TypeOK
  <2>2. Cardinality(Popping') = Cardinality(Popping) + 1
    BY <2>1, CountedFinite, FS_AddElement
  <2> QED
    BY <1>2, <1>5, <2>1, <2>2, CountedFinite DEF CountExact, TypeOK
<1>9. TypeOK'
  <2>1. owned' \in [Threads -> SUBSET Slots]
    BY <1>2 DEF TypeOK
  <2> QED
    BY <1>1, <1>3, <2>1 DEF TypeOK, Labels, PopLabels
<1>10. LockExcludes'
  BY <1>1 DEF LockExcludes, Locked, PopLabels, TypeOK
<1>11. ASSUME NEW u \in Threads
       PROVE  PopReads(u)' /\ PushReads(u)'
  <2>1. u # t => ~Locked(u)
    BY <1>1 DEF LockExcludes, Locked, PopLabels
  <2>2. PopReads(u)'
    BY <1>1, <2>1 DEF PopReads, Locked, PopLabels, TypeOK
  <2>3. PushReads(u)'
    BY <1>1 DEF PushReads, PushLabels, TypeOK
  <2> QED
    BY <2>2, <2>3
<1>12. StatusAgrees'
  <2>1. \A r \in (InList \cup stray)' : status'[r] = "FREE"
    BY <1>4 DEF StatusAgrees
  <2>2. ASSUME NEW u \in Threads, NEW r \in owned'[u]
        PROVE  \/ status'[r] = "USED"
               \/ r = head'[u] /\ pc'[u] \in {"pop_link", "pop_status"}
               \/ r = slot'[u] /\ pc'[u] \in PushLabels
    BY <1>1, <1>2 DEF StatusAgrees, PushLabels, TypeOK
  <2> QED
    BY <2>1, <2>2 DEF StatusAgrees
<1> QED
  BY <1>6, <1>7, <1>8, <1>9, <1>10, <1>11, <1>12

(* The CAS of a push: the slot becomes the new top.                        *)
LEMMA PushCasStep ==
  ASSUME HasSeqlock, IInv, NEW t \in Threads, PushCas(t)
  PROVE  IInv'
<1> USE DEF IInv, PushCas, Goto, sharedVars, auxVars
<1> DEFINE n == slot[t]
<1>1. pc' = [pc EXCEPT ![t] = "push_inc"] /\ pc[t] = "push_cas"
  OBVIOUS
<1>2. /\ n \in owned[t] /\ n \in Slots /\ n \notin InList
      /\ next_offset[n] = free_list_head /\ status[n] = "FREE" /\ Depth \in Nat
  BY <1>1, ListFacts DEF PushReads, PushLabels, OwnedOnce, TypeOK
<1>3. /\ pos' \in [Slots -> Nat] /\ pos'[n] = Depth + 1
      /\ \A r \in Slots : r # n => pos'[r] = pos[r]
  BY <1>2 DEF TypeOK
<1>4. InList' = InList \cup {n}
  BY <1>2, <1>3 DEF InList
<1>5. Depth' = Depth + 1
  BY <1>2, <1>4, ListFacts, FS_AddElement DEF Depth
<1>6. OwnedOnce'
  <2>1. \A u \in Threads : u # t => owned'[u] = owned[u]
    BY DEF TypeOK
  <2>2. owned'[t] = owned[t] \ {n}
    BY DEF TypeOK
  <2>3. \A r \in Slots : r \in InList' \/ r \in stray' \/ \E u \in Threads : r \in owned'[u]
    <3> TAKE r \in Slots
    <3>1. r \in InList \/ r \in stray \/ \E u \in Threads : r \in owned[u]
      BY DEF OwnedOnce
    <3> HIDE DEF n
    <3> QED
      BY <1>4, <2>1, <2>2, <3>1
  <2>4. Slots = InList' \cup stray' \cup UNION {owned'[u] : u \in Threads}
    <3>1. InList' \subseteq Slots /\ stray' \subseteq Slots /\ \A u \in Threads : owned'[u] \subseteq Slots
      BY <1>2, <1>4, <2>1, <2>2, ListFacts DEF TypeOK
    <3> QED
      BY <2>3, <3>1
  <2>5. \A u \in Threads : n \notin owned'[u]
    BY <1>2, <2>1, <2>2 DEF OwnedOnce
  <2>6. InList' \cap stray' = {}
    BY <1>2, <1>4 DEF OwnedOnce
  <2>7. \A u \in Threads : owned'[u] \cap (InList' \cup stray') = {}
    BY <1>4, <2>1, <2>2, <2>5 DEF OwnedOnce
  <2>8. \A u, v \in Threads : u # v => owned'[u] \cap owned'[v] = {}
    BY <2>1, <2>2 DEF OwnedOnce
  <2> QED
    BY <2>4, <2>6, <2>7, <2>8 DEF OwnedOnce
<1>7. ListLinked'
  <2>1. \A r \in InList : r \in Slots /\ r # n /\ pos'[r] = pos[r] /\ pos[r] \in Nat /\ pos[r] > 0
    BY <1>2, <1>3, ListFacts DEF TypeOK, InList
  <2>2. \A r \in InList' : pos'[r] <= Depth'
    BY <1>2, <1>3, <1>4, <1>5, <2>1 DEF ListLinked
  <2>3. \A r, q \in InList' : pos'[r] = pos'[q] => r = q
    BY <1>2, <1>3, <1>4, <2>1 DEF ListLinked
  <2>4. ASSUME NEW r \in InList'
        PROVE  IF pos'[r] = 1 THEN next_offset'[r] = Null
               ELSE next_offset'[r] \in InList' /\ pos'[next_offset'[r]] = pos'[r] - 1
    <3>1. CASE r = n /\ InList = {}
      BY <1>2, <1>3, <3>1, ListFacts DEF ListLinked
    <3>2. CASE r = n /\ InList # {}
      <4>1. free_list_head \in InList /\ pos[free_list_head] = Depth /\ Depth # 0
        BY <3>2, ListFacts DEF ListLinked
      <4> QED
        BY <1>2, <1>3, <1>4, <2>1, <3>2, <4>1
    <3>3. CASE r # n
      <4>1. r \in InList
        BY <1>4, <3>3
      <4>2. IF pos[r] = 1 THEN next_offset[r] = Null
            ELSE next_offset[r] \in InList /\ pos[next_offset[r]] = pos[r] - 1
        BY <4>1 DEF ListLinked
      <4> QED
        BY <1>4, <2>1, <4>1, <4>2
    <3> QED
      BY <3>1, <3>2, <3>3
  <2> QED
    BY <1>2, <1>3, <1>4, <1>5, <2>2, <2>3, <2>4 DEF ListLinked
<1>8. CountExact'
  <2>1. t \notin Pushing /\ Pushing' = Pushing \cup {t} /\ Popping' = Popping
    BY <1>1 DEF Popping, Pushing, TypeOK
  <2>2. Cardinality(Pushing') = Cardinality(Pushing) + 1
    BY <2>1, CountedFinite, FS_AddElement
  <2> QED
    BY <1>2, <1>5, <2>1, <2>2, CountedFinite DEF CountExact, TypeOK
<1>9. TypeOK'
  <2>1. owned' \in [Threads -> SUBSET Slots]
    BY <1>2 DEF TypeOK
  <2> QED
    BY <1>1, <1>2, <1>3, <2>1 DEF TypeOK, Labels
<1>10. LockExcludes'
  BY <1>1 DEF LockExcludes, Locked, PopLabels, TypeOK
<1>11. ASSUME NEW u \in Threads
       PROVE  PopReads(u)' /\ PushReads(u)'
  <2>1. PopReads(u)'
    BY <1>1, <1>4 DEF PopReads, TypeOK
  <2>2. PushReads(u)'
    BY <1>1 DEF PushReads, PushLabels, TypeOK
  <2> QED
    BY <2>1, <2>2
<1>12. StatusAgrees'
  <2>1. \A r \in (InList \cup stray)' : status'[r] = "FREE"
    BY <1>2, <1>4 DEF StatusAgrees
  <2>2. ASSUME NEW u \in Threads, NEW r \in owned'[u]
        PROVE  \/ status'[r] = "USED"
               \/ r = head'[u] /\ pc'[u] \in {"pop_link", "pop_status"}
               \/ r = slot'[u] /\ pc'[u] \in PushLabels
    BY <1>1, <1>2 DEF StatusAgrees, PushLabels, TypeOK
  <2> QED
    BY <2>1, <2>2 DEF StatusAgrees
<1> QED
  BY <1>6, <1>7, <1>8, <1>9, <1>10, <1>11, <1>12

(* A push that lost its CAS: it tries again, or gives up and strands the   *)
(* slot.                                                                   *)
LEMMA PushRetryStep ==
  ASSUME HasSeqlock, IInv, NEW t \in Threads, PushRetry(t)
  PROVE  IInv'
<1> USE DEF IInv, PushRetry, Goto, sharedVars
<1>1. CASE spins[t] + 1 < SpinMax
  <2> USE <1>1
  <2>1. pc' = [pc EXCEPT ![t] = "push_head"] /\ pc[t] = "push_cas"
    OBVIOUS
  <2>2. Popping' = Popping /\ Pushing' = Pushing
    BY <2>1, SameWindows
  <2>3. OwnedOnce' /\ ListLinked' /\ CountExact' /\ InList' = InList
    BY <2>2, Quiet, SameList DEF auxVars
  <2>4. TypeOK'
    BY <2>1 DEF TypeOK, Labels, PopLabels, PushLabels
  <2>5. LockExcludes'
    BY <2>1 DEF LockExcludes, Locked, PopLabels, TypeOK
  <2>6. \A u \in Threads : PopReads(u)' /\ PushReads(u)'
    BY <2>1, <2>3 DEF PopReads, PushReads, PushLabels, TypeOK
  <2>7. StatusAgrees'
    BY <2>1, <2>3 DEF StatusAgrees, PushLabels, TypeOK
  <2> QED
    BY <2>3, <2>4, <2>5, <2>6, <2>7
<1>2. CASE ~(spins[t] + 1 < SpinMax)
  <2> USE <1>2 DEF Return
  <2> DEFINE n == slot[t]
  <2>1. pc' = [pc EXCEPT ![t] = "idle"] /\ pc[t] = "push_cas"
    OBVIOUS
  <2>2. Popping' = Popping /\ Pushing' = Pushing
    BY <2>1, SameWindows
  <2>3. InList' = InList /\ Depth' = Depth
    BY SameList
  <2>4. n \in owned[t] /\ n \in Slots /\ n \notin InList /\ n \notin stray /\ status[n] = "FREE"
    BY <2>1 DEF PushReads, PushLabels, OwnedOnce, TypeOK
  <2>5. /\ \A u \in Threads : u # t => owned'[u] = owned[u]
        /\ owned'[t] = owned[t] \ {n}
        /\ stray' = stray \cup {n}
        /\ owned' \in [Threads -> SUBSET Slots]
    BY DEF TypeOK
  <2>6. \A u \in Threads : n \notin owned'[u]
    BY <2>4, <2>5 DEF OwnedOnce
  <2>7. OwnedOnce'
    <3>1. \A r \in Slots : r \in InList' \/ r \in stray' \/ \E u \in Threads : r \in owned'[u]
      <4> TAKE r \in Slots
      <4>1. r \in InList \/ r \in stray \/ \E u \in Threads : r \in owned[u]
        BY DEF OwnedOnce
      <4> HIDE DEF n
      <4> QED
        BY <2>3, <2>5, <4>1
    <3>2. Slots = InList' \cup stray' \cup UNION {owned'[u] : u \in Threads}
      <4>1. InList' \subseteq Slots /\ stray' \subseteq Slots /\ \A u \in Threads : owned'[u] \subseteq Slots
        BY <2>3, <2>4, <2>5, ListFacts DEF TypeOK
      <4> QED
        BY <3>1, <4>1
    <3>3. InList' \cap stray' = {}
      BY <2>3, <2>4, <2>5 DEF OwnedOnce
    <3>4. \A u \in Threads : owned'[u] \cap (InList' \cup stray') = {}
      BY <2>3, <2>5, <2>6 DEF OwnedOnce
    <3>5. \A u, v \in Threads : u # v => owned'[u] \cap owned'[v] = {}
      BY <2>5 DEF OwnedOnce
    <3> QED
      BY <3>2, <3>3, <3>4, <3>5 DEF OwnedOnce
  <2>8. ListLinked' /\ CountExact'
    BY <2>2, <2>3 DEF ListLinked, CountExact
  <2>9. TypeOK'
    BY <2>1, <2>4, <2>5 DEF TypeOK, Labels, Null
  <2>10. LockExcludes'
    BY <2>1 DEF LockExcludes, Locked, PopLabels, TypeOK
  <2>11. ASSUME NEW u \in Threads
         PROVE  PopReads(u)' /\ PushReads(u)'
    <3>1. PopReads(u)'
      BY <2>1, <2>3, <2>5 DEF PopReads, TypeOK
    <3>2. PushReads(u)'
      BY <2>1, <2>5 DEF PushReads, PushLabels, TypeOK
    <3> QED
      BY <3>1, <3>2
  <2>12. StatusAgrees'
    <3>1. \A r \in (InList \cup stray)' : status'[r] = "FREE"
      BY <2>3, <2>4, <2>5 DEF StatusAgrees
    <3>2. ASSUME NEW u \in Threads, NEW r \in owned'[u]
          PROVE  \/ status'[r] = "USED"
                 \/ r = head'[u] /\ pc'[u] \in {"pop_link", "pop_status"}
                 \/ r = slot'[u] /\ pc'[u] \in PushLabels
      BY <2>1, <2>5 DEF StatusAgrees, PushLabels, TypeOK
    <3> QED
      BY <3>1, <3>2 DEF StatusAgrees
  <2> QED
    BY <2>7, <2>8, <2>9, <2>10, <2>11, <2>12
<1> QED
  BY <1>1, <1>2

(* With every thread idle the slots marked FREE are those on the list and  *)
(* the stranded ones.                                                      *)
LEMMA FreeAtRest ==
  ASSUME IInv, \A t \in Threads : pc[t] = "idle"
  PROVE  FreeSlots = InList \cup stray
<1>1. \A s \in InList \cup stray : s \in Slots /\ status[s] = "FREE"
  BY ListFacts DEF IInv, StatusAgrees, TypeOK
<1>2. \A t \in Threads : \A s \in owned[t] : status[s] # "FREE"
  BY DEF IInv, StatusAgrees, PushLabels
<1>3. \A s \in Slots : s \in InList \cup stray \/ \E t \in Threads : s \in owned[t]
  BY DEF IInv, OwnedOnce
<1> QED
  BY <1>1, <1>2, <1>3 DEF FreeSlots

(* Reopening rebuilds the list of all FREE slots.                          *)
LEMMA ReopenStep ==
  ASSUME HasSeqlock, IInv, Reopen
  PROVE  IInv'
<1> USE DEF IInv
<1> DEFINE F == FreeSlots
<1>1. F = InList \cup stray /\ F \in SUBSET Slots
  BY FreeAtRest DEF FreeSlots, Reopen
<1>2. /\ free_list_head' = LinkFrom(F, 0) /\ free_count' = Cardinality(F)
      /\ next_offset' = [s \in Slots |-> IF s \in F THEN LinkFrom(F, s) ELSE next_offset[s]]
      /\ pos' = [s \in Slots |-> Height(F, s)]
      /\ stray' = {} /\ UNCHANGED <<status, index_write_lock, owned, pc, head, next, slot, spins, err>>
      /\ \A t \in Threads : pc[t] = "idle"
  BY DEF F, Reopen, localVars
<1> HIDE DEF F
<1>3. /\ F = {} => LinkFrom(F, 0) = Null
      /\ F # {} => LinkFrom(F, 0) \in F /\ Height(F, LinkFrom(F, 0)) = Cardinality(F)
      /\ \A s \in Slots : Height(F, s) \in Nat /\ (s \in F <=> Height(F, s) > 0)
      /\ \A s \in F : Height(F, s) <= Cardinality(F)
      /\ \A s, r \in F : Height(F, s) = Height(F, r) => s = r
      /\ \A s \in F : IF Height(F, s) = 1 THEN LinkFrom(F, s) = Null
                      ELSE LinkFrom(F, s) \in F /\ Height(F, LinkFrom(F, s)) = Height(F, s) - 1
  BY <1>1, RebuiltList
<1>4. InList' = F /\ Depth' = Cardinality(F)
  <2>1. \A s \in Slots : pos'[s] > 0 <=> s \in F
    BY <1>2, <1>3
  <2> QED
    BY <1>1, <2>1 DEF InList, Depth
<1>5. Cardinality(F) \in Nat /\ Cardinality(F) <= MaxSlots
  BY <1>1, SlotsFinite
<1>6. TypeOK'
  <2>1. next_offset' \in [Slots -> Slots \cup {Null}]
    <3>1. \A s \in F : LinkFrom(F, s) \in Slots \cup {Null}
      BY <1>1, <1>3
    <3>2. \A s \in Slots : next_offset[s] \in Slots \cup {Null}
      BY DEF TypeOK
    <3> QED
      BY <1>2, <3>1, <3>2
  <2>2. pos' \in [Slots -> Nat]
    BY <1>2, <1>3
  <2>3. free_list_head' \in Slots \cup {Null}
    BY <1>1, <1>2, <1>3
  <2>4. free_count' \in 0..MaxSlots
    BY <1>2, <1>5, CountAssumption, MaxSlotsAssumption
  <2> QED
    BY <1>2, <2>1, <2>2, <2>3, <2>4 DEF TypeOK
<1>7. LockExcludes'
  BY <1>2 DEF LockExcludes, Locked, PopLabels
<1>8. OwnedOnce'
  <2>1. \A u \in Threads : owned[u] \cap F = {}
    BY <1>1 DEF OwnedOnce
  <2> QED
    BY <1>1, <1>2, <1>4, <2>1 DEF OwnedOnce
<1>9. ListLinked'
  <2>1. \A s \in F : s \in Slots /\ pos'[s] = Height(F, s) /\ next_offset'[s] = LinkFrom(F, s)
    BY <1>1, <1>2
  <2>2. free_list_head' = LinkFrom(F, 0)
    BY <1>2
  <2> QED
    BY <1>3, <1>4, <2>1, <2>2 DEF ListLinked
<1>10. CountExact'
  <2>1. Popping' = {} /\ Pushing' = {}
    BY <1>2 DEF Popping, Pushing
  <2> QED
    BY <1>2, <1>4, <1>5, <2>1, FS_EmptySet DEF CountExact
<1>11. \A u \in Threads : PopReads(u)' /\ PushReads(u)'
  BY <1>2 DEF PopReads, PushReads, PushLabels
<1>12. StatusAgrees'
  <2>1. \A r \in F : status[r] = "FREE"
    BY <1>1 DEF StatusAgrees
  <2> QED
    BY <1>2, <1>4, <2>1 DEF StatusAgrees, PushLabels
<1> QED
  BY <1>6, <1>7, <1>8, <1>9, <1>10, <1>11, <1>12

(* The invariant is inductive.                                             *)
LEMMA NextInv ==
  ASSUME HasSeqlock, IInv, [Next]_vars
  PROVE  IInv'
<1>1. CASE Reopen
  BY <1>1, ReopenStep
<1>2. ASSUME NEW t \in Threads, Alloc(t)
      PROVE  IInv'
  <2>1. CASE AllocCall(t) \/ AllocLock(t) \/ PopHead(t) \/ PopCount(t) \/ PopNext(t)
             \/ PopRetry(t) \/ AllocUnlock(t)
    BY <2>1, QuietSteps
  <2>2. CASE PopLink(t)
    BY <2>2, LinkSteps
  <2>3. CASE PopStatus(t)
    BY <2>3, StatusSteps
  <2>4. CASE PopDec(t)
    BY <2>4, CountSteps
  <2>5. CASE PopCas(t)
    BY <2>5, PopCasStep
  <2> QED
    BY <1>2, <2>1, <2>2, <2>3, <2>4, <2>5 DEF Alloc
<1>3. ASSUME NEW t \in Threads, Free(t)
      PROVE  IInv'
  <2>1. CASE FreeLock(t) \/ FreeUnlock(t) \/ PushHead(t)
    BY <2>1, QuietSteps
  <2>2. CASE PushLink(t) \/ \E s \in Slots : FreeCall(t, s)
    BY <2>2, LinkSteps
  <2>3. CASE PushStatus(t)
    BY <2>3, StatusSteps
  <2>4. CASE PushInc(t)
    BY <2>4, CountSteps
  <2>5. CASE PushCas(t)
    BY <2>5, PushCasStep
  <2>6. CASE PushRetry(t)
    BY <2>6, PushRetryStep
  <2> QED
    BY <1>3, <2>1, <2>2, <2>3, <2>4, <2>5, <2>6 DEF Free
<1>4. CASE UNCHANGED vars
  <2> USE <1>4 DEF vars, IInv
  <2>1. InList' = InList /\ Depth' = Depth /\ Popping' = Popping /\ Pushing' = Pushing
    BY DEF InList, Depth, Popping, Pushing
  <2>2. TypeOK'
    BY DEF TypeOK
  <2>3. LockExcludes'
    BY DEF LockExcludes, Locked
  <2>4. OwnedOnce' /\ ListLinked' /\ CountExact'
    BY <2>1, Quiet DEF auxVars
  <2>5. \A u \in Threads : PopReads(u)' /\ PushReads(u)'
    BY <2>1 DEF PopReads, PushReads
  <2>6. StatusAgrees'
    BY <2>1 DEF StatusAgrees
  <2> QED
    BY <2>2, <2>3, <2>4, <2>5, <2>6
<1> QED
  BY <1>1, <1>2, <1>3, <1>4 DEF Next

-----------------------------------------------------------------------------
(* The theorems.                                                           *)

(* With the index write lock of schema 5, the free list of endfields.c     *)
(* keeps its whole inductive invariant, for any number of threads, of      *)
(* slots and of retries.                                                   *)
THEOREM FreeListInvariant ==
  ASSUME HasSeqlock
  PROVE  Spec => []IInv
<1>1. Init => IInv
  BY InitInv
<1>2. IInv /\ [Next]_vars => IInv'
  BY NextInv
<1> QED
  BY <1>1, <1>2, PTL DEF Spec

(* The superblock fields and the locals keep their types: in particular    *)
(* free_count neither goes below zero nor wraps.                           *)
THEOREM FreeListTypeOK ==
  ASSUME HasSeqlock
  PROVE  Spec => []TypeOK
<1>1. IInv => TypeOK
  BY DEF IInv
<1> QED
  BY <1>1, FreeListInvariant, PTL

(* ef_alloc_slot never hands out a slot that somebody holds, that is on    *)
(* the list, or that is stranded.                                          *)
THEOREM SlotOwnedOnce ==
  ASSUME HasSeqlock
  PROVE  Spec => []OwnedOnce
<1>1. IInv => OwnedOnce
  BY DEF IInv
<1> QED
  BY <1>1, FreeListInvariant, PTL

(* The list in memory is well formed at every step of every call.          *)
THEOREM FreeListLinked ==
  ASSUME HasSeqlock
  PROVE  Spec => []ListLinked
<1>1. IInv => ListLinked
  BY DEF IInv
<1> QED
  BY <1>1, FreeListInvariant, PTL

(* free_count is exact up to calls between their CAS and their update.     *)
THEOREM FreeCountExact ==
  ASSUME HasSeqlock
  PROVE  Spec => []CountExact
<1>1. IInv => CountExact
  BY DEF IInv
<1> QED
  BY <1>1, FreeListInvariant, PTL

(* The index write lock excludes, and every path releases it.              *)
THEOREM WriteLockExcludes ==
  ASSUME HasSeqlock
  PROVE  Spec => []LockExcludes
<1>1. IInv => LockExcludes
  BY DEF IInv
<1> QED
  BY <1>1, FreeListInvariant, PTL

(* EF_ERR_SLOT_FULL is reported only when no counted slot is on the list.  *)
THEOREM FullIsJustified ==
  ASSUME HasSeqlock
  PROVE  Spec => FullMeansUncounted
<1>1. ASSUME IInv, [Next]_vars,
             NEW t \in Threads, pc[t] \in {"pop_head", "pop_count"}, pc'[t] = "alloc_unlock"
      PROVE  Depth <= Cardinality(Pushing)
  <2> USE DEF IInv, vars
  <2>1. free_list_head = Null \/ free_count = 0
    <3>1. Next
      BY <1>1 DEF TypeOK
    <3>2. ~Reopen
      BY <1>1 DEF Reopen
    <3>3. PICK u \in Threads : Alloc(u) \/ Free(u)
      BY <3>1, <3>2 DEF Next
    <3>4. \E l : pc' = [pc EXCEPT ![u] = l]
      BY <3>3, Zenon DEF Alloc, Free, AllocCall, AllocLock, LockAcquire, LockBusy, PopHead, PopCount,
        PopNext, PopCas, PopRetry, PopLink, PopStatus, PopDec, AllocUnlock, FreeCall, FreeLock,
        FreeUnlock, PushHead, PushLink, PushStatus, PushCas, PushRetry, PushInc, PopFails, Return, Goto
    <3>5. u = t
      BY <1>1, <3>4 DEF TypeOK
    <3>6. PopHead(t) \/ PopCount(t)
      BY <1>1, <3>3, <3>5, SMTT(60) DEF Alloc, Free, AllocCall, AllocLock, LockAcquire, LockBusy,
        PopNext, PopCas, PopRetry, PopLink, PopStatus, PopDec, AllocUnlock, FreeCall, FreeLock,
        FreeUnlock, PushHead, PushLink, PushStatus, PushCas, PushRetry, PushInc
    <3> QED
      BY <1>1, <3>6 DEF PopHead, PopCount, Goto, TypeOK
  <2>2. ~(t \in Popping) /\ Popping = {}
    BY <1>1 DEF Popping, LockExcludes, Locked, PopLabels
  <2>3. CASE free_list_head = Null
    <3>1. InList = {}
      <4>1. Null \notin InList
        BY ListFacts, SlotsFinite DEF Null
      <4>2. InList # {} => free_list_head \in InList
        BY <1>1 DEF ListLinked
      <4> QED
        BY <2>3, <4>1, <4>2
    <3> QED
      BY <3>1, ListFacts, CountedFinite
  <2>4. CASE free_count = 0
    <3>1. Cardinality(Popping) = 0
      BY <2>2, FS_EmptySet
    <3>2. free_count + Cardinality(Pushing) = Depth + Cardinality(Popping)
      BY <1>1 DEF CountExact
    <3> QED
      BY <2>4, <3>1, <3>2, ListFacts, CountedFinite
  <2> QED
    BY <2>1, <2>3, <2>4
<1>2. IInv /\ [Next]_vars =>
        [\A t \in Threads :
           pc[t] \in {"pop_head", "pop_count"} /\ pc'[t] = "alloc_unlock"
             => Depth <= Cardinality(Pushing)]_vars
  BY <1>1
<1> QED
  BY <1>2, FreeListInvariant, PTL DEF Spec, FullMeansUncounted

-----------------------------------------------------------------------------
(* Refinement: four kinds of step are visible to the pool.                 *)

(* The CAS of a pop takes the slot.                                        *)
LEMMA PopCasTakes ==
  ASSUME IInv, NEW t \in Threads, PopCas(t)
  PROVE  \E s \in Slots : Pool!Take(t, s)
<1>1. head[t] \in InList /\ head[t] \in Slots
  BY ListFacts DEF IInv, PopCas, PopReads
<1>2. InList' = InList \ {head[t]}
  <2>1. pos' = [pos EXCEPT ![head[t]] = 0] /\ pos \in [Slots -> Nat]
    BY DEF PopCas, IInv, TypeOK
  <2> QED
    BY <1>1, <2>1 DEF InList
<1>3. owned' = [owned EXCEPT ![t] = @ \cup {head[t]}] /\ stray' = stray
  BY DEF PopCas
<1> QED
  BY <1>1, <1>2, <1>3 DEF Pool!Take

(* The CAS of a push gives it back.                                        *)
LEMMA PushCasGives ==
  ASSUME IInv, NEW t \in Threads, PushCas(t)
  PROVE  \E s \in Slots : Pool!Give(t, s)
<1>1. slot[t] \in owned[t] /\ slot[t] \in Slots
  BY DEF IInv, PushCas, PushReads, PushLabels, TypeOK
<1>2. InList' = InList \cup {slot[t]}
  <2>1. pos' = [pos EXCEPT ![slot[t]] = Depth + 1] /\ pos \in [Slots -> Nat]
    BY DEF PushCas, IInv, TypeOK
  <2> QED
    BY <1>1, <2>1, ListFacts DEF InList
<1>3. owned' = [owned EXCEPT ![t] = @ \ {slot[t]}] /\ stray' = stray
  BY DEF PushCas
<1> QED
  BY <1>1, <1>2, <1>3 DEF Pool!Give

(* The last failed CAS of a push strands it; an earlier one is invisible.  *)
LEMMA PushRetryStrands ==
  ASSUME IInv, NEW t \in Threads, PushRetry(t)
  PROVE  (\E s \in Slots : Pool!Strand(t, s)) \/ UNCHANGED <<InList, owned, stray>>
<1>1. slot[t] \in owned[t] /\ slot[t] \in Slots
  BY DEF IInv, PushRetry, PushReads, PushLabels, TypeOK
<1>2. InList' = InList
  BY SameList DEF PushRetry
<1>3. \/ owned' = owned /\ stray' = stray
      \/ owned' = [owned EXCEPT ![t] = @ \ {slot[t]}] /\ stray' = stray \cup {slot[t]}
  BY DEF PushRetry
<1> QED
  BY <1>1, <1>2, <1>3 DEF Pool!Strand

(* Reopening collects the stranded slots.                                  *)
LEMMA ReopenReclaims ==
  ASSUME IInv, Reopen
  PROVE  Pool!Reclaim
<1>1. FreeSlots = InList \cup stray /\ FreeSlots \in SUBSET Slots
  BY FreeAtRest DEF Reopen, FreeSlots
<1>2. \A s \in Slots : s \in FreeSlots <=> Height(FreeSlots, s) > 0
  BY <1>1, RebuiltList
<1>3. pos' = [s \in Slots |-> Height(FreeSlots, s)] /\ stray' = {} /\ owned' = owned
  BY DEF Reopen
<1>4. InList' = FreeSlots
  BY <1>1, <1>2, <1>3 DEF InList
<1> QED
  BY <1>1, <1>3, <1>4 DEF Pool!Reclaim

(* Every other step leaves the pool as it is.                              *)
LEMMA OtherStepsStutter ==
  ASSUME NEW t \in Threads, Alloc(t) \/ Free(t), ~PopCas(t), ~PushCas(t), ~PushRetry(t)
  PROVE  UNCHANGED <<InList, owned, stray>>
<1>1. UNCHANGED <<pos, owned, stray>>
  BY SMTT(60) DEF Alloc, Free, AllocCall, AllocLock, LockAcquire, LockBusy, PopHead, PopCount,
    PopNext, PopRetry, PopLink, PopStatus, PopDec, AllocUnlock, FreeCall, FreeLock,
    FreeUnlock, PushHead, PushLink, PushStatus, PushInc, auxVars
<1> QED
  BY <1>1, SameList

(* The compare-and-swap list of endfields.c implements the pool its        *)
(* callers rely on.                                                        *)
THEOREM FreeListImplementsPool ==
  ASSUME HasSeqlock
  PROVE  Spec => ImplementsPool
<1>1. Init => Pool!PoolInit
  <2> SUFFICES ASSUME Init PROVE Pool!PoolInit
    OBVIOUS
  <2>1. \A s \in Slots : Height(Slots, s) > 0
    BY RebuiltList
  <2>2. InList = Slots
    BY <2>1 DEF Init, InList
  <2> QED
    BY <2>2 DEF Init, Pool!PoolInit
<1>2. IInv /\ [Next]_vars => [Pool!PoolNext]_(Pool!poolVars)
  <2> SUFFICES ASSUME IInv, [Next]_vars PROVE Pool!PoolNext \/ UNCHANGED <<InList, owned, stray>>
    BY DEF Pool!poolVars
  <2>1. CASE Reopen
    BY <2>1, ReopenReclaims DEF Pool!PoolNext
  <2>2. ASSUME NEW t \in Threads, Alloc(t) \/ Free(t)
        PROVE  Pool!PoolNext \/ UNCHANGED <<InList, owned, stray>>
    <3>1. CASE PopCas(t)
      BY <3>1, PopCasTakes DEF Pool!PoolNext
    <3>2. CASE PushCas(t)
      BY <3>2, PushCasGives DEF Pool!PoolNext
    <3>3. CASE PushRetry(t)
      BY <3>3, PushRetryStrands DEF Pool!PoolNext
    <3> QED
      BY <2>2, <3>1, <3>2, <3>3, OtherStepsStutter
  <2>3. CASE UNCHANGED vars
    BY <2>3, SameList DEF vars
  <2> QED
    BY <2>1, <2>2, <2>3 DEF Next
<1> QED
  BY <1>1, <1>2, FreeListInvariant, PTL DEF Spec, ImplementsPool, Pool!PoolSpec
=============================================================================
