---------------------------- MODULE EfBlobProofs ----------------------------
(***************************************************************************)
(* Proofs about EfBlob and about the calls of EfSlots that it makes, for   *)
(* every number of slots, length of blobs and sequence of calls.           *)
(***************************************************************************)
EXTENDS EfBlob, FiniteSetTheorems, WellFoundedInduction, TLAPS

LOCAL INSTANCE FiniteSetsExt    \* Min

-----------------------------------------------------------------------------
(* Induction over the natural numbers, in the form used here: about sets,  *)
(* from the fact that every set of natural numbers that is not empty has a *)
(* least element.                                                          *)

(* Every set of natural numbers that is not empty has a least element; the *)
(* loops over slots and entries in src/src stop at the first one.          *)
LEMMA LeastNat ==
  ASSUME NEW T, T \subseteq Nat, T # {}
  PROVE \E n \in T : \A m \in T : n <= m
<1> DEFINE R == {ss \in Nat \X Nat : ss[1] < ss[2]}
<1>1. IsWellFoundedOn(R, Nat)
  BY NatLessThanWellFounded DEF OpToRel
<1>2. \A m, n \in Nat : m < n => <<m, n>> \in R
  OBVIOUS
<1> HIDE DEF R
<1>3. PICK x \in T : \A y \in T : ~(<<y, x>> \in R)
  BY <1>1, WFMin
<1>4. \A y \in T : y \in Nat
  OBVIOUS
<1>5. \A y \in T : x <= y
  <2>1. TAKE y \in T
  <2>2. x \in Nat /\ y \in Nat
    BY <1>4
  <2>3. ~(<<y, x>> \in R)
    BY <1>3
  <2>4. ~(y < x)
    BY <2>2, <2>3, <1>2
  <2> QED BY <2>2, <2>4
<1> QED BY <1>5

(* A set with 0 and with the successor of each of its numbers holds every  *)
(* natural number: what a loop of src/src keeps in each turn, it keeps.    *)
LEMMA SetInduction ==
  ASSUME NEW S, 0 \in S, \A n \in Nat : n \in S => n + 1 \in S
  PROVE \A n \in Nat : n \in S
<1>1. SUFFICES ASSUME NEW n \in Nat, n \notin S PROVE FALSE
  OBVIOUS
<1>2. PICK m \in {k \in Nat : k \notin S} : \A k \in {j \in Nat : j \notin S} : m <= k
  BY <1>1, LeastNat
<1>3. m # 0 /\ m \in Nat /\ m - 1 \in Nat /\ m - 1 \in S
  BY <1>2
<1> QED BY <1>2, <1>3

(* The same up to a bound: a loop of n turns.                              *)
LEMMA BoundedInduction ==
  ASSUME NEW n \in Nat, NEW S, 0 \in S, \A k \in 1..n : k - 1 \in S => k \in S
  PROVE n \in S
<1> DEFINE T == {k \in Nat : k <= n => k \in S}
<1>1. 0 \in T
  OBVIOUS
<1>2. ASSUME NEW k \in Nat, k \in T PROVE k + 1 \in T
  <2>1. CASE k + 1 <= n
    <3>1. k \in S /\ k + 1 \in 1..n /\ (k + 1) - 1 = k
      BY <1>2, <2>1
    <3>2. k + 1 \in S
      BY <3>1
    <3> QED BY <3>2
  <2>2. CASE ~(k + 1 <= n)
    BY <2>2
  <2> QED BY <2>1, <2>2
<1> HIDE DEF T
<1>3. n \in T
  BY <1>1, <1>2, SetInduction
<1> QED BY <1>3 DEF T

(* A function on 1..n is a sequence of length n.                           *)
LEMMA LenOfFunction ==
  ASSUME NEW n \in Nat, NEW S, NEW q \in [1..n -> S]
  PROVE q \in Seq(S) /\ Len(q) = n
OBVIOUS

-----------------------------------------------------------------------------
(* A list that leads from h through every member of F once, where nx[s] is *)
(* the next of s, and has c members.                                       *)

Along(F, nx, h, c, q) ==
  /\ q \in [1..c -> F]
  /\ \A i, j \in 1..c : q[i] = q[j] => i = j
  /\ \A s \in F : \E i \in 1..c : q[i] = s
  /\ h = IF c = 0 THEN 0 ELSE q[1]
  /\ \A i \in 1..c : nx[q[i]] = IF i = c THEN 0 ELSE q[i + 1]

Listed(F, nx, h, c) == c \in Nat /\ 0 \notin F /\ \E q : Along(F, nx, h, c, q)

(* A list has as many members as it has places.                            *)
LEMMA ListCount ==
  ASSUME NEW F, NEW nx, NEW h, NEW c, Listed(F, nx, h, c)
  PROVE IsFiniteSet(F) /\ Cardinality(F) = c
<1>1. PICK q : Along(F, nx, h, c, q)
  BY DEF Listed
<1>2. c \in Nat
  BY DEF Listed
<1> DEFINE Part(k) == {q[i] : i \in 1..k}
           S == {k \in 0..c : IsFiniteSet(Part(k)) /\ Cardinality(Part(k)) = k}
<1>3. 0 \in S
  <2>1. Part(0) = {}
    OBVIOUS
  <2> QED BY <2>1, <1>2, FS_EmptySet
<1>4. ASSUME NEW k \in 1..c, k - 1 \in S PROVE k \in S
  <2>1. Part(k) = Part(k - 1) \cup {q[k]}
    <3>1. 1..k = (1..(k - 1)) \cup {k}
      BY <1>2
    <3> QED BY <3>1
  <2>2. q[k] \notin Part(k - 1)
    <3>1. \A i \in 1..(k - 1) : i \in 1..c /\ i # k
      BY <1>2
    <3> QED BY <1>1, <3>1 DEF Along
  <2>3. k - 1 \in Nat /\ (k - 1) + 1 = k
    BY <1>2
  <2>4. IsFiniteSet(Part(k - 1)) /\ Cardinality(Part(k - 1)) = k - 1
    BY <1>4
  <2> HIDE DEF Part
  <2> QED BY <2>1, <2>2, <2>3, <2>4, FS_AddElement
<1>5. c \in S
  <2> HIDE DEF S
  <2> QED BY <1>2, <1>3, <1>4, BoundedInduction
<1>6. Part(c) = F
  BY <1>1 DEF Along
<1> HIDE DEF Part
<1> QED BY <1>5, <1>6

(* A list of some of the first n slots has at most n members.              *)
LEMMA ListBound ==
  ASSUME NEW F, NEW nx, NEW h, NEW c, Listed(F, nx, h, c), NEW n \in Nat, F \subseteq 1..n
  PROVE c <= n
<1>1. IsFiniteSet(1..n) /\ Cardinality(1..n) = n
  BY FS_Interval
<1>2. Cardinality(F) <= n
  BY <1>1, FS_Subset
<1> QED BY <1>2, ListCount

(* Where the list begins.                                                  *)
LEMMA ListHead ==
  ASSUME NEW F, NEW nx, NEW h, NEW c, Listed(F, nx, h, c)
  PROVE /\ h = 0 <=> c = 0
        /\ h # 0 => h \in F
        /\ c = 0 <=> F = {}
        /\ \A s \in F : nx[s] = 0 \/ nx[s] \in F
<1>1. PICK q : Along(F, nx, h, c, q)
  BY DEF Listed
<1>2. c \in Nat /\ 0 \notin F
  BY DEF Listed
<1>3. ASSUME c # 0 PROVE h \in F
  <2>1. 1 \in 1..c
    BY <1>2, <1>3
  <2> QED BY <2>1, <1>1, <1>3 DEF Along
<1>4. ASSUME c = 0 PROVE h = 0 /\ F = {}
  BY <1>1, <1>4 DEF Along
<1>5. ASSUME NEW s \in F PROVE nx[s] = 0 \/ nx[s] \in F
  <2>1. PICK i \in 1..c : q[i] = s
    BY <1>1 DEF Along
  <2>2. nx[s] = IF i = c THEN 0 ELSE q[i + 1]
    BY <1>1, <2>1 DEF Along
  <2>3. i # c => i + 1 \in 1..c
    BY <1>2
  <2> QED BY <1>1, <2>2, <2>3 DEF Along
<1> QED BY <1>2, <1>3, <1>4, <1>5

(* The list does not look at the next of other slots.                      *)
LEMMA ListSame ==
  ASSUME NEW F, NEW nx, NEW mx, NEW h, NEW c, Listed(F, nx, h, c), \A s \in F : mx[s] = nx[s]
  PROVE Listed(F, mx, h, c)
<1>1. PICK q : Along(F, nx, h, c, q)
  BY DEF Listed
<1>2. Along(F, mx, h, c, q)
  <2>1. ASSUME NEW i \in 1..c PROVE mx[q[i]] = nx[q[i]]
    BY <1>1 DEF Along
  <2> QED BY <1>1, <2>1 DEF Along
<1> QED BY <1>2 DEF Listed

(* ef_free_list_push: a slot is put before the first.                      *)
LEMMA ListPush ==
  ASSUME NEW F, NEW nx, NEW mx, NEW h, NEW c, Listed(F, nx, h, c),
         NEW s, s \notin F, s # 0, mx[s] = h, \A t \in F : mx[t] = nx[t]
  PROVE Listed(F \cup {s}, mx, s, c + 1)
<1>1. PICK q : Along(F, nx, h, c, q)
  BY DEF Listed
<1>2. c \in Nat /\ 0 \notin F
  BY DEF Listed
<1> DEFINE p == [i \in 1..c + 1 |-> IF i = 1 THEN s ELSE q[i - 1]]
<1>3. \A i \in 1..c + 1 : i # 1 => i - 1 \in 1..c
  BY <1>2
<1>3a. \A i \in 1..c : q[i] \in F
  BY <1>1 DEF Along
<1>4. p \in [1..c + 1 -> F \cup {s}]
  BY <1>3, <1>3a
<1>5. \A i, j \in 1..c + 1 : p[i] = p[j] => i = j
  <2>1. TAKE i, j \in 1..c + 1
  <2>2. CASE i = 1 \/ j = 1
    BY <1>3, <1>3a, <2>2
  <2>3. CASE i # 1 /\ j # 1
    <3>1. q[i - 1] = q[j - 1] => i - 1 = j - 1
      BY <1>1, <1>3, <2>3 DEF Along
    <3> QED BY <2>3, <3>1
  <2> QED BY <2>2, <2>3
<1>6. \A t \in F \cup {s} : \E i \in 1..c + 1 : p[i] = t
  <2>1. TAKE t \in F \cup {s}
  <2>2. CASE t = s
    <3>1. 1 \in 1..c + 1 /\ p[1] = s
      BY <1>2
    <3> QED BY <2>2, <3>1
  <2>3. CASE t # s
    <3>1. PICK i \in 1..c : q[i] = t
      BY <1>1, <2>3 DEF Along
    <3>2. i + 1 \in 1..c + 1 /\ i + 1 # 1 /\ (i + 1) - 1 = i
      BY <1>2
    <3> QED BY <3>1, <3>2
  <2> QED BY <2>2, <2>3
<1>7. c + 1 # 0 /\ p[1] = s
  BY <1>2
<1>8. \A i \in 1..c + 1 : mx[p[i]] = IF i = c + 1 THEN 0 ELSE p[i + 1]
  <2>1. TAKE i \in 1..c + 1
  <2>2. CASE i = 1
    <3>1. mx[p[i]] = h
      BY <2>2
    <3>2. CASE c = 0
      <4>1. h = 0
        BY <1>1, <3>2 DEF Along
      <4> QED BY <2>2, <3>1, <3>2, <4>1
    <3>3. CASE c # 0
      <4>1. h = q[1] /\ i + 1 \in 1..c + 1 /\ i + 1 # 1 /\ (i + 1) - 1 = 1 /\ i # c + 1
        BY <1>1, <1>2, <2>2, <3>3 DEF Along
      <4> QED BY <3>1, <4>1
    <3> QED BY <3>2, <3>3
  <2>3. CASE i # 1
    <3>1. i - 1 \in 1..c
      BY <1>3, <2>3
    <3>2. mx[p[i]] = nx[q[i - 1]]
      BY <2>3, <3>1, <1>3a
    <3>3. nx[q[i - 1]] = IF i - 1 = c THEN 0 ELSE q[(i - 1) + 1]
      BY <1>1, <3>1 DEF Along
    <3>4. i # c + 1 => i + 1 \in 1..c + 1 /\ i + 1 # 1 /\ (i + 1) - 1 = (i - 1) + 1 /\ i - 1 # c
      BY <1>2
    <3>5. i = c + 1 => i - 1 = c
      BY <1>2
    <3> QED BY <3>2, <3>3, <3>4, <3>5
  <2> QED BY <2>2, <2>3
<1> HIDE DEF p
<1>9. Along(F \cup {s}, mx, s, c + 1, p)
  BY <1>4, <1>5, <1>6, <1>7, <1>8 DEF Along
<1> QED BY <1>2, <1>9 DEF Listed

(* The place at number m is left out of a list.                            *)
LEMMA ListDrop ==
  ASSUME NEW F, NEW nx, NEW mx, NEW h, NEW c \in Nat, 0 \notin F, NEW q, Along(F, nx, h, c, q),
         NEW m \in 1..c,
         m # 1 => mx[q[m - 1]] = nx[q[m]],
         \A t \in F : t # q[m] /\ (m # 1 => t # q[m - 1]) => mx[t] = nx[t]
  PROVE Listed(F \ {q[m]}, mx, IF m = 1 THEN nx[q[1]] ELSE h, c - 1)
<1> DEFINE s == q[m]
           g == IF m = 1 THEN nx[q[1]] ELSE h
           p == [i \in 1..c - 1 |-> IF i < m THEN q[i] ELSE q[i + 1]]
<1>1. \A i \in 1..c - 1 : i \in 1..c /\ i + 1 \in 1..c
  OBVIOUS
<1>2. \A i \in 1..c : q[i] \in F
  BY DEF Along
<1>3. \A i, j \in 1..c : q[i] = q[j] => i = j
  BY DEF Along
<1>4. \A i \in 1..c - 1 : p[i] \in F \ {s}
  BY <1>1, <1>2, <1>3
<1>5. p \in [1..c - 1 -> F \ {s}]
  BY <1>4
<1>6. \A i, j \in 1..c - 1 : p[i] = p[j] => i = j
  BY <1>1, <1>3
<1>7. \A t \in F \ {s} : \E i \in 1..c - 1 : p[i] = t
  <2>1. TAKE t \in F \ {s}
  <2>2. PICK i \in 1..c : q[i] = t
    BY DEF Along
  <2>3. CASE i < m
    <3>1. i \in 1..c - 1
      BY <2>3
    <3> QED BY <2>2, <2>3, <3>1
  <2>4. CASE i > m
    <3>1. i - 1 \in 1..c - 1 /\ ~(i - 1 < m) /\ (i - 1) + 1 = i
      BY <2>4
    <3> QED BY <2>2, <3>1
  <2> QED BY <2>2, <2>3, <2>4
<1>8. \A i \in 1..c : nx[q[i]] = IF i = c THEN 0 ELSE q[i + 1]
  BY DEF Along
<1>9. \A i \in 1..c - 1 : mx[p[i]] = IF i = c - 1 THEN 0 ELSE p[i + 1]
  <2>1. TAKE i \in 1..c - 1
  <2>2. CASE i < m /\ i # m - 1
    <3>1. p[i] = q[i] /\ i \in 1..c /\ i # m - 1 /\ i # m /\ m - 1 \in 1..c
      BY <2>2
    <3>2. q[i] # q[m] /\ q[i] # q[m - 1] /\ q[i] \in F
      BY <1>2, <1>3, <3>1
    <3>3. mx[p[i]] = nx[q[i]]
      BY <3>1, <3>2
    <3>4. i # c /\ i + 1 < m /\ i # c - 1 /\ i + 1 \in 1..c - 1
      BY <2>2
    <3> QED BY <1>8, <3>1, <3>3, <3>4
  <2>3. CASE i = m - 1
    <3>1. p[i] = q[m - 1] /\ m # 1
      BY <2>3
    <3>2. mx[p[i]] = nx[q[m]]
      BY <3>1
    <3>3. i = c - 1 <=> m = c
      BY <2>3
    <3>4. i # c - 1 => i + 1 = m /\ m \in 1..c - 1 /\ p[m] = q[m + 1]
      BY <2>3
    <3> QED BY <1>8, <3>2, <3>3, <3>4
  <2>4. CASE ~(i < m)
    <3>1. p[i] = q[i + 1] /\ i + 1 \in 1..c /\ i + 1 # m /\ (m # 1 => i + 1 # m - 1 /\ m - 1 \in 1..c)
      BY <2>4
    <3>2. q[i + 1] # q[m] /\ (m # 1 => q[i + 1] # q[m - 1]) /\ q[i + 1] \in F
      BY <1>2, <1>3, <3>1
    <3>3. mx[p[i]] = nx[q[i + 1]]
      BY <3>1, <3>2
    <3>4. i = c - 1 <=> i + 1 = c
      OBVIOUS
    <3>5. ASSUME i # c - 1 PROVE i + 1 \in 1..c - 1 /\ p[i + 1] = q[(i + 1) + 1]
      <4>1. i + 1 \in 1..c - 1 /\ ~(i + 1 < m)
        BY <2>4, <3>5
      <4> QED BY <4>1
    <3> QED BY <1>8, <3>1, <3>3, <3>4, <3>5
  <2> QED BY <2>2, <2>3, <2>4
<1>10. g = IF c - 1 = 0 THEN 0 ELSE p[1]
  <2>1. h = q[1] /\ 1 \in 1..c
    BY DEF Along
  <2>2. CASE m = 1
    <3>1. g = IF 1 = c THEN 0 ELSE q[1 + 1]
      BY <1>8, <2>1, <2>2
    <3>2. c - 1 # 0 => 1 \in 1..c - 1 /\ p[1] = q[1 + 1]
      BY <2>2
    <3>3. c - 1 = 0 <=> 1 = c
      OBVIOUS
    <3> HIDE DEF g, p
    <3> QED BY <3>1, <3>2, <3>3
  <2>3. CASE m # 1
    <3>1. c - 1 # 0 /\ 1 \in 1..c - 1 /\ p[1] = q[1]
      BY <2>3
    <3> QED BY <2>1, <2>3, <3>1
  <2> QED BY <2>2, <2>3
<1> HIDE DEF p, g, s
<1>11. Along(F \ {s}, mx, g, c - 1, p)
  BY <1>5, <1>6, <1>7, <1>9, <1>10 DEF Along
<1>12. Listed(F \ {s}, mx, g, c - 1)
  BY <1>11 DEF Listed
<1> QED BY <1>12 DEF s, g
(* ef_free_list_pop: the first slot is taken.                              *)
LEMMA ListPop ==
  ASSUME NEW F, NEW nx, NEW mx, NEW h, NEW c, Listed(F, nx, h, c), h # 0,
         \A t \in F : t # h => mx[t] = nx[t]
  PROVE Listed(F \ {h}, mx, nx[h], c - 1)
<1>1. PICK q : Along(F, nx, h, c, q)
  BY DEF Listed
<1>2. c \in Nat /\ 0 \notin F /\ c # 0
  BY ListHead DEF Listed
<1>3. h = q[1] /\ 1 \in 1..c
  BY <1>1, <1>2 DEF Along
<1> HIDE DEF Listed
<1>4. Listed(F \ {q[1]}, mx, IF 1 = 1 THEN nx[q[1]] ELSE h, c - 1)
  BY <1>1, <1>2, <1>3, ListDrop
<1> QED BY <1>2, <1>3, <1>4

(* No slot of the list is its own next.                                    *)
LEMMA ListPrev ==
  ASSUME NEW F, NEW nx, NEW h, NEW c, Listed(F, nx, h, c), NEW p \in F, nx[p] \in F
  PROVE p # nx[p]
<1>1. PICK q : Along(F, nx, h, c, q)
  BY DEF Listed
<1>2. c \in Nat /\ 0 \notin F
  BY DEF Listed
<1>3. PICK i \in 1..c : q[i] = p
  BY <1>1 DEF Along
<1>4. nx[p] = IF i = c THEN 0 ELSE q[i + 1]
  BY <1>1, <1>3 DEF Along
<1>5. i # c /\ i + 1 \in 1..c /\ i + 1 # i
  BY <1>2, <1>4
<1>6. q[i + 1] # q[i]
  BY <1>1, <1>5 DEF Along
<1> QED BY <1>3, <1>4, <1>5, <1>6

(* ef_unlink_free_slot: a slot is taken from behind the one before it.     *)
LEMMA ListUnlink ==
  ASSUME NEW F, NEW nx, NEW h, NEW c, Listed(F, nx, h, c), NEW s \in F,
         NEW p \in F, nx[p] = s, NEW mx, mx[p] = nx[s],
         \A t \in F : t # s /\ t # p => mx[t] = nx[t]
  PROVE Listed(F \ {s}, mx, h, c - 1)
<1>1. PICK q : Along(F, nx, h, c, q)
  BY DEF Listed
<1>2. c \in Nat /\ 0 \notin F
  BY DEF Listed
<1>3. PICK i \in 1..c : q[i] = p
  BY <1>1 DEF Along
<1>4. s = IF i = c THEN 0 ELSE q[i + 1]
  BY <1>1, <1>3 DEF Along
<1> DEFINE m == i + 1
<1>5. i # c /\ m \in 1..c /\ q[m] = s /\ m # 1 /\ m - 1 = i
  BY <1>2, <1>4
<1> HIDE DEF m
<1>6. mx[q[m - 1]] = nx[q[m]]
  BY <1>3, <1>5
<1>7. \A t \in F : t # q[m] /\ (m # 1 => t # q[m - 1]) => mx[t] = nx[t]
  BY <1>3, <1>5
<1>8. Listed(F \ {q[m]}, mx, IF m = 1 THEN nx[q[1]] ELSE h, c - 1)
  BY <1>1, <1>2, <1>5, <1>6, <1>7, ListDrop
<1> QED BY <1>5, <1>8

(* The first member of a set of slots, 0 if there is none.                 *)
FirstOf(S) == IF S = {} THEN 0 ELSE Min(S)

(* ef_rebuild_free_list: a list in ascending order, from its end on.       *)
LEMMA ListRebuilt ==
  ASSUME NEW n \in Nat, NEW F, F \subseteq 1..n, NEW nx
  PROVE (\A s \in F : nx[s] = FirstOf({t \in F : t > s})) =>
          Listed(F, nx, FirstOf(F), Cardinality(F))
<1> DEFINE Rest(k) == {t \in F : t > n - k}
           S == {k \in 0..n : \E c : Listed(Rest(k), nx, FirstOf(Rest(k)), c)}
<1>0. \A t \in F : t \in Int /\ 1 <= t /\ t <= n
  OBVIOUS
<1>a. Rest(0) = {} /\ Rest(n) = F
  <2>1. ASSUME NEW t \in F PROVE ~(t > n - 0) /\ t > n - n
    BY <1>0
  <2> QED BY <2>1
<1>b. ASSUME NEW k \in 1..n
      PROVE /\ (n - k) + 1 \notin F => Rest(k) = Rest(k - 1)
            /\ Rest(k) \subseteq Rest(k - 1) \cup {(n - k) + 1}
            /\ (n - k) + 1 \in F => Rest(k) = Rest(k - 1) \cup {(n - k) + 1}
            /\ (n - k) + 1 \notin Rest(k - 1)
            /\ \A t \in Rest(k) : t \in Nat /\ (n - k) + 1 <= t
            /\ Rest(k - 1) = {t \in F : t > (n - k) + 1}
  <2>1. n - (k - 1) = (n - k) + 1
    OBVIOUS
  <2>2. ASSUME NEW t \in F
        PROVE /\ t \in Nat
              /\ t > n - k <=> t > (n - k) + 1 \/ t = (n - k) + 1
              /\ t > n - k => (n - k) + 1 <= t
    BY <1>0
  <2>3. ~((n - k) + 1 > (n - k) + 1)
    OBVIOUS
  <2> QED BY <2>1, <2>2, <2>3
<1> HAVE \A s \in F : nx[s] = FirstOf({t \in F : t > s})
<1>1. 0 \in S
  <2>1. Rest(0) = {}
    BY <1>a
  <2> DEFINE q == [i \in 1..0 |-> 0]
  <2>2. Along({}, nx, 0, 0, q)
    BY DEF Along
  <2>3. Listed({}, nx, 0, 0)
    BY <2>2 DEF Listed
  <2> QED BY <2>1, <2>3 DEF FirstOf
<1>2. ASSUME NEW k \in 1..n, k - 1 \in S PROVE k \in S
  <2> DEFINE s == (n - k) + 1
  <2>1. PICK c : Listed(Rest(k - 1), nx, FirstOf(Rest(k - 1)), c)
    BY <1>2
  <2>2. n - (k - 1) = s /\ s \in 1..n /\ s \in Int
    OBVIOUS
  <2>3. CASE s \notin F
    <3>1. Rest(k) = Rest(k - 1)
      BY <1>b, <2>3
    <3> HIDE DEF Rest
    <3> QED BY <2>1, <3>1
  <2>4. CASE s \in F
    <3>1. Rest(k) = Rest(k - 1) \cup {s} /\ s \notin Rest(k - 1)
      BY <1>b, <2>4
    <3>2. Rest(k - 1) = {t \in F : t > s}
      BY <1>b
    <3>3. nx[s] = FirstOf(Rest(k - 1))
      BY <2>4, <3>2
    <3>4. s \in Rest(k) /\ \A t \in Rest(k) : t \in Nat /\ s <= t
      BY <1>b, <3>1
    <3>5. FirstOf(Rest(k)) = s
      <4>1. Rest(k) # {} /\ s \in Nat
        BY <3>4, <2>2
      <4>2. PICK x \in Rest(k) : x = Min(Rest(k)) /\ \A y \in Rest(k) : x <= y
        <5>1. \E x \in Rest(k) : \A y \in Rest(k) : x <= y
          BY <3>4
        <5> HIDE DEF Rest
        <5> QED BY <5>1 DEF Min
      <4> HIDE DEF Rest
      <4>3. x <= s /\ s <= x /\ x \in Nat
        BY <4>2, <3>4
      <4>4. x = s
        BY <4>1, <4>3
      <4> QED BY <4>1, <4>2, <4>4 DEF FirstOf
    <3> HIDE DEF Rest
    <3>6. s # 0
      BY <2>2
    <3> HIDE DEF s
    <3>7. Listed(Rest(k - 1) \cup {s}, nx, s, c + 1)
      BY <2>1, <3>1, <3>3, <3>6, ListPush
    <3>8. k \in 0..n /\ Listed(Rest(k), nx, FirstOf(Rest(k)), c + 1)
      BY <3>1, <3>5, <3>7
    <3> QED BY <3>8
  <2> QED BY <2>3, <2>4
<1>3. Rest(n) = F
  BY <1>a
<1> HIDE DEF Rest
<1>4. \E c : Listed(Rest(n), nx, FirstOf(Rest(n)), c)
  <2> HIDE DEF S
  <2>1. n \in S
    BY <1>1, <1>2, BoundedInduction
  <2> QED BY <2>1 DEF S
<1>5. PICK c : Listed(F, nx, FirstOf(F), c)
  BY <1>3, <1>4
<1> QED BY <1>5, ListCount

-----------------------------------------------------------------------------
(* Databases: the slots in range, the free list exact, the sums right but  *)
(* for those of the slots in X, which are in use and about to get theirs.  *)

SlotFields == {"status", "next", "payload", "crc"}
DbFields == {"slot", "head", "count", "index", "qhead", "qtail"}
Statuses == {"FREE", "USED", "OVERFLOW"}

IsSlot(x, n) == DOMAIN x = SlotFields /\ x.status \in Statuses /\ x.next \in 0..n

Shape(e) ==
  /\ DOMAIN e = DbFields /\ e.index = << >>
  /\ Size(e) \in Nat /\ Size(e) <= Room
  /\ e.slot = [i \in 1..Size(e) |-> e.slot[i]]
  /\ \A i \in 1..Size(e) : IsSlot(e.slot[i], Size(e))

Frees(e) == {i \in 1..Size(e) : e.slot[i].status = "FREE"}
Links(e) == [i \in 1..Size(e) |-> e.slot[i].next]
Pool(e) == Listed(Frees(e), Links(e), e.head, e.count)

Sums(e, X) ==
  /\ \A i \in 1..Size(e) : i \notin X => CrcValid(e.slot[i])
  /\ \A i \in X : i \in 1..Size(e) /\ e.slot[i].status = "USED"

Good(e, X) == Shape(e) /\ Pool(e) /\ Sums(e, X)

(* From e to f the slots that are not in T keep what they hold, or stay    *)
(* FREE, or are new and FREE.                                              *)
Same(x, y) == x.status = y.status /\ x.next = y.next /\ x.payload = y.payload

Others(e, f, T) ==
  /\ Size(f) >= Size(e)
  /\ \A i \in 1..Size(f) : i \notin T =>
       IF i <= Size(e) /\ e.slot[i].status # "FREE" THEN Same(f.slot[i], e.slot[i])
       ELSE f.slot[i].status = "FREE"

(* A function on the first n numbers is a sequence of length n.            *)
LEMMA LenIs ==
  ASSUME NEW n \in Nat, NEW q, q = [i \in 1..n |-> q[i]]
  PROVE Len(q) = n
<1>1. q \in [1..n -> {q[i] : i \in 1..n}]
  OBVIOUS
<1> QED BY <1>1, LenOfFunction

(* What ef_slot_header_crc_store leaves of a slot.                         *)
LEMMA StampIs ==
  ASSUME NEW x, DOMAIN x = SlotFields
  PROVE /\ DOMAIN Stamp(x) = SlotFields /\ Stamp(x).status = x.status
        /\ Stamp(x).next = x.next /\ Stamp(x).payload = x.payload
        /\ CrcValid(Stamp(x))
<1> DEFINE y == Stamp(x)
           v == Sum(x)
<1>1. y = [x EXCEPT !.crc = v]
  BY DEF Stamp
<1> HIDE DEF y, v
<1>2. /\ DOMAIN y = SlotFields /\ y.status = x.status /\ y.next = x.next
      /\ y.payload = x.payload /\ y.crc = v
  BY <1>1 DEF SlotFields
<1>3. Sum(y) = v
  BY <1>2 DEF Sum, FullSum, v
<1>4. CrcValid(y)
  BY <1>2, <1>3 DEF CrcValid
<1> QED BY <1>2, <1>4 DEF y

(* A FREE slot has no sum.                                                 *)
LEMMA FreeValid ==
  ASSUME NEW x, x.status = "FREE"
  PROVE CrcValid(x)
BY DEF CrcValid, HasCrc, LinkCrc

LEMMA EmptyIs ==
  /\ DOMAIN EmptySlot = SlotFields /\ EmptySlot.status = "FREE" /\ EmptySlot.next = 0
  /\ EmptySlot.payload = ZeroPayload
BY DEF EmptySlot, SlotFields

(* What the others keep in two steps, they keep in both.                   *)
LEMMA OthersTrans ==
  ASSUME NEW e, NEW f, NEW g, NEW T, NEW U, Size(e) \in Nat, Size(f) \in Nat, Size(g) \in Nat,
         Others(e, f, T), Others(f, g, U)
  PROVE Others(e, g, T \cup U)
<1>1. Size(g) >= Size(e)
  BY DEF Others
<1>2. ASSUME NEW i \in 1..Size(g), i \notin T \cup U
      PROVE IF i <= Size(e) /\ e.slot[i].status # "FREE" THEN Same(g.slot[i], e.slot[i])
            ELSE g.slot[i].status = "FREE"
  <2>1. IF i <= Size(f) /\ f.slot[i].status # "FREE" THEN Same(g.slot[i], f.slot[i])
        ELSE g.slot[i].status = "FREE"
    BY <1>2 DEF Others
  <2>2. CASE i <= Size(f)
    <3>1. i \in 1..Size(f)
      BY <2>2
    <3>2. IF i <= Size(e) /\ e.slot[i].status # "FREE" THEN Same(f.slot[i], e.slot[i])
          ELSE f.slot[i].status = "FREE"
      BY <1>2, <3>1 DEF Others
    <3> QED BY <2>1, <2>2, <3>2 DEF Same
  <2>3. CASE ~(i <= Size(f))
    <3>1. ~(i <= Size(e))
      BY <2>3 DEF Others
    <3> QED BY <2>1, <2>3, <3>1
  <2> QED BY <2>2, <2>3
<1> QED BY <1>1, <1>2 DEF Others

LEMMA OthersSelf ==
  ASSUME NEW e, NEW T, Size(e) \in Nat
  PROVE Others(e, e, T)
BY DEF Others, Same

LEMMA OthersMore ==
  ASSUME NEW e, NEW f, NEW T, NEW U, T \subseteq U, Others(e, f, T)
  PROVE Others(e, f, U)
BY DEF Others

(* From e to f one slot is stored.                                         *)
Stored(e, f, s, x) ==
  DOMAIN f = DbFields /\ f.index = e.index /\ f.slot = [e.slot EXCEPT ![s] = x]

(* The shape is kept, and the other slots are.                             *)
LEMMA StoreShape ==
  ASSUME NEW e, Shape(e), NEW s \in 1..Size(e), NEW x, IsSlot(x, Size(e)),
         NEW f, Stored(e, f, s, x)
  PROVE /\ Shape(f) /\ Size(f) = Size(e)
        /\ f.slot[s] = x /\ \A i \in 1..Size(e) : i # s => f.slot[i] = e.slot[i]
<1> DEFINE n == Size(e)
<1>1. n \in Nat /\ n <= Room /\ e.index = << >>
  BY DEF Shape
<1>2. e.slot = [i \in 1..n |-> e.slot[i]]
  BY DEF Shape
<1> HIDE DEF n
<1>3. f.slot = [i \in 1..n |-> f.slot[i]] /\ \A i \in 1..n : f.slot[i] = IF i = s THEN x ELSE e.slot[i]
  BY <1>2 DEF n, Stored
<1>4. Size(f) = n
  BY <1>1, <1>3, LenIs DEF Size
<1>5. \A i \in 1..n : IsSlot(f.slot[i], n)
  BY <1>3 DEF Shape, n
<1>6. Shape(f)
  BY <1>1, <1>3, <1>4, <1>5 DEF Shape, Stored
<1> QED BY <1>3, <1>4, <1>6 DEF n

(* From e to f every slot but s is what it was.                            *)
Elsewhere(e, f, s) == \A i \in 1..Size(e) : i # s => f.slot[i] = e.slot[i]

(* A slot that is not FREE is stored, and is not FREE afterwards: the free *)
(* list does not notice, and the sum of the slot is what was stored.       *)
LEMMA StoreGood ==
  ASSUME NEW e, NEW X, Good(e, X), NEW s \in 1..Size(e), e.slot[s].status # "FREE",
         NEW x, IsSlot(x, Size(e)), x.status # "FREE",
         NEW f, Stored(e, f, s, x),
         f.head = e.head, f.count = e.count,
         NEW Y, (Y = X \ {s} /\ CrcValid(x)) \/ (Y = X \cup {s} /\ x.status = "USED")
  PROVE /\ Good(f, Y) /\ Size(f) = Size(e) /\ Others(e, f, {s})
        /\ f.slot[s] = x /\ Elsewhere(e, f, s)
<1>1. /\ Shape(f) /\ Size(f) = Size(e)
      /\ f.slot[s] = x /\ \A i \in 1..Size(e) : i # s => f.slot[i] = e.slot[i]
  <2>1. Shape(e)
    BY DEF Good
  <2> QED BY <2>1, StoreShape
<1>2. Frees(f) = Frees(e)
  BY <1>1 DEF Frees
<1>3. \A i \in Frees(e) : Links(f)[i] = Links(e)[i]
  BY <1>1 DEF Frees, Links
<1>4. Pool(f)
  BY <1>2, <1>3, ListSame DEF Good, Pool
<1>5. Sums(f, Y)
  BY <1>1 DEF Good, Sums
<1>6. Size(e) \in Nat
  BY DEF Good, Shape
<1>7. Others(e, f, {s})
  BY <1>1, <1>6 DEF Others, Same
<1> QED BY <1>1, <1>4, <1>5, <1>7 DEF Good, Elsewhere

-----------------------------------------------------------------------------
(* The free list in a database.                                            *)

LEMMA GoodParts ==
  ASSUME NEW e, NEW X, Good(e, X)
  PROVE /\ Size(e) \in Nat /\ Size(e) <= Room /\ DOMAIN e = DbFields /\ e.index = << >>
        /\ e.slot = [i \in 1..Size(e) |-> e.slot[i]]
        /\ \A i \in 1..Size(e) : IsSlot(e.slot[i], Size(e))
        /\ e.count \in Nat /\ e.count <= Size(e)
        /\ e.head = 0 <=> e.count = 0
        /\ e.head # 0 => e.head \in 1..Size(e) /\ e.slot[e.head].status = "FREE"
        /\ e.head \in 0..Size(e)
        /\ X \subseteq 1..Size(e)
<1>1. Shape(e) /\ Listed(Frees(e), Links(e), e.head, e.count)
  BY DEF Good, Pool
<1>2. Size(e) \in Nat /\ Frees(e) \subseteq 1..Size(e)
  BY <1>1 DEF Shape, Frees
<1>3. e.count \in Nat /\ e.count <= Size(e)
  BY <1>1, <1>2, ListBound DEF Listed
<1>4. (e.head = 0 <=> e.count = 0) /\ (e.head # 0 => e.head \in Frees(e))
  BY <1>1, ListHead
<1>5. e.head \in 0..Size(e)
  BY <1>2, <1>4
<1> QED BY <1>1, <1>2, <1>3, <1>4, <1>5 DEF Shape, Frees, Good, Sums

(* ef_free_list_pop_atomic: the first slot of the list is taken.           *)
LEMMA PopGood ==
  ASSUME NEW e, NEW X, Good(e, X), e.head # 0,
         NEW x, IsSlot(x, Size(e)), x.status # "FREE", CrcValid(x),
         NEW f, Stored(e, f, e.head, x),
         f.head = e.slot[e.head].next, f.count = e.count - 1
  PROVE /\ Good(f, X) /\ Size(f) = Size(e) /\ Others(e, f, {e.head}) /\ e.head \notin X
        /\ f.slot[e.head] = x /\ \A i \in 1..Size(e) : i # e.head => f.slot[i] = e.slot[i]
<1> DEFINE s == e.head
<1>1. s \in 1..Size(e) /\ e.slot[s].status = "FREE"
  BY GoodParts
<1>2. /\ Shape(f) /\ Size(f) = Size(e)
      /\ f.slot[s] = x /\ \A i \in 1..Size(e) : i # s => f.slot[i] = e.slot[i]
  <2>1. Shape(e)
    BY DEF Good
  <2>2. Stored(e, f, s, x)
    OBVIOUS
  <2> HIDE DEF s
  <2> QED BY <1>1, <2>1, <2>2, StoreShape
<1>3. s \notin X
  BY <1>1 DEF Good, Sums
<1>4. Frees(f) = Frees(e) \ {s}
  BY <1>2 DEF Frees
<1>5. \A i \in Frees(e) : i # s => Links(f)[i] = Links(e)[i]
  BY <1>2 DEF Frees, Links
<1>6. Links(e)[s] = f.head
  BY <1>1 DEF Links
<1>7. Listed(Frees(e) \ {s}, Links(f), Links(e)[s], e.count - 1)
  <2> DEFINE F == Frees(e)
             nx == Links(e)
             mx == Links(f)
             c == e.count
  <2>1. Listed(F, nx, s, c) /\ s # 0
    BY DEF Good, Pool
  <2>2. \A t \in F : t # s => mx[t] = nx[t]
    BY <1>5
  <2> HIDE DEF s, F, nx, mx, c
  <2>3. Listed(F \ {s}, mx, nx[s], c - 1)
    BY <2>1, <2>2, ListPop
  <2> QED BY <2>3 DEF F, nx, mx, c
<1>8. Pool(f)
  BY <1>4, <1>6, <1>7 DEF Pool
<1>9. Sums(f, X)
  BY <1>2, <1>3 DEF Good, Sums
<1>10. Size(e) \in Nat
  BY GoodParts
<1>11. Others(e, f, {s})
  BY <1>2, <1>10 DEF Others, Same
<1> QED BY <1>2, <1>3, <1>8, <1>9, <1>11 DEF Good

(* ef_return_slot_to_pool of a slot that is not FREE.                      *)
LEMMA ReturnGood ==
  ASSUME Room < CountMod,
         NEW e, NEW X, Good(e, X), NEW s \in 1..Size(e), e.slot[s].status # "FREE", s \notin X,
         NEW r, r = ReturnSlot(e, s)
  PROVE /\ Good(r, X) /\ Size(r) = Size(e) /\ Others(e, r, {s})
        /\ r.slot[s].status = "FREE" /\ Elsewhere(e, r, s)
<1> DEFINE x == [EmptySlot EXCEPT !.next = e.head]
           c == (e.count + 1) % CountMod
           f == [e EXCEPT !.slot[s] = x, !.head = s, !.count = c]
<1>1. /\ Size(e) \in Nat /\ Size(e) <= Room /\ DOMAIN e = DbFields /\ e.index = << >>
      /\ e.count \in Nat /\ e.head \in 0..Size(e)
  BY GoodParts
<1>2. RemoveBySlot(e, s) = e
  BY <1>1 DEF RemoveBySlot
<1>3. r = f
  BY <1>2 DEF ReturnSlot
<1>4. DOMAIN x = SlotFields /\ x.status = "FREE" /\ x.next = e.head
  BY EmptyIs DEF SlotFields
<1> HIDE DEF x, c
<1>5. Stored(e, f, s, x) /\ f.head = s /\ f.count = c
  BY <1>1 DEF DbFields, Stored
<1> HIDE DEF f
<1>6. IsSlot(x, Size(e))
  BY <1>1, <1>4 DEF IsSlot, Statuses
<1>7. /\ Shape(f) /\ Size(f) = Size(e)
      /\ f.slot[s] = x /\ \A i \in 1..Size(e) : i # s => f.slot[i] = e.slot[i]
  <2>1. Shape(e)
    BY DEF Good
  <2> QED BY <1>5, <1>6, <2>1, StoreShape
<1>8. Frees(f) = Frees(e) \cup {s} /\ s \notin Frees(e)
  BY <1>4, <1>7 DEF Frees
<1>9. \A i \in Frees(e) : Links(f)[i] = Links(e)[i]
  BY <1>7, <1>8 DEF Frees, Links
<1>10. Links(f)[s] = e.head /\ s # 0
  BY <1>4, <1>7 DEF Links
<1>11. Listed(Frees(f), Links(f), s, e.count + 1)
  BY <1>8, <1>9, <1>10, ListPush DEF Good, Pool
<1>12. e.count + 1 <= Size(e)
  <2>1. Frees(f) \subseteq 1..Size(e)
    BY <1>7 DEF Frees
  <2> QED BY <1>1, <1>11, <2>1, ListBound
<1>13. c = e.count + 1
  <2>1. e.count + 1 \in 0..(CountMod - 1) /\ CountMod \in Nat \ {0}
    BY <1>1, <1>12, CapAssumption, BlobAssumption
  <2> QED BY <2>1 DEF c
<1>14. Pool(f)
  BY <1>5, <1>11, <1>13 DEF Pool
<1>15. Sums(f, X)
  BY <1>4, <1>7, FreeValid DEF Good, Sums
<1>16. Others(e, f, {s})
  BY <1>1, <1>7 DEF Others, Same
<1> QED BY <1>3, <1>4, <1>7, <1>14, <1>15, <1>16 DEF Good, Elsewhere

(* A slot is appended.                                                     *)
LEMMA AppendIs ==
  ASSUME NEW n \in Nat, NEW q, q = [i \in 1..n |-> q[i]], NEW x
  PROVE LET p == Append(q, x) IN
        /\ Len(p) = n + 1 /\ p = [i \in 1..n + 1 |-> p[i]]
        /\ p[n + 1] = x /\ \A i \in 1..n : p[i] = q[i]
<1> DEFINE S == {q[i] : i \in 1..n} \cup {x}
<1>1. q \in [1..n -> S]
  OBVIOUS
<1>2. q \in Seq(S) /\ Len(q) = n /\ x \in S
  BY <1>1, LenOfFunction
<1> HIDE DEF S
<1>3. Append(q, x) \in Seq(S) /\ Len(Append(q, x)) = n + 1
  BY <1>2
<1>4. DOMAIN Append(q, x) = 1..n + 1
  BY <1>3
<1> QED BY <1>2, <1>3, <1>4

(* ef_grow by one slot; the new slot is the first of the list.             *)
LEMMA GrowGood ==
  ASSUME Room < CountMod, NEW e, NEW X, Good(e, X), NEW r, r = GrowSlots(e, Room, FALSE)
  PROVE /\ r.err # "OK" => r.db = e
        /\ r.err = "OK" => /\ Good(r.db, X) /\ Size(r.db) = Size(e) + 1 /\ Others(e, r.db, {})
                           /\ r.db.head # 0 /\ r.db.count # 0 /\ r.db.head = Size(e) + 1
                           /\ \A i \in 1..Size(e) : r.db.slot[i] = e.slot[i]
<1> DEFINE x == [EmptySlot EXCEPT !.next = e.head]
           c == (e.count + 1) % CountMod
           n == Size(e)
           f == [e EXCEPT !.slot = Append(@, x), !.head = n + 1, !.count = c]
<1>1. /\ n \in Nat /\ n <= Room /\ DOMAIN e = DbFields /\ e.index = << >>
      /\ e.count \in Nat /\ e.count <= n /\ e.head \in 0..n
      /\ e.slot = [i \in 1..n |-> e.slot[i]]
      /\ \A i \in 1..n : IsSlot(e.slot[i], n)
  BY GoodParts
<1>2. DOMAIN x = SlotFields /\ x.status = "FREE" /\ x.next = e.head
  BY EmptyIs DEF SlotFields
<1>3. \/ n >= Room /\ r.err = "FILE_SIZE" /\ r.db = e
      \/ ~(n >= Room) /\ r.err = "OK" /\ r.db = f
  BY DEF GrowSlots, Refuse, Marked, Result
<1> HIDE DEF x, c
<1>4. /\ DOMAIN f = DbFields /\ f.index = e.index /\ f.slot = Append(e.slot, x)
      /\ f.head = n + 1 /\ f.count = c
  BY <1>1 DEF DbFields
<1> HIDE DEF f, n
<1>5. /\ Len(f.slot) = n + 1 /\ f.slot = [i \in 1..n + 1 |-> f.slot[i]]
      /\ f.slot[n + 1] = x /\ \A i \in 1..n : f.slot[i] = e.slot[i]
  BY <1>1, <1>4, AppendIs
<1>6. SUFFICES ASSUME ~(n >= Room), r.db = f, r.err = "OK"
               PROVE /\ Good(f, X) /\ Size(f) = n + 1 /\ Others(e, f, {})
                     /\ f.head # 0 /\ f.count # 0 /\ f.head = n + 1
                     /\ \A i \in 1..n : f.slot[i] = e.slot[i]
  BY <1>3 DEF n
<1>7. Size(f) = n + 1
  BY <1>5 DEF Size
<1>8. n + 1 <= Room /\ n + 1 \in Nat
  BY <1>1, <1>6, BlobAssumption
<1>9. ASSUME NEW i \in 1..n + 1 PROVE IsSlot(f.slot[i], n + 1)
  <2>1. CASE i = n + 1
    BY <1>1, <1>2, <1>5, <2>1 DEF IsSlot, Statuses
  <2>2. CASE i # n + 1
    <3>1. i \in 1..n
      BY <1>1, <2>2
    <3>2. f.slot[i] = e.slot[i] /\ IsSlot(e.slot[i], n)
      BY <1>1, <1>5, <3>1
    <3>3. 0..n \subseteq 0..n + 1
      BY <1>1
    <3> QED BY <3>2, <3>3 DEF IsSlot
  <2> QED BY <2>1, <2>2
<1>10. Shape(f)
  BY <1>1, <1>4, <1>5, <1>7, <1>8, <1>9 DEF Shape
<1>11. \A i \in 1..n + 1 : i \in 1..n \/ i = n + 1
  BY <1>1
<1>12. 1..n \subseteq 1..n + 1 /\ n + 1 \in 1..n + 1 /\ n + 1 \notin 1..n
  BY <1>1
<1>13. Frees(f) = Frees(e) \cup {n + 1} /\ n + 1 \notin Frees(e)
  <2>1. Frees(e) = {i \in 1..n : e.slot[i].status = "FREE"}
    BY DEF Frees, n
  <2>2. Frees(f) = {i \in 1..n + 1 : f.slot[i].status = "FREE"}
    BY <1>7 DEF Frees
  <2> QED BY <2>1, <2>2, <1>2, <1>5, <1>11, <1>12
<1>14. Links(f)[n + 1] = e.head /\ n + 1 # 0 /\ \A i \in Frees(e) : Links(f)[i] = Links(e)[i]
  <2>1. Links(f) = [i \in 1..n + 1 |-> f.slot[i].next] /\ Links(e) = [i \in 1..n |-> e.slot[i].next]
    BY <1>7 DEF Links, n
  <2>2. Frees(e) \subseteq 1..n
    BY DEF Frees, n
  <2>3. Links(f)[n + 1] = e.head
    BY <2>1, <1>2, <1>5, <1>12
  <2>4. n + 1 # 0
    BY <1>1
  <2>5. ASSUME NEW i \in Frees(e) PROVE Links(f)[i] = Links(e)[i]
    <3>1. i \in 1..n /\ i \in 1..n + 1
      BY <2>2, <1>12
    <3>2. f.slot[i] = e.slot[i]
      BY <1>5, <3>1
    <3> QED BY <2>1, <3>1, <3>2
  <2> QED BY <2>3, <2>4, <2>5
<1>15. Listed(Frees(f), Links(f), n + 1, e.count + 1)
  BY <1>13, <1>14, ListPush DEF Good, Pool
<1>16. c = e.count + 1 /\ c # 0
  <2>1. e.count + 1 \in 0..(CountMod - 1) /\ CountMod \in Nat \ {0}
    BY <1>1, <1>8, CapAssumption, BlobAssumption
  <2>2. c = e.count + 1
    BY <2>1 DEF c
  <2> QED BY <1>1, <2>2
<1>17. Pool(f)
  BY <1>4, <1>15, <1>16 DEF Pool
<1>18. Sums(f, X)
  <2>1. \A i \in X : i \in 1..n /\ e.slot[i].status = "USED"
    BY DEF Good, Sums, n
  <2>2. \A i \in 1..n : i \notin X => CrcValid(e.slot[i])
    BY DEF Good, Sums, n
  <2> QED BY <1>2, <1>5, <1>7, <1>11, <1>12, <2>1, <2>2, FreeValid DEF Sums
<1>19. Others(e, f, {})
  <2>1. \A i \in 1..n + 1 : i <= n => i \in 1..n
    BY <1>1
  <2>2. \A i \in 1..n + 1 : ~(i <= n) => i = n + 1
    BY <1>1
  <2>3. Size(e) = n /\ n + 1 >= n
    BY <1>1 DEF n
  <2> QED BY <2>1, <2>2, <2>3, <1>2, <1>5, <1>7 DEF Others, Same
<1> QED BY <1>4, <1>5, <1>7, <1>10, <1>14, <1>16, <1>17, <1>18, <1>19 DEF Good

-----------------------------------------------------------------------------
(* Allocation.                                                             *)

(* A call took the slot r.got from the free list.                          *)
Taken(e, r, X) ==
  LET s == r.got IN
  /\ r.err = "OK" /\ Good(r.db, X) /\ Size(r.db) >= Size(e) /\ Others(e, r.db, {s})
  /\ s \in 1..Size(r.db) /\ s \notin X /\ (s <= Size(e) => e.slot[s].status = "FREE")
  /\ r.db.slot[s].status = "USED" /\ r.db.slot[s].next = 0

(* ef_alloc_slot takes the first slot of the list, if there is one.        *)
LEMMA AllocGood ==
  ASSUME NEW e, NEW X, Good(e, X), NEW r, r = AllocSlot(e)
  PROVE /\ e.head = 0 => r.err = "SLOT_FULL" /\ r.db = e
        /\ e.head # 0 => Taken(e, r, X) /\ DOMAIN r = {"db", "err", "recs", "got", "marked"}
<1> DEFINE s == e.head
           x == Stamp([EmptySlot EXCEPT !.status = "USED"])
           f == [e EXCEPT !.head = e.slot[s].next, !.count = @ - 1, !.slot[s] = x]
<1>1. /\ Size(e) \in Nat /\ DOMAIN e = DbFields /\ e.count \in Nat
      /\ e.head = 0 <=> e.count = 0
      /\ e.head # 0 => e.head \in 1..Size(e) /\ e.slot[e.head].status = "FREE"
  BY GoodParts
<1>2. e.head = 0 => r.err = "SLOT_FULL" /\ r.db = e
  BY DEF AllocSlot, Refuse, Result
<1>3. SUFFICES ASSUME e.head # 0
               PROVE Taken(e, r, X) /\ DOMAIN r = {"db", "err", "recs", "got", "marked"}
  BY <1>2
<1>4. r.err = "OK" /\ r.db = f /\ r.got = s /\ DOMAIN r = {"db", "err", "recs", "got", "marked"}
  <2> DEFINE g == f
             q == <<Rec("SLOT_ALLOC", s), CountRec(-1)>>
  <2>1. r = [Marked(g, "OK", q) EXCEPT !.got = s]
    BY <1>1, <1>3 DEF AllocSlot
  <2> HIDE DEF g, q
  <2>2. r.err = "OK" /\ r.db = g /\ r.got = s /\ DOMAIN r = {"db", "err", "recs", "got", "marked"}
    BY <2>1 DEF Marked, Result
  <2> QED BY <2>2 DEF g
<1>5. DOMAIN x = SlotFields /\ x.status = "USED" /\ x.next = 0 /\ CrcValid(x)
  <2> DEFINE y == [EmptySlot EXCEPT !.status = "USED"]
  <2>1. DOMAIN y = SlotFields /\ y.status = "USED" /\ y.next = 0
    BY EmptyIs DEF SlotFields
  <2> HIDE DEF y
  <2>2. x = Stamp(y)
    BY DEF y
  <2> QED BY <2>1, <2>2, StampIs
<1> HIDE DEF x
<1>6. Stored(e, f, e.head, x) /\ f.head = e.slot[e.head].next /\ f.count = e.count - 1
  BY <1>1 DEF DbFields, Stored
<1> HIDE DEF f
<1>7. IsSlot(x, Size(e))
  BY <1>1, <1>5 DEF IsSlot, Statuses
<1>8. /\ Good(f, X) /\ Size(f) = Size(e) /\ Others(e, f, {e.head}) /\ e.head \notin X
      /\ f.slot[e.head] = x
  BY <1>3, <1>5, <1>6, <1>7, PopGood
<1> QED BY <1>1, <1>3, <1>4, <1>5, <1>8 DEF Taken

(* ef_alloc takes a slot or leaves the database as it was.                 *)
LEMMA AllocGrowingGood ==
  ASSUME Room < CountMod, NEW e, NEW X, Good(e, X), NEW r, r = AllocGrowing(e, Room, FALSE)
  PROVE /\ r.err # "OK" => r.db = e
        /\ r.err = "OK" => Taken(e, r, X)
<1> DEFINE a == AllocSlot(e)
           g == GrowSlots(e, Room, FALSE)
           b == AllocSlot(g.db)
<1>1. /\ e.head = 0 => a.err = "SLOT_FULL" /\ a.db = e
      /\ e.head # 0 => Taken(e, a, X)
  BY AllocGood
<1>2. /\ g.err # "OK" => g.db = e
      /\ g.err = "OK" => /\ Good(g.db, X) /\ Size(g.db) = Size(e) + 1 /\ Others(e, g.db, {})
                         /\ g.db.head # 0 /\ g.db.head = Size(e) + 1
  BY GrowGood
<1>3. r = IF a.err # "SLOT_FULL" THEN a ELSE IF g.err # "OK" THEN g ELSE [b EXCEPT !.marked = TRUE]
  BY DEF AllocGrowing
<1>4. CASE e.head # 0
  <2>1. r = a
    BY <1>1, <1>3, <1>4 DEF Taken
  <2> QED BY <1>1, <1>4, <2>1 DEF Taken
<1>5. CASE e.head = 0 /\ g.err # "OK"
  <2>1. r = g
    BY <1>1, <1>3, <1>5
  <2> QED BY <1>2, <1>5, <2>1
<1>6. CASE e.head = 0 /\ g.err = "OK"
  <2>1. r = [b EXCEPT !.marked = TRUE]
    BY <1>1, <1>3, <1>6
  <2>2. Taken(g.db, b, X) /\ DOMAIN b = {"db", "err", "recs", "got", "marked"}
    BY <1>2, <1>6, AllocGood
  <2>2a. b.got = g.db.head
    BY <1>2, <1>6, GoodParts DEF AllocSlot, Marked, Result
  <2> HIDE DEF b, g
  <2>3. r.db = b.db /\ r.err = b.err /\ r.got = b.got
    BY <2>1, <2>2
  <2>4. Size(e) \in Nat /\ Size(g.db) \in Nat /\ Size(b.db) \in Nat
    BY <1>2, <1>6, <2>2, GoodParts DEF Taken
  <2>5. Others(e, b.db, {} \cup {b.got})
    BY <1>2, <1>6, <2>2, <2>4, OthersTrans DEF Taken
  <2>6. {} \cup {b.got} = {b.got}
    OBVIOUS
  <2>7. Others(e, b.db, {b.got})
    BY <2>5, <2>6
  <2>8. b.got = Size(e) + 1 /\ ~(b.got <= Size(e)) /\ Size(b.db) >= Size(e)
    BY <1>2, <1>6, <2>2, <2>2a, <2>4 DEF Taken
  <2> QED BY <2>2, <2>3, <2>7, <2>8 DEF Taken
<1> QED BY <1>4, <1>5, <1>6

-----------------------------------------------------------------------------
(* Walking the free list.                                                  *)

IsCursor(v, e) ==
  v = [k \in 0..Size(e) |->
         IF k = 0 THEN e.head ELSE IF v[k - 1] = 0 THEN 0 ELSE e.slot[v[k - 1]].next]

(* The walk of ef_unlink_free_slot comes to the members of the list in     *)
(* their order and then to its end.                                        *)
LEMMA CursorIs ==
  ASSUME NEW e, NEW X, Good(e, X), NEW q, Along(Frees(e), Links(e), e.head, e.count, q)
  PROVE /\ DOMAIN Cursor(e) = 0..Size(e)
        /\ \A k \in 0..Size(e) : Cursor(e)[k] = IF k < e.count THEN q[k + 1] ELSE 0
<1> DEFINE n == Size(e)
           c == e.count
           at(k) == IF k < c THEN q[k + 1] ELSE 0
           g == [k \in 0..n |-> at(k)]
           v == CHOOSE u : IsCursor(u, e)
<1>1. n \in Nat /\ c \in Nat /\ c <= n
  BY GoodParts
<1>2. at(0) = e.head
  BY <1>1 DEF Along
<1>3. ASSUME NEW k \in 1..n
      PROVE at(k) = IF at(k - 1) = 0 THEN 0 ELSE e.slot[at(k - 1)].next
  <2>1. CASE k - 1 < c
    <3>1. k \in 1..c
      BY <1>1, <2>1
    <3>2. at(k - 1) = q[k] /\ q[k] \in Frees(e)
      BY <1>1, <2>1, <3>1 DEF Along
    <3>3. q[k] # 0 /\ Links(e)[q[k]] = e.slot[q[k]].next
      BY <3>2 DEF Frees, Links
    <3>4. Links(e)[q[k]] = IF k = c THEN 0 ELSE q[k + 1]
      BY <3>1 DEF Along
    <3>5. at(k) = IF k = c THEN 0 ELSE q[k + 1]
      BY <1>1, <3>1
    <3> HIDE DEF at
    <3> QED BY <3>2, <3>3, <3>4, <3>5
  <2>2. CASE ~(k - 1 < c)
    BY <1>1, <2>2
  <2> QED BY <2>1, <2>2
<1> HIDE DEF at, n, c
<1>4. \A k \in 0..n : k # 0 => k - 1 \in 0..n /\ k \in 1..n
  BY <1>1
<1>5. g = [k \in 0..n |-> IF k = 0 THEN e.head
                          ELSE IF g[k - 1] = 0 THEN 0 ELSE e.slot[g[k - 1]].next]
  BY <1>2, <1>3, <1>4
<1>6. IsCursor(g, e)
  BY <1>5 DEF IsCursor, n
<1> HIDE DEF g
<1>7. IsCursor(v, e)
  BY <1>6
<1>8. Cursor(e) = v
  BY DEF Cursor, IsCursor
<1> HIDE DEF v
<1>9. v = [k \in 0..n |-> IF k = 0 THEN e.head
                          ELSE IF v[k - 1] = 0 THEN 0 ELSE e.slot[v[k - 1]].next]
  BY <1>7 DEF IsCursor, n
<1> DEFINE S == {k \in Nat : k \in 0..n => v[k] = at(k)}
<1>10. 0 \in S
  BY <1>1, <1>2, <1>9
<1>11. ASSUME NEW k \in Nat, k \in S PROVE k + 1 \in S
  <2>1. SUFFICES ASSUME k + 1 \in 0..n PROVE v[k + 1] = at(k + 1)
    BY DEF S
  <2>2. k \in 0..n /\ k + 1 \in 1..n /\ k + 1 # 0 /\ (k + 1) - 1 = k
    BY <1>1, <2>1
  <2>3. v[k] = at(k)
    BY <1>11, <2>2
  <2>4. v[k + 1] = IF v[k] = 0 THEN 0 ELSE e.slot[v[k]].next
    BY <1>9, <2>1, <2>2
  <2>5. at(k + 1) = IF at(k) = 0 THEN 0 ELSE e.slot[at(k)].next
    BY <1>3, <2>2
  <2> QED BY <2>3, <2>4, <2>5
<1> HIDE DEF S
<1>12. \A k \in Nat : k \in S
  BY <1>10, <1>11, SetInduction
<1>13. \A k \in 0..n : v[k] = at(k)
  BY <1>12 DEF S
<1>14. DOMAIN v = 0..n
  BY <1>9
<1> QED BY <1>8, <1>13, <1>14 DEF at, n, c

(* A member of the list other than the first is found behind another one.  *)
LEMMA CursorBefore ==
  ASSUME NEW e, NEW X, Good(e, X), NEW s \in Frees(e), s # e.head
  PROVE LET v == Cursor(e)
            before == {k \in DOMAIN v : v[k] # 0 /\ e.slot[v[k]].next = s} IN
        /\ before # {} /\ v[Min(before)] \in Frees(e) /\ Links(e)[v[Min(before)]] = s
<1> DEFINE v == Cursor(e)
           before == {k \in DOMAIN v : v[k] # 0 /\ e.slot[v[k]].next = s}
           n == Size(e)
           c == e.count
<1>1. n \in Nat /\ c \in Nat /\ c <= n
  BY GoodParts
<1>2. PICK q : Along(Frees(e), Links(e), e.head, c, q)
  BY DEF Good, Pool, Listed
<1>3. DOMAIN v = 0..n /\ \A k \in 0..n : v[k] = IF k < c THEN q[k + 1] ELSE 0
  BY <1>2, CursorIs
<1> HIDE DEF v
<1>4. ASSUME NEW k \in before PROVE k \in Nat /\ v[k] \in Frees(e) /\ Links(e)[v[k]] = s
  <2>1. k \in 0..n /\ v[k] # 0 /\ e.slot[v[k]].next = s
    BY <1>3, <1>4
  <2>2. k < c /\ k + 1 \in 1..c
    BY <1>1, <1>3, <2>1
  <2>3. v[k] \in Frees(e)
    BY <1>2, <1>3, <2>1, <2>2 DEF Along
  <2> QED BY <2>1, <2>3 DEF Frees, Links
<1>5. before # {}
  <2>1. PICK m \in 1..c : q[m] = s
    BY <1>2 DEF Along
  <2>2. m # 1
    BY <1>2, <2>1 DEF Along
  <2>3. m - 1 \in 1..c /\ m - 1 # c /\ (m - 1) + 1 = m /\ m - 2 \in 0..n /\ m - 2 < c /\ (m - 2) + 1 = m - 1
    BY <1>1, <2>2
  <2>4. v[m - 2] = q[m - 1] /\ q[m - 1] \in Frees(e) /\ Links(e)[q[m - 1]] = s
    BY <1>2, <1>3, <2>1, <2>3 DEF Along
  <2>5. v[m - 2] # 0 /\ e.slot[v[m - 2]].next = s
    BY <2>4 DEF Frees, Links
  <2>6. m - 2 \in before
    BY <1>3, <2>3, <2>5
  <2> QED BY <2>6
<1>6. before \subseteq Nat
  BY <1>4
<1> HIDE DEF before
<1>7. Min(before) \in before
  BY <1>5, <1>6, LeastNat DEF Min
<1> QED BY <1>4, <1>5, <1>7 DEF before, v

(* ef_claim_slot, with ef_unlink_free_slot, of a FREE slot, which can be   *)
(* anywhere in the list.                                                   *)
LEMMA ClaimGood ==
  ASSUME NEW e, NEW X, Good(e, X), NEW s \in 1..Size(e), e.slot[s].status = "FREE",
         NEW r, r = ClaimSlot(e, s)
  PROVE /\ r.err = "OK" /\ Good(r.db, X) /\ Size(r.db) = Size(e) /\ Others(e, r.db, {s})
        /\ r.db.slot[s].status = "USED" /\ r.db.slot[s].next = 0 /\ s \notin X
<1> DEFINE n == Size(e)
           v == Cursor(e)
           before == {k \in DOMAIN v : v[k] # 0 /\ e.slot[v[k]].next = s}
           p == v[Min(before)]
           f == [e EXCEPT !.head = e.slot[s].next, !.slot[s].next = 0]
           g == [e EXCEPT !.slot[p].next = e.slot[s].next, !.slot[s].next = 0]
           h == IF e.head = s THEN f ELSE g
           u == Unlink(e, s)
           y == [h.slot[s] EXCEPT !.status = "USED"]
           x == Stamp(y)
<1>1. /\ n \in Nat /\ n <= Room /\ DOMAIN e = DbFields /\ e.index = << >>
      /\ e.count \in Nat /\ e.slot = [i \in 1..n |-> e.slot[i]]
      /\ \A i \in 1..n : IsSlot(e.slot[i], n)
      /\ e.head = 0 <=> e.count = 0
  BY GoodParts
<1>2. s \in Frees(e)
  BY DEF Frees
<1>3. e.head # s => before # {} /\ p \in Frees(e) /\ Links(e)[p] = s
  BY <1>2, CursorBefore
<1>4. u = Result(h, "OK", << >>)
  BY <1>3 DEF Unlink
<1>4a. p \in Frees(e) => p \in 1..n /\ e.slot[p].status = "FREE" /\ Links(e)[p] = e.slot[p].next
  BY DEF Frees, Links
<1> HIDE DEF v, before, p
<1>5. /\ DOMAIN h = DbFields /\ h.index = << >> /\ h.count = e.count
      /\ h.head = IF e.head = s THEN e.slot[s].next ELSE e.head
      /\ h.slot = [i \in 1..n |-> h.slot[i]]
  BY <1>1, <1>3, <1>4a DEF DbFields
<1>6. ASSUME NEW i \in 1..n
      PROVE /\ DOMAIN h.slot[i] = SlotFields
            /\ h.slot[i].status = e.slot[i].status /\ h.slot[i].payload = e.slot[i].payload
            /\ h.slot[i].next = IF i = s THEN 0
                                ELSE IF e.head # s /\ i = p THEN e.slot[s].next
                                ELSE e.slot[i].next
            /\ i # s /\ e.slot[i].status # "FREE" => h.slot[i] = e.slot[i]
  <2>1. DOMAIN e.slot[i] = SlotFields
    BY <1>1 DEF IsSlot
  <2>2. CASE e.head = s
    BY <1>1, <1>3, <1>4a, <2>1, <2>2 DEF DbFields, SlotFields
  <2>3. CASE e.head # s
    <3>1. p \in 1..n /\ DOMAIN e.slot[p] = SlotFields /\ DOMAIN e.slot[s] = SlotFields
      BY <1>1, <1>3, <1>4a, <2>3 DEF IsSlot
    <3>2. CASE i = s
      BY <1>1, <2>1, <2>3, <3>1, <3>2 DEF DbFields, SlotFields
    <3>3. CASE i # s /\ i = p
      BY <1>1, <1>3, <1>4a, <2>1, <2>3, <3>1, <3>3 DEF DbFields, SlotFields
    <3>4. CASE i # s /\ i # p
      BY <1>1, <2>1, <2>3, <3>1, <3>4 DEF DbFields, SlotFields
    <3> QED BY <3>2, <3>3, <3>4
  <2> QED BY <2>2, <2>3
<1> HIDE DEF h
<1>7. DOMAIN y = SlotFields /\ y.status = "USED" /\ y.next = 0 /\ y.payload = e.slot[s].payload
  BY <1>6 DEF SlotFields
<1> HIDE DEF y
<1>8. DOMAIN x = SlotFields /\ x.status = "USED" /\ x.next = 0 /\ CrcValid(x)
  BY <1>7, StampIs
<1> DEFINE k == IF e.count > 0 THEN e.count - 1 ELSE 0
           db == [h EXCEPT !.slot[s] = x, !.count = k]
<1>9. r.err = "OK" /\ r.db = db
  <2>1. u.err = "OK" /\ u.db = h /\ DOMAIN u = {"db", "err", "recs", "got", "marked"}
    BY <1>4 DEF Result
  <2>2. r = [u EXCEPT !.db.slot[s] = Stamp([@ EXCEPT !.status = "USED"]),
                      !.db.count = IF @ > 0 THEN @ - 1 ELSE 0,
                      !.marked = TRUE]
    BY <2>1 DEF ClaimSlot
  <2> HIDE DEF u
  <2>3. r.err = "OK" /\ r.db = [h EXCEPT !.slot[s] = Stamp([@ EXCEPT !.status = "USED"]),
                                         !.count = IF @ > 0 THEN @ - 1 ELSE 0]
    BY <2>1, <2>2
  <2> QED BY <2>3, <1>5 DEF x, y, k, DbFields
<1> HIDE DEF x, u, k
<1>10. /\ DOMAIN db = DbFields /\ db.index = << >> /\ db.head = h.head /\ db.count = k
       /\ db.slot = [i \in 1..n |-> db.slot[i]]
       /\ \A i \in 1..n : db.slot[i] = IF i = s THEN x ELSE h.slot[i]
  BY <1>5 DEF DbFields
<1> HIDE DEF db
<1>11. Size(db) = n
  BY <1>1, <1>10, LenIs DEF Size
<1>12. ASSUME NEW i \in 1..n PROVE IsSlot(db.slot[i], n)
  <2>1. e.slot[i].status \in Statuses /\ e.slot[i].next \in 0..n /\ e.slot[s].next \in 0..n /\ 0 \in 0..n
    BY <1>1 DEF IsSlot
  <2> QED BY <1>6, <1>8, <1>10, <2>1 DEF IsSlot, Statuses
<1>13. Shape(db)
  BY <1>1, <1>10, <1>11, <1>12 DEF Shape
<1>14. Frees(db) = Frees(e) \ {s}
  <2>1. Frees(e) = {i \in 1..n : e.slot[i].status = "FREE"} /\ Frees(db) = {i \in 1..n : db.slot[i].status = "FREE"}
    BY <1>11 DEF Frees
  <2> QED BY <2>1, <1>6, <1>8, <1>10
<1>15. \A i \in Frees(e) : i # s => Links(db)[i] = IF e.head # s /\ i = p THEN Links(e)[s] ELSE Links(e)[i]
  <2>1. Frees(e) \subseteq 1..n
    BY DEF Frees
  <2>2. \A i \in 1..n : Links(e)[i] = e.slot[i].next /\ Links(db)[i] = db.slot[i].next
    BY <1>11 DEF Links
  <2> QED BY <2>1, <2>2, <1>6, <1>10
<1>16. Listed(Frees(e), Links(e), e.head, e.count)
  BY DEF Good, Pool
<1>17. k = e.count - 1
  <2>1. Frees(e) # {}
    BY <1>2
  <2>2. e.count # 0
    BY <1>16, <2>1, ListHead
  <2> QED BY <1>1, <2>2 DEF k
<1>18. Pool(db)
  <2>1. CASE e.head = s
    <3>1. \A i \in Frees(e) : i # s => Links(db)[i] = Links(e)[i]
      BY <1>15, <2>1
    <3>2. s # 0 /\ Listed(Frees(e), Links(e), s, e.count)
      BY <1>16, <2>1
    <3>3. Listed(Frees(e) \ {s}, Links(db), Links(e)[s], e.count - 1)
      BY <3>1, <3>2, ListPop
    <3>4. db.head = Links(e)[s]
      BY <1>5, <1>10, <2>1 DEF Links
    <3> QED BY <1>10, <1>14, <1>17, <3>3, <3>4 DEF Pool
  <2>2. CASE e.head # s
    <3>1. p \in Frees(e) /\ Links(e)[p] = s /\ p # s
      BY <1>2, <1>3, <1>16, <2>2, ListPrev
    <3>2. Links(db)[p] = Links(e)[s] /\ \A i \in Frees(e) : i # s /\ i # p => Links(db)[i] = Links(e)[i]
      BY <1>15, <2>2, <3>1
    <3>3. Listed(Frees(e) \ {s}, Links(db), e.head, e.count - 1)
      <4> DEFINE F == Frees(e)
                 nx == Links(e)
                 mx == Links(db)
                 c == e.count
      <4>1. Listed(F, nx, e.head, c) /\ s \in F /\ p \in F /\ nx[p] = s /\ mx[p] = nx[s]
        BY <1>2, <1>16, <3>1, <3>2
      <4>2. \A t \in F : t # s /\ t # p => mx[t] = nx[t]
        BY <3>2
      <4> HIDE DEF F, nx, mx, c
      <4>3. Listed(F \ {s}, mx, e.head, c - 1)
        BY <4>1, <4>2, ListUnlink
      <4> QED BY <4>3 DEF F, nx, mx, c
    <3>4. db.head = e.head
      BY <1>5, <1>10, <2>2
    <3> QED BY <1>10, <1>14, <1>17, <3>3, <3>4 DEF Pool
  <2> QED BY <2>1, <2>2
<1>19. s \notin X
  BY DEF Good, Sums
<1>20. Sums(db, X)
  <2>1. \A i \in X : i \in 1..n /\ e.slot[i].status = "USED"
    BY DEF Good, Sums
  <2>2. \A i \in 1..n : i \notin X => CrcValid(e.slot[i])
    BY DEF Good, Sums
  <2>3. ASSUME NEW i \in 1..n, i \notin X PROVE CrcValid(db.slot[i])
    <3>1. CASE i = s
      BY <1>8, <1>10, <3>1
    <3>2. CASE i # s /\ e.slot[i].status = "FREE"
      <4>1. db.slot[i].status = "FREE"
        BY <1>6, <1>10, <3>2
      <4> QED BY <4>1, FreeValid
    <3>3. CASE i # s /\ e.slot[i].status # "FREE"
      <4>1. db.slot[i] = e.slot[i]
        BY <1>6, <1>10, <3>3
      <4> QED BY <2>2, <2>3, <4>1
    <3> QED BY <3>1, <3>2, <3>3
  <2>4. ASSUME NEW i \in X PROVE i \in 1..n /\ db.slot[i].status = "USED"
    BY <1>6, <1>8, <1>10, <2>1
  <2> QED BY <1>11, <2>3, <2>4 DEF Sums
<1>21. Others(e, db, {s})
  <2>1. Size(e) = n /\ n >= n /\ \A i \in 1..n : i <= n
    BY <1>1
  <2> QED BY <1>6, <1>10, <1>11, <2>1 DEF Others, Same
<1> QED BY <1>8, <1>9, <1>10, <1>11, <1>13, <1>18, <1>19, <1>20, <1>21 DEF Good

-----------------------------------------------------------------------------
(* Rebuilding the free list.                                               *)

(* ef_rebuild_free_list with ef_db_refresh_checksums keeps what the slots  *)
(* in use hold, and makes a list of the others.                            *)
LEMMA RebuildGood ==
  ASSUME NEW e, Good(e, {})
  PROVE /\ Good(RebuildFreeList(e), {}) /\ Size(RebuildFreeList(e)) = Size(e)
        /\ Others(e, RebuildFreeList(e), {})
<1> DEFINE n == Size(e)
           F == {i \in 1..n : e.slot[i].status = "FREE"}
           after(i) == FirstOf({t \in F : t > i})
           a == [i \in 1..n |-> IF i \in F THEN [e.slot[i] EXCEPT !.next = after(i)] ELSE e.slot[i]]
           g == [e EXCEPT !.slot = a, !.head = FirstOf(F), !.count = Cardinality(F)]
           b == [i \in 1..n |-> IF HasCrc(a[i].status) THEN Stamp(a[i]) ELSE a[i]]
           f == [g EXCEPT !.slot = b]
<1>1. /\ n \in Nat /\ n <= Room /\ DOMAIN e = DbFields /\ e.index = << >>
      /\ \A i \in 1..n : IsSlot(e.slot[i], n)
  BY GoodParts
<1>2. Frees(e) = F /\ F \subseteq 1..n
  BY DEF Frees
<1>3. ASSUME NEW S, S \subseteq 1..n PROVE FirstOf(S) \in 0..n
  <2>1. CASE S = {}
    BY <1>1, <2>1 DEF FirstOf
  <2>2. CASE S # {}
    <3>1. S \subseteq Nat
      BY <1>1, <1>3
    <3>2. Min(S) \in S
      BY <2>2, <3>1, LeastNat DEF Min
    <3>3. Min(S) \in 1..n
      BY <1>3, <3>2
    <3> QED BY <1>1, <2>2, <3>3 DEF FirstOf
  <2> QED BY <2>1, <2>2
<1>4. ASSUME NEW i PROVE after(i) \in 0..n
  <2>1. {t \in F : t > i} \subseteq 1..n
    BY <1>2
  <2> QED BY <1>3, <2>1
<1>5. RebuildFreeList(e) = f
  <2>1. Size(g) = n
    <3> HIDE DEF a
    <3>1. g.slot = a
      BY <1>1 DEF DbFields
    <3>2. a = [i \in 1..n |-> a[i]]
      BY DEF a
    <3> HIDE DEF g
    <3> QED BY <1>1, <3>1, <3>2, LenIs DEF Size
  <2>2. g.slot = a
    BY <1>1 DEF DbFields
  <2>3. RebuildFreeList(e) = RefreshChecksums(g)
    BY DEF RebuildFreeList, FirstOf
  <2> HIDE DEF a, g
  <2> QED BY <2>1, <2>2, <2>3 DEF RefreshChecksums
<1>6. ASSUME NEW i \in 1..n
      PROVE /\ DOMAIN a[i] = SlotFields /\ a[i].status = e.slot[i].status
            /\ a[i].payload = e.slot[i].payload
            /\ a[i].next = IF i \in F THEN after(i) ELSE e.slot[i].next
  <2>1. DOMAIN e.slot[i] = SlotFields
    BY <1>1 DEF IsSlot
  <2> HIDE DEF after, F
  <2> QED BY <2>1 DEF SlotFields
<1>7. /\ DOMAIN f = DbFields /\ f.index = << >> /\ f.slot = b
      /\ f.head = FirstOf(F) /\ f.count = Cardinality(F)
  BY <1>1 DEF DbFields
<1> HIDE DEF after, a, F
<1>8. ASSUME NEW i \in 1..n
      PROVE /\ DOMAIN b[i] = SlotFields /\ Same(b[i], a[i]) /\ CrcValid(b[i])
  <2>1. b[i] = IF HasCrc(a[i].status) THEN Stamp(a[i]) ELSE a[i]
    OBVIOUS
  <2>2. CASE HasCrc(a[i].status)
    BY <1>6, <2>1, <2>2, StampIs DEF Same
  <2>3. CASE ~HasCrc(a[i].status)
    BY <1>6, <2>1, <2>3 DEF Same, CrcValid
  <2> QED BY <2>2, <2>3
<1>9. b = [i \in 1..n |-> b[i]]
  OBVIOUS
<1> HIDE DEF b, f
<1>10. Size(f) = n
  BY <1>1, <1>7, <1>9, LenIs DEF Size
<1>11. ASSUME NEW i \in 1..n PROVE IsSlot(b[i], n)
  <2>1. a[i].next \in 0..n /\ a[i].status \in Statuses
    BY <1>1, <1>4, <1>6 DEF IsSlot
  <2> QED BY <1>8, <2>1 DEF IsSlot, Same
<1>12. Shape(f)
  BY <1>1, <1>7, <1>9, <1>10, <1>11 DEF Shape
<1>13. Sums(f, {})
  BY <1>7, <1>8, <1>10 DEF Sums
<1>14. Frees(f) = F
  BY <1>6, <1>7, <1>8, <1>10 DEF Frees, Same, F
<1>15. \A i \in F : Links(f)[i] = FirstOf({t \in F : t > i})
  <2>1. ASSUME NEW i \in F PROVE Links(f)[i] = after(i)
    <3>1. i \in 1..n
      BY <1>2
    <3>2. Links(f)[i] = b[i].next
      BY <1>7, <1>10, <3>1 DEF Links
    <3> QED BY <1>6, <1>8, <2>1, <3>1, <3>2 DEF Same
  <2> QED BY <2>1 DEF after
<1>16. Listed(F, Links(f), FirstOf(F), Cardinality(F))
  BY <1>1, <1>2, <1>15, ListRebuilt
<1>17. Pool(f)
  BY <1>7, <1>14, <1>16 DEF Pool
<1>18. Others(e, f, {})
  <2>1. Size(e) = n /\ n >= n
    BY <1>1
  <2>2. \A i \in 1..n : i \in F <=> e.slot[i].status = "FREE"
    BY DEF F
  <2> QED BY <2>1, <2>2, <1>6, <1>7, <1>8, <1>10 DEF Others, Same
<1> QED BY <1>5, <1>10, <1>12, <1>13, <1>17, <1>18 DEF Good

-----------------------------------------------------------------------------
(* Releasing a chain: what the loop keeps in each turn.                    *)

ResFields == {"db", "err", "recs", "got", "marked"}

(* A result of a loop that came from e and has yet to go on from got.      *)
Going(e, w, X) ==
  /\ DOMAIN w = ResFields /\ Good(w.db, X) /\ Size(w.db) = Size(e) /\ w.got \in 0..Size(e)
  /\ \A i \in 1..Size(e) : e.slot[i].status = "USED" => Same(w.db.slot[i], e.slot[i])

(* An overflow slot is returned to the pool with its next set to 0 first;  *)
(* that is not seen afterwards.                                            *)
LEMMA CutReturned ==
  ASSUME NEW e, NEW X, Good(e, X), NEW t \in 1..Size(e)
  PROVE ReturnSlot([e EXCEPT !.slot[t].next = 0], t) = ReturnSlot(e, t)
<1> DEFINE f == [e EXCEPT !.slot[t].next = 0]
           x == [EmptySlot EXCEPT !.next = e.head]
           c == (e.count + 1) % CountMod
<1>1. DOMAIN e = DbFields /\ e.index = << >> /\ e.slot = [i \in 1..Size(e) |-> e.slot[i]]
  BY GoodParts
<1>2. RemoveBySlot(e, t) = e
  BY <1>1 DEF RemoveBySlot
<1>3. DOMAIN f = DbFields /\ f.index = << >> /\ f.head = e.head /\ f.count = e.count
  BY <1>1 DEF DbFields
<1>4. RemoveBySlot(f, t) = f
  BY <1>3 DEF RemoveBySlot
<1> HIDE DEF f, x
<1>5. ReturnSlot(e, t) = [e EXCEPT !.slot[t] = x, !.head = t, !.count = c]
  BY <1>2 DEF ReturnSlot, x
<1>6. ReturnSlot(f, t) = [f EXCEPT !.slot[t] = x, !.head = t, !.count = c]
  BY <1>3, <1>4 DEF ReturnSlot, x
<1> HIDE DEF c
<1>7. [f EXCEPT !.slot[t] = x, !.head = t, !.count = c]
        = [e EXCEPT !.slot[t] = x, !.head = t, !.count = c]
  BY <1>1 DEF f, DbFields
<1> QED BY <1>5, <1>6, <1>7 DEF f

LEMMA WalkStepGood ==
  ASSUME Room < CountMod, NEW e, Size(e) \in Nat, NEW w, Going(e, w, {})
  PROVE Going(e, WalkStep(w, FALSE), {})
<1> DEFINE t == w.got
           cut == [w.db EXCEPT !.slot[t].next = 0]
           f == ReturnSlot(w.db, t)
           stop == [w EXCEPT !.err = "NOT_FOUND"]
           m == w.marked \/ ~FALSE
           go == [w EXCEPT !.db = f, !.got = w.db.slot[t].next, !.marked = m]
<1>1. /\ DOMAIN w = ResFields /\ Good(w.db, {}) /\ Size(w.db) = Size(e) /\ t \in 0..Size(e)
      /\ \A i \in 1..Size(e) : e.slot[i].status = "USED" => Same(w.db.slot[i], e.slot[i])
  BY DEF Going
<1>2. stop.db = w.db /\ stop.got = t /\ DOMAIN stop = ResFields
  BY <1>1 DEF ResFields
<1>3. Going(e, stop, {})
  BY <1>1, <1>2 DEF Going
<1>4. CASE t = 0 \/ w.err # "OK" \/ w.db.slot[t].status # "OVERFLOW"
  <2>1. WalkStep(w, FALSE) \in {w, stop}
    BY <1>4 DEF WalkStep
  <2> QED BY <1>3, <2>1
<1>5. CASE t # 0 /\ w.err = "OK" /\ w.db.slot[t].status = "OVERFLOW"
  <2>1. t \in 1..Size(e)
    BY <1>1, <1>5
  <2>2. ReturnSlot(cut, t) = f
    BY <1>1, <2>1, CutReturned
  <2> HIDE DEF f
  <2>3. WalkStep(w, FALSE) = go
    BY <1>5, <2>2 DEF WalkStep
  <2>4. /\ Good(f, {}) /\ Size(f) = Size(e)
        /\ \A i \in 1..Size(e) : i # t => f.slot[i] = w.db.slot[i]
    <3>1. t \in 1..Size(w.db) /\ w.db.slot[t].status # "FREE" /\ t \notin {}
      BY <1>1, <1>5, <2>1
    <3>2. Good(w.db, {}) /\ Size(w.db) = Size(e)
      BY <1>1
    <3> DEFINE D == w.db
               X == {}
    <3>3. Good(D, X) /\ t \in 1..Size(D) /\ D.slot[t].status # "FREE" /\ t \notin X
      BY <3>1, <3>2
    <3> HIDE DEF t, D, X
    <3>4. f = ReturnSlot(D, t)
      BY DEF f, D
    <3>5. Good(f, X) /\ Size(f) = Size(D) /\ Elsewhere(D, f, t)
      BY <3>3, <3>4, ReturnGood
    <3> QED BY <3>2, <3>5 DEF D, X, Elsewhere
  <2>5. w.db.slot[t].next \in 0..Size(e)
    BY <1>1, <2>1, GoodParts DEF IsSlot
  <2>6. DOMAIN go = ResFields /\ go.db = f /\ go.got = w.db.slot[t].next
    BY <1>1 DEF ResFields
  <2> HIDE DEF go, t
  <2>7. ASSUME NEW i \in 1..Size(e), e.slot[i].status = "USED" PROVE Same(f.slot[i], e.slot[i])
    <3>1. Same(w.db.slot[i], e.slot[i])
      BY <1>1, <2>7
    <3>2. i # t
      BY <1>5, <2>7, <3>1 DEF Same
    <3> QED BY <2>4, <3>1, <3>2
  <2>8. Going(e, go, {})
    BY <2>4, <2>5, <2>6, <2>7 DEF Going
  <2> QED BY <2>3, <2>8
<1> QED BY <1>4, <1>5

(* The function that WalkChain computes with.                              *)
Turn(w) == WalkStep(w, FALSE)
IsWalk(w, start, n) == w = [k \in 0..n |-> IF k = 0 THEN start ELSE Turn(w[k - 1])]

(* The recursive function that defines the loop exists.                    *)
LEMMA WalkExists ==
  ASSUME NEW start
  PROVE \A n \in Nat : \E w : IsWalk(w, start, n)
<1> DEFINE S == {n \in Nat : \E w : IsWalk(w, start, n)}
<1>1. 0 \in S
  <2> DEFINE w == [k \in 0..0 |-> start]
  <2>1. w = [k \in 0..0 |-> IF k = 0 THEN start ELSE Turn(w[k - 1])]
    OBVIOUS
  <2> QED BY <2>1 DEF IsWalk
<1>2. ASSUME NEW n \in Nat, n \in S PROVE n + 1 \in S
  <2>1. PICK w : IsWalk(w, start, n)
    BY <1>2
  <2> DEFINE v == [k \in 0..n + 1 |-> IF k = 0 THEN start ELSE Turn(w[k - 1])]
  <2>2. \A k \in 0..n : v[k] = w[k]
    BY <2>1 DEF IsWalk
  <2>3. \A k \in 0..n + 1 : k # 0 => k - 1 \in 0..n
    OBVIOUS
  <2>4. v = [k \in 0..n + 1 |-> IF k = 0 THEN start ELSE Turn(v[k - 1])]
    BY <2>2, <2>3
  <2>5. IsWalk(v, start, n + 1)
    BY <2>4 DEF IsWalk
  <2> HIDE DEF v
  <2> QED BY <2>5
<1> HIDE DEF S
<1>3. \A n \in Nat : n \in S
  BY <1>1, <1>2, SetInduction
<1> QED BY <1>3 DEF S

(* The head of a chain loses its next before the loop.                     *)
WalkStart(e, s) ==
  [Refuse([e EXCEPT !.slot[s] = Stamp([@ EXCEPT !.next = 0])], "OK") EXCEPT !.got = e.slot[s].next]

LEMMA WalkIs ==
  ASSUME NEW e, Size(e) \in Nat, NEW s
  PROVE \E w : /\ IsWalk(w, WalkStart(e, s), Size(e) + 1)
               /\ ReleaseChain(e, s) = [w[Size(e) + 1] EXCEPT !.got = 0]
<1> DEFINE start == WalkStart(e, s)
           n == Size(e) + 1
           w == CHOOSE v : IsWalk(v, start, n)
<1>1. ReleaseChain(e, s) = [w[n] EXCEPT !.got = 0]
  BY DEF ReleaseChain, WalkChain, IsWalk, WalkStart, Turn
<1>2. n \in Nat
  OBVIOUS
<1> HIDE DEF start, n
<1>3. IsWalk(w, start, n)
  BY <1>2, WalkExists
<1> QED BY <1>1, <1>3 DEF start, n

(* What the head is before the loop.                                       *)
LEMMA StartGood ==
  ASSUME NEW e, NEW s \in 1..Size(e), Good(e, {}) \/ Good(e, {s}), e.slot[s].status = "USED"
  PROVE LET r == WalkStart(e, s) IN
        /\ DOMAIN r = ResFields /\ r.err = "OK" /\ r.got = e.slot[s].next
        /\ Good(r.db, {}) /\ Size(r.db) = Size(e) /\ Others(e, r.db, {s})
        /\ \A i \in 1..Size(e) : i # s => r.db.slot[i] = e.slot[i]
        /\ r.db.slot[s].status = "USED" /\ r.db.slot[s].next = 0
        /\ r.db.slot[s].payload = e.slot[s].payload
<1> DEFINE y == [e.slot[s] EXCEPT !.next = 0]
           x == Stamp(y)
           f == [e EXCEPT !.slot[s] = x]
           r == WalkStart(e, s)
<1>1. PICK X : X \in {{}, {s}} /\ Good(e, X)
  OBVIOUS
<1>2. /\ Size(e) \in Nat /\ DOMAIN e = DbFields
      /\ \A i \in 1..Size(e) : IsSlot(e.slot[i], Size(e))
  BY <1>1, GoodParts
<1>3. DOMAIN y = SlotFields /\ y.status = "USED" /\ y.next = 0 /\ y.payload = e.slot[s].payload
  BY <1>2 DEF IsSlot, SlotFields
<1>4. f = [e EXCEPT !.slot[s] = Stamp([@ EXCEPT !.next = 0])]
  OBVIOUS
<1> HIDE DEF y
<1>5. DOMAIN x = SlotFields /\ x.status = "USED" /\ x.next = 0 /\ x.payload = e.slot[s].payload
      /\ CrcValid(x)
  BY <1>3, StampIs
<1> HIDE DEF x
<1>6. Stored(e, f, s, x) /\ f.head = e.head /\ f.count = e.count
  BY <1>2 DEF Stored, DbFields
<1>7. r = [Refuse(f, "OK") EXCEPT !.got = e.slot[s].next]
  BY <1>4 DEF WalkStart
<1> HIDE DEF f, r
<1>8. IsSlot(x, Size(e)) /\ x.status # "FREE" /\ e.slot[s].status # "FREE" /\ {} = X \ {s}
  BY <1>1, <1>2, <1>5 DEF IsSlot, Statuses
<1>9. /\ Good(f, {}) /\ Size(f) = Size(e) /\ Others(e, f, {s})
      /\ f.slot[s] = x /\ Elsewhere(e, f, s)
  BY <1>1, <1>5, <1>6, <1>8, StoreGood
<1>10. DOMAIN r = ResFields /\ r.err = "OK" /\ r.got = e.slot[s].next /\ r.db = f
  BY <1>7 DEF Refuse, Result, ResFields
<1> QED BY <1>5, <1>9, <1>10 DEF r, Elsewhere

(* ef_blob_release_chain, of whatever hangs on a slot in use, leaves a     *)
(* good database and the slots in use as they are, but for the head.       *)
LEMMA ReleaseGood ==
  ASSUME Room < CountMod, NEW e, NEW s \in 1..Size(e), Good(e, {}) \/ Good(e, {s}),
         e.slot[s].status = "USED", NEW r, r = ReleaseChain(e, s)
  PROVE /\ Good(r.db, {}) /\ Size(r.db) = Size(e) /\ DOMAIN r = ResFields /\ r.got = 0
        /\ r.db.slot[s].status = "USED" /\ r.db.slot[s].next = 0
        /\ r.db.slot[s].payload = e.slot[s].payload
<1> DEFINE start == WalkStart(e, s)
           g == start.db
           n == Size(e) + 1
<1>1. Size(e) \in Nat /\ e.slot[s].next \in 0..Size(e)
  BY GoodParts DEF IsSlot
<1>2. /\ DOMAIN start = ResFields /\ start.got = e.slot[s].next
      /\ Good(g, {}) /\ Size(g) = Size(e)
      /\ g.slot[s].status = "USED" /\ g.slot[s].next = 0
      /\ g.slot[s].payload = e.slot[s].payload
  BY StartGood
<1>3. PICK w : IsWalk(w, start, n) /\ r = [w[n] EXCEPT !.got = 0]
  BY <1>1, WalkIs
<1> HIDE DEF start
<1>4. Going(g, start, {})
  BY <1>1, <1>2 DEF Going, Same
<1> DEFINE S == {k \in 0..n : Going(g, w[k], {})}
<1>5. 0 \in S
  BY <1>1, <1>3, <1>4 DEF IsWalk
<1>6. n \in Nat
  BY <1>1
<1> HIDE DEF n, g
<1>7. ASSUME NEW k \in 1..n, k - 1 \in S PROVE k \in S
  <2>1. w[k] = Turn(w[k - 1])
    BY <1>3, <1>6 DEF IsWalk
  <2>2. Going(g, w[k], {})
    BY <1>1, <1>2, <1>7, <2>1, WalkStepGood DEF Turn
  <2> QED BY <1>6, <2>2
<1> HIDE DEF S
<1>8. n \in S
  BY <1>5, <1>6, <1>7, BoundedInduction
<1>9. Going(g, w[n], {})
  BY <1>8 DEF S
<1>10. r.db = w[n].db /\ DOMAIN r = ResFields /\ r.got = 0
  BY <1>3, <1>9 DEF Going, ResFields
<1>11. s \in 1..Size(g) /\ Same(w[n].db.slot[s], g.slot[s])
  BY <1>2, <1>9 DEF Going
<1> QED BY <1>2, <1>9, <1>10, <1>11 DEF Going, Same

-----------------------------------------------------------------------------
(* The slot API.                                                           *)

(* A slot that is not FREE is stored with its sum.                         *)
Stamped(e, f, s, y) == f = [e EXCEPT !.slot[s] = Stamp(y)]

LEMMA StampGood ==
  ASSUME NEW e, NEW X, Good(e, X), NEW s \in 1..Size(e), e.slot[s].status # "FREE",
         NEW y, IsSlot(y, Size(e)), y.status # "FREE", s \in X => y.status = "USED",
         NEW f, Stamped(e, f, s, y)
  PROVE /\ Good(f, X) /\ Good(f, X \ {s}) /\ Size(f) = Size(e) /\ Others(e, f, {s})
        /\ Same(f.slot[s], y) /\ Elsewhere(e, f, s) /\ DOMAIN f.slot[s] = SlotFields
<1> DEFINE x == Stamp(y)
<1>1. DOMAIN x = SlotFields /\ Same(x, y) /\ CrcValid(x)
  BY StampIs DEF IsSlot, Same
<1> HIDE DEF x
<1>2. Stored(e, f, s, x) /\ f.head = e.head /\ f.count = e.count
  BY GoodParts DEF Stored, Stamped, DbFields, x
<1>3. IsSlot(x, Size(e)) /\ x.status # "FREE" /\ (s \in X => x.status = "USED")
  BY <1>1 DEF IsSlot, Same
<1> DEFINE Y == X \ {s}
<1>4. Y = X \ {s} /\ CrcValid(x)
  BY <1>1
<1> HIDE DEF Y
<1>5. /\ Good(f, Y) /\ Size(f) = Size(e) /\ Others(e, f, {s}) /\ f.slot[s] = x
      /\ Elsewhere(e, f, s)
  BY <1>2, <1>3, <1>4, StoreGood
<1>6. Good(f, X)
  <2>1. \A i \in X : i \in 1..Size(f) /\ f.slot[i].status = "USED"
    BY <1>3, <1>5 DEF Good, Sums, Elsewhere
  <2>2. \A i \in 1..Size(f) : i \notin X => CrcValid(f.slot[i])
    BY <1>4, <1>5 DEF Good, Sums
  <2> QED BY <1>5, <2>1, <2>2 DEF Good, Sums
<1> QED BY <1>1, <1>4, <1>5, <1>6 DEF Elsewhere

(* The payload of a slot in use is replaced; its sum is stored later.      *)
Refilled(e, f, s, p) == f = [e EXCEPT !.slot[s].payload = p]

LEMMA PayloadGood ==
  ASSUME NEW e, Good(e, {}), NEW s \in 1..Size(e), e.slot[s].status = "USED", NEW p,
         NEW f, Refilled(e, f, s, p)
  PROVE /\ Good(f, {s}) /\ Size(f) = Size(e) /\ Others(e, f, {s}) /\ Elsewhere(e, f, s)
        /\ f.slot[s].status = "USED" /\ f.slot[s].next = e.slot[s].next
        /\ f.slot[s].payload = p /\ DOMAIN f.slot[s] = SlotFields
<1> DEFINE x == [e.slot[s] EXCEPT !.payload = p]
<1>1. IsSlot(e.slot[s], Size(e)) /\ DOMAIN e = DbFields
  BY GoodParts
<1>2. /\ DOMAIN x = SlotFields /\ x.status = "USED" /\ x.next = e.slot[s].next /\ x.payload = p
      /\ IsSlot(x, Size(e))
  BY <1>1 DEF IsSlot, SlotFields
<1>3. f = [e EXCEPT !.slot[s] = x]
  BY DEF Refilled
<1> HIDE DEF x
<1>4. Stored(e, f, s, x) /\ f.head = e.head /\ f.count = e.count
  BY <1>1, <1>3 DEF Stored, DbFields
<1>5. {s} = {} \cup {s} /\ x.status = "USED" /\ x.status # "FREE" /\ e.slot[s].status # "FREE"
  BY <1>2
<1>6. /\ Good(f, {s}) /\ Size(f) = Size(e) /\ Others(e, f, {s}) /\ f.slot[s] = x
      /\ Elsewhere(e, f, s)
  BY <1>2, <1>4, <1>5, StoreGood
<1> QED BY <1>2, <1>6 DEF Elsewhere

(* ef_free_slot, whether or not the chain can be released.                 *)
LEMMA FreeGood ==
  ASSUME Room < CountMod, NEW e, Good(e, {}), NEW s \in 1..Size(e), NEW q, q = FreeSlot(e, s)
  PROVE Good(q.db, {}) /\ Size(q.db) = Size(e)
<1> DEFINE r == IF e.slot[s].status = "USED" THEN ReleaseChain(e, s) ELSE Refuse(e, "OK")
           b == ReturnSlot(r.db, s)
<1>1. \/ q.db = e
      \/ q = r
      \/ e.slot[s].status # "FREE" /\ q.db = b
  BY DEF FreeSlot, Refuse, Marked, Result
<1>2. /\ Good(r.db, {}) /\ Size(r.db) = Size(e)
      /\ e.slot[s].status # "FREE" => r.db.slot[s].status # "FREE"
  <2>1. CASE e.slot[s].status = "USED"
    <3>1. r = ReleaseChain(e, s)
      BY <2>1
    <3> HIDE DEF r
    <3> QED BY <2>1, <3>1, ReleaseGood
  <2>2. CASE e.slot[s].status # "USED"
    <3>1. r.db = e
      BY <2>2 DEF Refuse, Result
    <3> QED BY <3>1
  <2> QED BY <2>1, <2>2
<1> HIDE DEF r
<1>3. ASSUME e.slot[s].status # "FREE" PROVE Good(b, {}) /\ Size(b) = Size(e)
  <2> DEFINE D == r.db
             X == {}
  <2>1. Good(D, X) /\ s \in 1..Size(D) /\ D.slot[s].status # "FREE" /\ s \notin X
    BY <1>2, <1>3
  <2>2. b = ReturnSlot(D, s)
    OBVIOUS
  <2> HIDE DEF D, X, b
  <2>3. Good(b, X) /\ Size(b) = Size(D)
    BY <2>1, <2>2, ReturnGood
  <2> QED BY <1>2, <2>3 DEF D, X
<1> QED BY <1>1, <1>2, <1>3

(* ef_set_status to FREE or USED.                                          *)
LEMMA StatusGood ==
  ASSUME Room < CountMod, NEW e, Good(e, {}), NEW s \in 1..Size(e), NEW status \in {"FREE", "USED"},
         status = "USED" => e.slot[s].status # "OVERFLOW", NEW q, q = SetStatus(e, s, status)
  PROVE Good(q.db, {})
<1>1. CASE status = "FREE"
  <2>1. q = FreeSlot(e, s)
    BY <1>1 DEF SetStatus
  <2> QED BY <2>1, FreeGood
<1>2. CASE status = "USED" /\ e.slot[s].status = "FREE"
  <2>1. q = ClaimSlot(e, s)
    BY <1>2 DEF SetStatus
  <2> QED BY <1>2, <2>1, ClaimGood
<1>3. CASE status = "USED" /\ e.slot[s].status = "USED"
  <2>1. q.db = e
    BY <1>3 DEF SetStatus, Refuse, Result
  <2> QED BY <2>1
<1>4. e.slot[s].status \in Statuses
  BY GoodParts DEF IsSlot
<1> QED BY <1>1, <1>2, <1>3, <1>4 DEF Statuses

(* ef_set_next_offset.                                                     *)
Relink(e, f, s, t) ==
  /\ Good(f, {}) /\ Size(f) = Size(e)
  /\ \/ f = e
     \/ /\ e.slot[s].status = "USED" /\ ~HasChain(e, s) /\ Others(e, f, {s})
        /\ f.slot[s].status = "USED" /\ f.slot[s].next = t
        /\ f.slot[s].payload = e.slot[s].payload

LEMMA NextGood ==
  ASSUME NEW e, Good(e, {}), NEW s \in 1..Size(e), NEW t \in 0..Size(e), NEW q, q = SetNext(e, s, t)
  PROVE Relink(e, q.db, s, t)
<1> DEFINE y == [e.slot[s] EXCEPT !.next = t]
           f == [e EXCEPT !.slot[s] = Stamp(y)]
<1>1. q.db = e \/ (e.slot[s].status = "USED" /\ ~HasChain(e, s) /\ q.db = f)
  BY DEF SetNext, Refuse, Result
<1>2. IsSlot(e.slot[s], Size(e))
  BY GoodParts
<1>3. ASSUME e.slot[s].status = "USED"
      PROVE IsSlot(y, Size(e)) /\ y.status = "USED" /\ y.next = t /\ y.payload = e.slot[s].payload
  BY <1>2, <1>3 DEF IsSlot, SlotFields
<1> HIDE DEF y
<1>4. ASSUME e.slot[s].status = "USED"
      PROVE Good(f, {}) /\ Size(f) = Size(e) /\ Others(e, f, {s}) /\ Same(f.slot[s], y)
  <2> DEFINE X == {}
  <2>1. /\ Good(e, X) /\ IsSlot(y, Size(e)) /\ y.status # "FREE" /\ (s \in X => y.status = "USED")
        /\ e.slot[s].status # "FREE"
    BY <1>3, <1>4
  <2>2. Stamped(e, f, s, y)
    BY DEF Stamped
  <2> HIDE DEF X, f
  <2>3. Good(f, X) /\ Size(f) = Size(e) /\ Others(e, f, {s}) /\ Same(f.slot[s], y)
    BY <2>1, <2>2, StampGood
  <2> QED BY <2>3 DEF X
<1> HIDE DEF f
<1> QED BY <1>1, <1>3, <1>4 DEF Same, Relink

(* Both ways to write to a slot claim a FREE one first.                    *)
Claimed(e, s) == IF e.slot[s].status = "FREE" THEN ClaimSlot(e, s) ELSE Refuse(e, "OK")

IsClaimed(e, s, c) ==
  /\ c.err = "OK" /\ Good(c.db, {}) /\ Size(c.db) = Size(e) /\ Others(e, c.db, {s})
  /\ c.db.slot[s].status = "USED"
  /\ c.db.slot[s].next = IF e.slot[s].status = "FREE" THEN 0 ELSE e.slot[s].next
  /\ e.slot[s].status = "USED" => c.db = e

LEMMA ClaimedGood ==
  ASSUME NEW e, Good(e, {}), NEW s \in 1..Size(e), e.slot[s].status # "OVERFLOW"
  PROVE IsClaimed(e, s, Claimed(e, s))
<1> DEFINE c == Claimed(e, s)
<1>0. Size(e) \in Nat /\ e.slot[s].status \in Statuses
  BY GoodParts DEF IsSlot
<1>1. CASE e.slot[s].status = "FREE"
  <2>1. c = ClaimSlot(e, s)
    BY <1>1 DEF Claimed
  <2> HIDE DEF c
  <2>2. /\ c.err = "OK" /\ Good(c.db, {}) /\ Size(c.db) = Size(e) /\ Others(e, c.db, {s})
        /\ c.db.slot[s].status = "USED" /\ c.db.slot[s].next = 0 /\ s \notin {}
    BY <1>1, <2>1, ClaimGood
  <2>3. IsClaimed(e, s, c)
    BY <1>1, <2>2 DEF IsClaimed
  <2> QED BY <2>3 DEF c
<1>2. CASE e.slot[s].status # "FREE"
  <2>1. c.err = "OK" /\ c.db = e
    BY <1>2 DEF Claimed, Refuse, Result
  <2> HIDE DEF c
  <2>2. IsClaimed(e, s, c)
    BY <1>0, <1>2, <2>1, OthersSelf DEF Statuses, IsClaimed
  <2> QED BY <2>2 DEF c
<1> QED BY <1>1, <1>2

(* ef_write_payload, which claims a FREE slot first.                       *)
LEMMA WriteGood ==
  ASSUME NEW e, Good(e, {}), NEW s \in 1..Size(e), e.slot[s].status # "OVERFLOW", NEW p,
         NEW q, q = WritePayload(e, s, p)
  PROVE /\ q.err = "OK" /\ Good(q.db, {}) /\ Size(q.db) = Size(e) /\ Others(e, q.db, {s})
        /\ q.db.slot[s].status = "USED"
        /\ q.db.slot[s].next = IF e.slot[s].status = "FREE" THEN 0 ELSE e.slot[s].next
<1> DEFINE c == IF e.slot[s].status = "FREE" THEN ClaimSlot(e, s) ELSE Refuse(e, "OK")
           g == c.db
           y == [g.slot[s] EXCEPT !.payload = p, !.status = "USED"]
           f == [g EXCEPT !.slot[s] = Stamp(y)]
<1>0. Size(e) \in Nat /\ e.slot[s].status \in Statuses
  BY GoodParts DEF IsSlot
<1>1. /\ c.err = "OK" /\ Good(g, {}) /\ Size(g) = Size(e) /\ Others(e, g, {s})
      /\ g.slot[s].status = "USED"
      /\ g.slot[s].next = IF e.slot[s].status = "FREE" THEN 0 ELSE e.slot[s].next
  <2>1. c = Claimed(e, s)
    BY DEF Claimed
  <2> HIDE DEF c
  <2>2. IsClaimed(e, s, c)
    BY <2>1, ClaimedGood
  <2> QED BY <2>2 DEF IsClaimed
<1>2. CrcValid(g.slot[s])
  BY <1>1 DEF Good, Sums
<1>3. q.err = "OK" /\ q.db = f
  <2> DEFINE rec == IF e.slot[s].status = "FREE" THEN StatusRec(s, e.slot[s]) ELSE PayloadRec(s, e.slot[s])
             G == f
             m == c.marked
  <2>1. q = [Result(G, "OK", <<rec>>) EXCEPT !.marked = m]
    BY <1>1, <1>2 DEF WritePayload
  <2> HIDE DEF rec, G, m
  <2>2. q.err = "OK" /\ q.db = G
    BY <2>1 DEF Result
  <2> QED BY <2>2 DEF G
<1> HIDE DEF c, g
<1>4. IsSlot(g.slot[s], Size(e))
  BY <1>1, GoodParts
<1>5. IsSlot(y, Size(e)) /\ y.status = "USED" /\ y.next = g.slot[s].next
  BY <1>4 DEF IsSlot, SlotFields, Statuses
<1> HIDE DEF y
<1>6. Good(f, {}) /\ Size(f) = Size(e) /\ Others(g, f, {s}) /\ Same(f.slot[s], y)
  <2> DEFINE X == {}
  <2>1. /\ Good(g, X) /\ s \in 1..Size(g) /\ IsSlot(y, Size(g)) /\ y.status # "FREE"
        /\ (s \in X => y.status = "USED") /\ g.slot[s].status # "FREE"
    BY <1>1, <1>5
  <2>2. Stamped(g, f, s, y)
    BY DEF Stamped
  <2> HIDE DEF X, f
  <2>3. Good(f, X) /\ Size(f) = Size(g) /\ Others(g, f, {s}) /\ Same(f.slot[s], y)
    BY <2>1, <2>2, StampGood
  <2> QED BY <1>1, <2>3 DEF X
<1> HIDE DEF f
<1>7. Others(e, f, {s} \cup {s})
  BY <1>0, <1>1, <1>6, OthersTrans
<1>8. Others(e, f, {s})
  BY <1>7, OthersMore
<1> QED BY <1>1, <1>3, <1>5, <1>6, <1>8 DEF Same

-----------------------------------------------------------------------------
(* Writing a blob.                                                         *)

(* From e to f a slot t that was FREE or new was hung on slot g, with z in *)
(* it.                                                                     *)
Extended(e, f, g, t, z) ==
  /\ Size(f) >= Size(e) /\ t \in 1..Size(f) /\ (t <= Size(e) => e.slot[t].status = "FREE")
  /\ Others(e, f, {g, t})
  /\ f.slot[t].status = "OVERFLOW" /\ f.slot[t].next = 0 /\ f.slot[t].payload.rest = z
  /\ f.slot[g].status = e.slot[g].status /\ f.slot[g].payload = e.slot[g].payload
  /\ f.slot[g].next = t

(* The result of a loop that writes the blob of slot s.                    *)
Growing(w, s) ==
  /\ DOMAIN w = ResFields /\ Good(w.db, {s}) /\ s \in 1..Size(w.db)
  /\ w.got \in 1..Size(w.db) /\ (w.got = s \/ w.db.slot[w.got].status = "OVERFLOW")

(* An overflow slot with the pieces z, and a slot with another next.       *)
PieceSlot(z) == [EmptySlot EXCEPT !.status = "OVERFLOW", !.payload.rest = z]
IsRelinked(y, x, t) == y = [x EXCEPT !.next = t]

LEMMA PieceIs ==
  ASSUME NEW z, NEW n \in Nat, NEW x, x = PieceSlot(z)
  PROVE /\ IsSlot(x, n) /\ x.status = "OVERFLOW" /\ x.next = 0 /\ x.payload.rest = z
BY DEF PieceSlot, EmptySlot, ZeroPayload, IsSlot, SlotFields, Statuses

(* A slot that was just allocated is hung on slot g.                       *)
LEMMA HangGood ==
  ASSUME NEW e, NEW s, Good(e, {s}), NEW g \in 1..Size(e), g = s \/ e.slot[g].status = "OVERFLOW",
         NEW a, Taken(e, a, {s}), NEW z, NEW y, IsRelinked(y, a.db.slot[g], a.got),
         NEW x, x = PieceSlot(z),
         NEW m, Stamped(a.db, m, g, y), NEW f, Stamped(m, f, a.got, x)
  PROVE Good(f, {s}) /\ Extended(e, f, g, a.got, z)
<1> DEFINE b == a.db
           t == a.got
           X == {s}
<1>1. /\ Good(b, X) /\ Size(b) >= Size(e) /\ Others(e, b, {t})
      /\ t \in 1..Size(b) /\ t \notin X /\ (t <= Size(e) => e.slot[t].status = "FREE")
      /\ b.slot[t].status = "USED"
  BY DEF Taken
<1>2. Size(e) \in Nat /\ Size(b) \in Nat
  BY <1>1, GoodParts
<1>3. e.slot[g].status # "FREE" /\ (g \in X => e.slot[g].status = "USED")
  BY DEF Good, Sums
<1>4. g # t /\ g \in 1..Size(b) /\ g <= Size(e)
  BY <1>1, <1>2, <1>3
<1> HIDE DEF b, t
<1>5. Same(b.slot[g], e.slot[g])
  BY <1>1, <1>3, <1>4 DEF Others
<1>6. IsSlot(b.slot[g], Size(b))
  BY <1>1, <1>4, GoodParts
<1>7. /\ IsSlot(y, Size(b)) /\ y.status = e.slot[g].status /\ y.next = t
      /\ y.payload = e.slot[g].payload
  <2>1. y = [b.slot[g] EXCEPT !.next = t]
    BY DEF b, t, IsRelinked
  <2> QED BY <1>1, <1>2, <1>5, <1>6, <2>1 DEF IsSlot, SlotFields, Same
<1>8. Stamped(b, m, g, y)
  BY DEF b
<1> HIDE DEF X
<1>9. Good(m, X) /\ Size(m) = Size(b) /\ Others(b, m, {g}) /\ Same(m.slot[g], y) /\ Elsewhere(b, m, g)
  <2>1. b.slot[g].status # "FREE" /\ y.status # "FREE" /\ (g \in X => y.status = "USED")
    BY <1>3, <1>5, <1>7 DEF Same
  <2>2. /\ Good(b, X) /\ g \in 1..Size(b) /\ IsSlot(y, Size(b)) /\ Stamped(b, m, g, y)
    BY <1>1, <1>4, <1>7, <1>8
  <2>3. /\ Good(b, X) /\ g \in 1..Size(b) /\ b.slot[g].status # "FREE" /\ IsSlot(y, Size(b))
        /\ y.status # "FREE" /\ (g \in X => y.status = "USED") /\ Stamped(b, m, g, y)
    BY <2>1, <2>2
  <2> QED BY <2>3, StampGood
<1>10. t \in 1..Size(m) /\ m.slot[t].status # "FREE" /\ t \notin X
  BY <1>1, <1>4, <1>9 DEF Elsewhere
<1>11. IsSlot(x, Size(m)) /\ x.status = "OVERFLOW" /\ x.next = 0 /\ x.payload.rest = z
  BY <1>2, <1>9, PieceIs
<1>12. Good(f, X) /\ Size(f) = Size(m) /\ Others(m, f, {t}) /\ Same(f.slot[t], x) /\ Elsewhere(m, f, t)
  <2>1. x.status # "FREE" /\ (t \in X => x.status = "USED") /\ Stamped(m, f, t, x)
    BY <1>10, <1>11 DEF t
  <2>2. Good(m, X) /\ t \in 1..Size(m) /\ m.slot[t].status # "FREE" /\ IsSlot(x, Size(m))
    BY <1>9, <1>10, <1>11
  <2> QED BY <2>1, <2>2, StampGood
<1>13. Others(e, f, {g, t})
  <2>1. Others(e, m, {t} \cup {g})
    BY <1>1, <1>2, <1>9, OthersTrans
  <2>2. Others(e, f, ({t} \cup {g}) \cup {t})
    BY <1>2, <1>9, <1>12, <2>1, OthersTrans
  <2> QED BY <2>2, OthersMore
<1>14. f.slot[g] = m.slot[g]
  BY <1>4, <1>9, <1>12 DEF Elsewhere
<1>15. Extended(e, f, g, t, z)
  BY <1>1, <1>7, <1>9, <1>11, <1>12, <1>13, <1>14 DEF Extended, Same
<1> QED BY <1>12, <1>15 DEF X, t

(* Every call that allocates returns a result.                             *)
LEMMA AllocFields ==
  ASSUME NEW e
  PROVE DOMAIN AllocGrowing(e, Room, FALSE) = ResFields
<1>1. \A x : DOMAIN AllocSlot(x) = ResFields /\ DOMAIN [AllocSlot(x) EXCEPT !.marked = TRUE] = ResFields
  BY DEF AllocSlot, Refuse, Result, Marked, ResFields
<1>2. DOMAIN GrowSlots(e, Room, FALSE) = ResFields
  BY DEF GrowSlots, Refuse, Result, Marked, ResFields
<1> QED BY <1>1, <1>2 DEF AllocGrowing

(* One turn of the loop of ef_write_blob: it does nothing, or finds no     *)
(* slot, or hangs one on the end of the chain.                             *)
Piece(data, i) ==
  SubSeq(data, i, IF Len(data) < i + ChunkCap - 1 THEN Len(data) ELSE i + ChunkCap - 1)

LEMMA WriteStepGood ==
  ASSUME Room < CountMod, NEW w, NEW s, Growing(w, s), NEW data, NEW i,
         NEW r, r = WriteStep(w, data, i, Room, FALSE)
  PROVE /\ Growing(r, s)
        /\ \/ r = w /\ (w.err # "OK" \/ i > Len(data))
           \/ /\ w.err = "OK" /\ ~(i > Len(data)) /\ r.err # "OK" /\ r.db = w.db /\ r.got = w.got
           \/ /\ w.err = "OK" /\ ~(i > Len(data)) /\ r.err = "OK"
              /\ Extended(w.db, r.db, w.got, r.got, Piece(data, i))
<1> DEFINE a == AllocGrowing(w.db, Room, FALSE)
           z == Piece(data, i)
           g == w.got
           x == [EmptySlot EXCEPT !.status = "OVERFLOW", !.payload.rest = z]
           y == [a.db.slot[g] EXCEPT !.next = a.got]
           m == [a.db EXCEPT !.slot[g] = Stamp(y)]
           f == [m EXCEPT !.slot[a.got] = Stamp(x)]
           fail == [w EXCEPT !.err = a.err, !.db = a.db, !.marked = @ \/ a.marked]
           go == [a EXCEPT !.db.slot[w.got] = Stamp([@ EXCEPT !.next = a.got]),
                           !.db.slot[a.got] = Stamp(x),
                           !.recs = w.recs \o @]
<1>1. \/ r = w /\ (w.err # "OK" \/ i > Len(data))
      \/ w.err = "OK" /\ ~(i > Len(data)) /\ r = fail /\ a.err # "OK"
      \/ w.err = "OK" /\ ~(i > Len(data)) /\ r = go /\ a.err = "OK"
  BY DEF WriteStep, Piece
<1>2. DOMAIN w = ResFields /\ Good(w.db, {s}) /\ g \in 1..Size(w.db)
      /\ (g = s \/ w.db.slot[g].status = "OVERFLOW") /\ s \in 1..Size(w.db)
  BY DEF Growing
<1>3. (a.err # "OK" => a.db = w.db) /\ (a.err = "OK" => Taken(w.db, a, {s}))
  <2> DEFINE X == {s}
  <2>1. Good(w.db, X)
    BY <1>2
  <2> HIDE DEF X, a
  <2>2. (a.err # "OK" => a.db = w.db) /\ (a.err = "OK" => Taken(w.db, a, X))
    BY <2>1, AllocGrowingGood DEF a
  <2> QED BY <2>2 DEF X
<1>4. DOMAIN a = ResFields
  BY AllocFields
<1> HIDE DEF a, z
<1>5. ASSUME r = fail, a.err # "OK" PROVE r.err # "OK" /\ r.db = w.db /\ r.got = w.got /\ Growing(r, s)
  <2>1. DOMAIN r = ResFields /\ r.err # "OK" /\ r.db = w.db /\ r.got = w.got
    BY <1>2, <1>3, <1>5 DEF ResFields
  <2> HIDE DEF fail
  <2> QED BY <1>2, <2>1 DEF Growing
<1> HIDE DEF fail
<1>6. ASSUME r = go, a.err = "OK"
      PROVE r.err = "OK" /\ Extended(w.db, r.db, g, r.got, z) /\ Growing(r, s)
  <2>1. a.got \in 1..Size(a.db) /\ DOMAIN a.db = DbFields
    BY <1>3, <1>6, GoodParts DEF Taken
  <2>2. DOMAIN r = ResFields /\ r.err = "OK" /\ r.got = a.got /\ r.db = f
    BY <1>4, <1>6, <2>1 DEF ResFields, DbFields
  <2> DEFINE e == w.db
             b == a.db
             t == a.got
  <2>3. Stamped(b, m, g, y) /\ Stamped(m, f, t, x)
    BY DEF Stamped
  <2>4. Good(e, {s}) /\ g \in 1..Size(e) /\ (g = s \/ e.slot[g].status = "OVERFLOW")
        /\ Taken(e, a, {s})
    BY <1>2, <1>3, <1>6
  <2>5. IsRelinked(y, b.slot[g], t) /\ x = PieceSlot(z)
    BY DEF IsRelinked, PieceSlot
  <2> HIDE DEF f, m, go, e, g, y, x
  <2>6. Good(f, {s}) /\ Extended(e, f, g, t, z)
    BY <2>3, <2>4, <2>5, HangGood
  <2>7. s \in 1..Size(f)
    BY <2>6, GoodParts
  <2> QED BY <2>2, <2>6, <2>7 DEF Growing, Extended, e
<1> HIDE DEF go
<1> QED BY <1>1, <1>5, <1>6 DEF z, g

(* The function that WriteChain computes with.                             *)
PieceOf(k) == InlineCap + (k - 1) * ChunkCap + 1
WriteTurn(w, data, k) == WriteStep(w, data, PieceOf(k), Room, FALSE)
IsLoop(w, start, data, n) ==
  w = [k \in 0..n |-> IF k = 0 THEN start ELSE WriteTurn(w[k - 1], data, k)]

LEMMA LoopExists ==
  ASSUME NEW start, NEW data
  PROVE \A n \in Nat : \E w : IsLoop(w, start, data, n)
<1> DEFINE S == {n \in Nat : \E w : IsLoop(w, start, data, n)}
<1>1. 0 \in S
  <2> DEFINE w == [k \in 0..0 |-> start]
  <2>1. w = [k \in 0..0 |-> IF k = 0 THEN start ELSE WriteTurn(w[k - 1], data, k)]
    OBVIOUS
  <2> HIDE DEF w
  <2> QED BY <2>1 DEF IsLoop
<1>2. ASSUME NEW n \in Nat, n \in S PROVE n + 1 \in S
  <2>1. PICK w : w = [k \in 0..n |-> IF k = 0 THEN start ELSE WriteTurn(w[k - 1], data, k)]
    BY <1>2 DEF IsLoop
  <2> DEFINE v == [k \in 0..n + 1 |-> IF k = 0 THEN start ELSE WriteTurn(w[k - 1], data, k)]
  <2>2. \A k \in 0..n : v[k] = w[k]
    BY <2>1
  <2>3. \A k \in 0..n + 1 : k # 0 => k - 1 \in 0..n
    OBVIOUS
  <2>4. v = [k \in 0..n + 1 |-> IF k = 0 THEN start ELSE WriteTurn(v[k - 1], data, k)]
    BY <2>2, <2>3
  <2> HIDE DEF v
  <2> QED BY <2>4 DEF IsLoop
<1> HIDE DEF S
<1>3. \A n \in Nat : n \in S
  BY <1>1, <1>2, SetInduction
<1> QED BY <1>3 DEF S

(* Where the loop of ef_write_blob begins.                                 *)
LoopStart(e, s) == [Refuse(e, "OK") EXCEPT !.got = s]

LEMMA LoopStartIs ==
  ASSUME NEW e, NEW s, Good(e, {s}), NEW r, r = LoopStart(e, s)
  PROVE Growing(r, s) /\ r.err = "OK" /\ r.db = e /\ r.got = s
<1>1. s \in 1..Size(e)
  BY GoodParts
<1>2. DOMAIN r = ResFields /\ r.err = "OK" /\ r.db = e /\ r.got = s
  BY DEF LoopStart, Refuse, Result, ResFields
<1> QED BY <1>1, <1>2 DEF Growing

ChainWritten(e, s, data) == WriteChain(e, s, data, Room, FALSE)

LEMMA LoopIs ==
  ASSUME NEW e, NEW s, NEW data, Len(data) \in Nat, NEW r, r = ChainWritten(e, s, data)
  PROVE \E w : IsLoop(w, LoopStart(e, s), data, Len(data)) /\ r = w[Len(data)]
<1> DEFINE start == LoopStart(e, s)
           n == Len(data)
           w == CHOOSE v : IsLoop(v, start, data, n)
<1>1. r = w[n]
  BY DEF ChainWritten, WriteChain, IsLoop, LoopStart, WriteTurn, PieceOf
<1> HIDE DEF start
<1>2. IsLoop(w, start, data, n)
  BY LoopExists
<1> HIDE DEF w
<1> QED BY <1>1, <1>2 DEF start

(* However long the chain is that ef_write_blob writes.                    *)
LEMMA LoopGood ==
  ASSUME Room < CountMod, NEW e, NEW s, Good(e, {s}), NEW data, NEW n \in Nat, NEW w,
         IsLoop(w, LoopStart(e, s), data, n)
  PROVE \A k \in 0..n : Growing(w[k], s)
<1> DEFINE start == LoopStart(e, s)
           S == {k \in 0..n : Growing(w[k], s)}
<1>1. w[0] = start /\ \A k \in 1..n : w[k] = WriteTurn(w[k - 1], data, k)
  BY DEF IsLoop
<1> HIDE DEF start
<1>2. 0 \in S
  BY <1>1, LoopStartIs DEF start
<1>3. ASSUME NEW k \in 1..n, k - 1 \in S PROVE k \in S
  <2> DEFINE u == w[k - 1]
             v == w[k]
  <2>1. Growing(u, s) /\ v = WriteStep(u, data, PieceOf(k), Room, FALSE)
    BY <1>1, <1>3 DEF WriteTurn
  <2> HIDE DEF u, v
  <2>2. Growing(v, s)
    BY <2>1, WriteStepGood
  <2> QED BY <2>2 DEF v
<1>4. ASSUME NEW k \in 0..n PROVE k \in S
  <2> HIDE DEF S
  <2> DEFINE T == {j \in 0..n : \A i \in 0..j : i \in S}
  <2>1. 0 \in T
    BY <1>2
  <2>2. ASSUME NEW j \in 1..n, j - 1 \in T PROVE j \in T
    <3>1. \A i \in 0..j : i \in 0..j - 1 \/ i = j
      OBVIOUS
    <3>2. j - 1 \in S
      BY <2>2
    <3> QED BY <1>3, <2>2, <3>1, <3>2
  <2> HIDE DEF T
  <2>3. n \in T
    BY <2>1, <2>2, BoundedInduction
  <2> QED BY <2>3 DEF T
<1> QED BY <1>4

(* What is stored at the end: the sum of the head.                         *)
LEMMA StampSlotGood ==
  ASSUME NEW e, NEW s, Good(e, {s}), NEW f, f = StampSlot(e, s)
  PROVE /\ Good(f, {}) /\ Size(f) = Size(e) /\ Others(e, f, {s}) /\ Same(f.slot[s], e.slot[s])
        /\ Elsewhere(e, f, s)
<1> DEFINE X == {s}
           y == e.slot[s]
<1>1. s \in 1..Size(e)
  BY GoodParts
<1>2. IsSlot(y, Size(e)) /\ y.status = "USED"
  <2>1. y.status = "USED"
    BY DEF Good, Sums
  <2> QED BY <1>1, <2>1, GoodParts
<1>3. Stamped(e, f, s, y)
  BY DEF Stamped, StampSlot
<1>4. /\ Good(e, X) /\ e.slot[s].status # "FREE" /\ y.status # "FREE" /\ (s \in X => y.status = "USED")
  BY <1>2
<1> HIDE DEF X, y
<1>5. /\ Good(f, X \ {s}) /\ Size(f) = Size(e) /\ Others(e, f, {s}) /\ Same(f.slot[s], y)
      /\ Elsewhere(e, f, s)
  BY <1>1, <1>2, <1>3, <1>4, StampGood
<1>6. X \ {s} = {}
  BY DEF X
<1> QED BY <1>5, <1>6 DEF y

(* What ef_write_blob does when a slot cannot be allocated.                *)
LEMMA DropGood ==
  ASSUME Room < CountMod, NEW w, NEW s, Growing(w, s), NEW r, r = DropBlob(w, s)
  PROVE DOMAIN r = ResFields /\ Good(r.db, {}) /\ r.err = w.err
<1> DEFINE q == ReleaseChain(w.db, s)
           z == [q.db EXCEPT !.slot[s].payload = ZeroPayload]
           f == StampSlot(z, s)
           e == w.db
<1>1. DOMAIN w = ResFields /\ Good(e, {s}) /\ s \in 1..Size(e) /\ e.slot[s].status = "USED"
  BY DEF Growing, Good, Sums
<1>2. r = [w EXCEPT !.db = f, !.marked = @ \/ q.marked]
  BY DEF DropBlob
<1> HIDE DEF f
<1>3. DOMAIN r = ResFields /\ r.db = f /\ r.err = w.err
  BY <1>1, <1>2 DEF ResFields
<1>4. q = ReleaseChain(e, s)
  OBVIOUS
<1> HIDE DEF q, e
<1>5. Good(q.db, {}) /\ s \in 1..Size(q.db) /\ q.db.slot[s].status = "USED"
  BY <1>1, <1>4, ReleaseGood
<1>6. Refilled(q.db, z, s, ZeroPayload)
  BY DEF Refilled
<1> HIDE DEF z
<1>7. Good(z, {s})
  <2> DEFINE D == q.db
  <2>1. Good(D, {}) /\ s \in 1..Size(D) /\ D.slot[s].status = "USED" /\ Refilled(D, z, s, ZeroPayload)
    BY <1>5, <1>6
  <2> HIDE DEF D
  <2> QED BY <2>1, PayloadGood
<1>8. Good(f, {})
  BY <1>7, StampSlotGood DEF f
<1> QED BY <1>3, <1>8

(* ef_write_blob, of a slot that is not an overflow slot.                  *)
BlobWritten(e, s, data) == WriteBlob(e, s, data, Room, FALSE)

LEMMA WriteBlobGood ==
  ASSUME Room < CountMod, NEW e, Good(e, {}), NEW s \in 1..Size(e), e.slot[s].status # "OVERFLOW",
         NEW data, Len(data) \in Nat, NEW r, r = BlobWritten(e, s, data)
  PROVE Good(r.db, {})
<1> DEFINE claimed == IF e.slot[s].status = "FREE" THEN ClaimSlot(e, s) ELSE Refuse(e, "OK")
           c == claimed.db
           q == ReleaseChain(c, s)
           head == PayloadRec(s, q.db.slot[s])
           written == [q.db EXCEPT !.slot[s].payload = BlobHead(data)]
           w == WriteChain(written, s, data, Room, FALSE)
           stamped == [w EXCEPT !.db = StampSlot(@, s)]
           end == IF w.err # "OK" THEN DropBlob(w, s) ELSE stamped
           held == [q EXCEPT !.marked = @ \/ claimed.marked]
           last == [end EXCEPT !.recs = <<head>> \o @, !.got = 0,
                               !.marked = @ \/ claimed.marked \/ q.marked]
<1> HIDE DEF q, head, written, w, stamped, end, held, last
<1>0. e.slot[s].status \in Statuses
  BY GoodParts DEF IsSlot
<1>1. /\ claimed.err = "OK" /\ Good(c, {}) /\ Size(c) = Size(e) /\ c.slot[s].status = "USED"
  <2>1. claimed = Claimed(e, s)
    BY DEF Claimed
  <2> HIDE DEF claimed, c
  <2>2. IsClaimed(e, s, claimed)
    BY <2>1, ClaimedGood
  <2> QED BY <2>2 DEF IsClaimed, c
<1>2. r \in {Refuse(e, "BAD_CHECKSUM"), held, last}
  BY <1>1 DEF BlobWritten, WriteBlob, q, head, written, w, stamped, end, held, last
<1> HIDE DEF claimed, c
<1>3. q = ReleaseChain(c, s)
  BY DEF q
<1>4. Good(q.db, {}) /\ s \in 1..Size(q.db) /\ q.db.slot[s].status = "USED" /\ DOMAIN q = ResFields
  <2>1. s \in 1..Size(c) /\ Good(c, {}) /\ c.slot[s].status = "USED"
    BY <1>1
  <2>2. /\ Good(q.db, {}) /\ Size(q.db) = Size(c) /\ DOMAIN q = ResFields
        /\ q.db.slot[s].status = "USED"
    BY <1>3, <2>1, ReleaseGood
  <2> QED BY <2>1, <2>2
<1>5. Good(written, {s})
  <2> DEFINE D == q.db
             p == BlobHead(data)
  <2>1. Refilled(D, written, s, p)
    BY DEF Refilled, written
  <2>2. Good(D, {}) /\ s \in 1..Size(D) /\ D.slot[s].status = "USED"
    BY <1>4
  <2> HIDE DEF D, p
  <2> QED BY <2>1, <2>2, PayloadGood
<1>6. Growing(w, s)
  <2> DEFINE n == Len(data)
  <2>0. w = ChainWritten(written, s, data)
    BY DEF w, ChainWritten
  <2>1. PICK v : IsLoop(v, LoopStart(written, s), data, n) /\ w = v[n]
    BY <2>0, LoopIs
  <2>2. n \in 0..n /\ n \in Nat
    OBVIOUS
  <2> HIDE DEF n
  <2>3. Growing(v[n], s)
    BY <1>5, <2>1, <2>2, LoopGood
  <2> QED BY <2>1, <2>3
<1>7. DOMAIN end = ResFields /\ Good(end.db, {})
  <2>1. DOMAIN DropBlob(w, s) = ResFields /\ Good(DropBlob(w, s).db, {})
    BY <1>6, DropGood
  <2>2. DOMAIN w = ResFields /\ Good(w.db, {s})
    BY <1>6 DEF Growing
  <2>3. DOMAIN stamped = ResFields /\ stamped.db = StampSlot(w.db, s)
    BY <2>2 DEF ResFields, stamped
  <2>4. Good(StampSlot(w.db, s), {})
    BY <2>2, StampSlotGood
  <2> QED BY <2>1, <2>3, <2>4 DEF end
<1>8. held.db = q.db
  BY <1>4 DEF ResFields, held
<1>9. last.db = end.db
  BY <1>7 DEF ResFields, last
<1>10. Refuse(e, "BAD_CHECKSUM").db = e
  BY DEF Refuse, Result
<1> QED BY <1>2, <1>4, <1>7, <1>8, <1>9, <1>10

-----------------------------------------------------------------------------
(* The database that every call leaves is good.                            *)

BlobPool == Good(d, {})

(* ef_build_free_list links every slot of a new database.                  *)
LEMMA NewGood ==
  ASSUME NEW n \in Nat, n <= Room
  PROVE Good(NewDb(n), {}) /\ Size(NewDb(n)) = n /\ Frees(NewDb(n)) = 1..n
<1> DEFINE e == NewDb(n)
           q == [i \in 1..n |-> i]
<1>1. /\ DOMAIN e = DbFields /\ e.index = << >> /\ e.head = (IF n = 0 THEN 0 ELSE 1) /\ e.count = n
      /\ e.slot = [s \in 1..n |-> [EmptySlot EXCEPT !.next = IF s < n THEN s + 1 ELSE 0]]
  BY DEF NewDb, DbFields
<1> HIDE DEF e
<1>2. \A s \in 1..n : /\ DOMAIN e.slot[s] = SlotFields /\ e.slot[s].status = "FREE"
                      /\ e.slot[s].next = IF s < n THEN s + 1 ELSE 0
  BY <1>1 DEF EmptySlot, SlotFields
<1>3. e.slot = [s \in 1..n |-> e.slot[s]]
  BY <1>1
<1>4. Size(e) = n
  BY <1>3, LenIs DEF Size
<1>5. Shape(e)
  <2>1. \A s \in 1..n : e.slot[s].next \in 0..n
    BY <1>2
  <2> QED BY <1>1, <1>2, <1>3, <1>4, <2>1 DEF Shape, IsSlot, Statuses
<1>6. Frees(e) = 1..n
  BY <1>2, <1>4 DEF Frees
<1>7. \A s \in 1..n : Links(e)[s] = IF s < n THEN s + 1 ELSE 0
  BY <1>2, <1>4 DEF Links
<1>8. Pool(e)
  <2>1. Along(1..n, Links(e), e.head, n, q)
    BY <1>1, <1>7 DEF Along
  <2> HIDE DEF q
  <2>2. Listed(1..n, Links(e), e.head, n)
    BY <2>1 DEF Listed
  <2> QED BY <1>1, <1>6, <2>2 DEF Pool
<1>9. Sums(e, {})
  BY <1>2, <1>4, FreeValid DEF Sums
<1> QED BY <1>4, <1>5, <1>6, <1>8, <1>9 DEF Good, e

(* The data of a blob.                                                     *)
LEMMA DataIs ==
  ASSUME NEW n \in Nat, NEW v, NEW data, data = [i \in 1..n |-> 10 * v + i]
  PROVE Len(data) = n /\ data = [i \in 1..n |-> data[i]]
<1>1. data = [i \in 1..n |-> data[i]]
  OBVIOUS
<1> QED BY <1>1, LenIs

(* Every call keeps the database good.                                     *)
LEMMA BlobPoolStep ==
  ASSUME Room < CountMod, BlobPool, [Next]_vars
  PROVE BlobPool'
<1>0. Good(d, {}) /\ Size(d) \in Nat
  BY GoodParts DEF BlobPool
<1>1. CASE Alloc
  <2>1. PICK r : r = AllocGrowing(d, Room, FALSE) /\ d' = r.db
    BY <1>1 DEF Alloc, Return
  <2> DEFINE e == d
             X == {}
  <2>2. Good(e, X) /\ r = AllocGrowing(e, Room, FALSE)
    BY <1>0, <2>1
  <2> HIDE DEF e, X
  <2>3. (r.err # "OK" => r.db = e) /\ (r.err = "OK" => Taken(e, r, X))
    BY <2>2, AllocGrowingGood
  <2>4. Good(r.db, X)
    BY <2>2, <2>3 DEF Taken
  <2> QED BY <2>1, <2>4 DEF BlobPool, X
<1>2. ASSUME NEW s \in 1..Room, Free(s) PROVE BlobPool'
  <2>1. PICK r : r = FreeSlot(d, s) /\ d' = r.db
    BY <1>2 DEF Free, Return
  <2>2. s \in 1..Size(d)
    BY <1>2 DEF Free, Freeable, Known, Slots
  <2>3. Good(r.db, {}) /\ Size(r.db) = Size(d)
    BY <1>0, <2>1, <2>2, FreeGood
  <2> QED BY <2>1, <2>3 DEF BlobPool
<1>3. ASSUME NEW s \in 1..Room, NEW status \in {"FREE", "USED"}, ChangeStatus(s, status)
      PROVE BlobPool'
  <2>1. PICK r : r = SetStatus(d, s, status) /\ d' = r.db
    BY <1>3 DEF ChangeStatus, Return
  <2>2. s \in 1..Size(d) /\ d.slot[s].status # "OVERFLOW"
    BY <1>3 DEF ChangeStatus, Known, Slots
  <2>3. Good(r.db, {})
    BY <1>0, <2>1, <2>2, StatusGood
  <2> QED BY <2>1, <2>3 DEF BlobPool
<1>4. ASSUME NEW s \in 1..Room, NEW t \in 0..Room, Link(s, t) PROVE BlobPool'
  <2>1. PICK r : r = SetNext(d, s, t) /\ d' = r.db
    BY <1>4 DEF Link, Return
  <2>2. s \in 1..Size(d) /\ t \in 0..Size(d)
    BY <1>0, <1>4 DEF Link, Known, Slots
  <2>3. Relink(d, r.db, s, t)
    BY <1>0, <2>1, <2>2, NextGood
  <2> QED BY <2>1, <2>3 DEF BlobPool, Relink
<1>5. ASSUME NEW s \in 1..Room, NEW v \in Values, Write(s, v) PROVE BlobPool'
  <2> DEFINE p == [first |-> <<0, v>>, rest |-> << >>]
  <2>1. PICK r : r = WritePayload(d, s, p) /\ d' = r.db
    BY <1>5 DEF Write, Return
  <2>2. s \in 1..Size(d) /\ d.slot[s].status # "OVERFLOW"
    BY <1>5 DEF Write, Known, Slots
  <2> HIDE DEF p
  <2>3. Good(r.db, {})
    BY <1>0, <2>1, <2>2, WriteGood
  <2> QED BY <2>1, <2>3 DEF BlobPool
<1>6. ASSUME NEW s \in 1..Room, NEW v \in Values, NEW n \in 0..MaxLen, WriteB(s, v, n)
      PROVE BlobPool'
  <2> DEFINE data == [i \in 1..n |-> 10 * v + i]
  <2>1. PICK r : r = BlobWritten(d, s, data) /\ d' = r.db
    BY <1>6 DEF WriteB, Return, BlobWritten
  <2>2. s \in 1..Size(d) /\ d.slot[s].status # "OVERFLOW"
    BY <1>6 DEF WriteB, Known, Slots
  <2>3. n \in Nat
    OBVIOUS
  <2>4. Len(data) \in Nat
    BY <2>3, DataIs
  <2> HIDE DEF data
  <2>5. Good(r.db, {})
    BY <1>0, <2>1, <2>2, <2>4, WriteBlobGood
  <2> QED BY <2>1, <2>5 DEF BlobPool
<1>7. CASE Grow
  <2>1. PICK r : r = GrowSlots(d, Room, FALSE) /\ d' = r.db
    BY <1>7 DEF Grow, Return
  <2> DEFINE e == d
             X == {}
  <2>2. Good(e, X) /\ r = GrowSlots(e, Room, FALSE)
    BY <1>0, <2>1
  <2> HIDE DEF e, X
  <2>3. (r.err # "OK" => r.db = e) /\ (r.err = "OK" => Good(r.db, X))
    BY <2>2, GrowGood
  <2>4. Good(r.db, X)
    BY <2>2, <2>3
  <2> QED BY <2>1, <2>4 DEF BlobPool, X
<1>8. CASE Reopen
  <2>1. d' = RebuildFreeList(d)
    BY <1>8 DEF Reopen, Return, Refuse, Result
  <2>2. Good(RebuildFreeList(d), {})
    BY <1>0, RebuildGood
  <2> QED BY <2>1, <2>2 DEF BlobPool
<1>9. CASE UNCHANGED vars
  BY <1>9 DEF vars, BlobPool
<1> QED BY <1>1, <1>2, <1>3, <1>4, <1>5, <1>6, <1>7, <1>8, <1>9 DEF Next

LEMMA BlobPoolHolds ==
  ASSUME Room < CountMod
  PROVE Spec => []BlobPool
<1>1. Init => BlobPool
  BY BlobAssumption, NewGood DEF Init, BlobPool
<1>2. BlobPool /\ [Next]_vars => BlobPool'
  BY BlobPoolStep
<1> QED BY <1>1, <1>2, PTL DEF Spec

(* The list that the code walks is that of the FREE slots.                 *)
LEMMA PoolIsExact ==
  ASSUME BlobPool
  PROVE PoolExact
<1> DEFINE c == Cursor(d)
           free == Frees(d)
           n == Size(d)
           m == d.count
<1>1. Good(d, {}) /\ n \in Nat /\ m \in Nat /\ m <= n
  BY GoodParts DEF BlobPool
<1>2. Listed(free, Links(d), d.head, m)
  BY <1>1 DEF Good, Pool
<1>3. PICK q : Along(free, Links(d), d.head, m, q)
  BY <1>2 DEF Listed
<1>4. m = Cardinality(free)
  BY <1>2, ListCount
<1>5. DOMAIN c = 0..n /\ \A k \in 0..n : c[k] = IF k < m THEN q[k + 1] ELSE 0
  BY <1>1, <1>3, CursorIs
<1>6. 0 \notin free
  BY DEF Frees
<1> HIDE DEF c, free, n, m
<1>7. ASSUME NEW k \in 0..n, k < m PROVE k + 1 \in 1..m
  BY <1>1, <1>7
<1>8. {c[k] : k \in DOMAIN c} = free \cup {0}
  <2>1. ASSUME NEW k \in DOMAIN c PROVE c[k] \in free \cup {0}
    BY <1>3, <1>5, <1>7 DEF Along
  <2>2. ASSUME NEW s \in free PROVE \E k \in DOMAIN c : c[k] = s
    <3>1. PICK i \in 1..m : q[i] = s
      BY <1>3 DEF Along
    <3>2. i - 1 \in 0..n /\ i - 1 < m /\ (i - 1) + 1 = i
      BY <1>1
    <3> QED BY <1>5, <3>1, <3>2
  <2>3. n \in DOMAIN c /\ c[n] = 0
    BY <1>1, <1>5
  <2> QED BY <2>1, <2>2, <2>3
<1>9. ASSUME NEW i \in DOMAIN c, NEW j \in DOMAIN c, c[i] = c[j], c[i] # 0 PROVE i = j
  <2>1. i < m /\ j < m /\ q[i + 1] = q[j + 1]
    BY <1>5, <1>9
  <2>2. i + 1 \in 1..m /\ j + 1 \in 1..m
    BY <1>5, <1>7, <2>1
  <2>3. i + 1 = j + 1
    BY <1>3, <2>1, <2>2 DEF Along
  <2> QED BY <1>1, <1>5, <2>3
<1>10. free = {s \in Slots : d.slot[s].status = "FREE"}
  BY DEF free, Frees, Slots
<1> QED BY <1>4, <1>8, <1>9, <1>10 DEF PoolExact, c, m

(* PoolExact for any buffer of fewer than 2^32 slots (free_count has 32    *)
(* bits, max_slots 64): after any calls of the slot API and the blob API,  *)
(* growth and reopening the free list is the FREE slots, each once.        *)
THEOREM PoolTheorem ==
  ASSUME Room < CountMod
  PROVE Spec => []PoolExact
<1>1. BlobPool => PoolExact
  BY PoolIsExact
<1>2. Spec => []BlobPool
  BY BlobPoolHolds
<1> QED BY <1>1, <1>2, PTL

(* What SlotsReadable says of the slots themselves.                        *)
LEMMA PoolSlots ==
  ASSUME BlobPool
  PROVE /\ Size(d) \in Nat /\ d.head \in 0..Size(d) /\ d.count \in 0..Size(d)
        /\ \A i \in 1..Size(d) : d.slot[i].next \in 0..Size(d)
        /\ \A i \in 1..Size(d) : CrcValid(d.slot[i])
<1> DEFINE e == d
<1>1. Good(e, {})
  BY DEF BlobPool
<1> HIDE DEF e
<1>2. \A i \in 1..Size(e) : CrcValid(e.slot[i])
  BY <1>1 DEF Good, Sums
<1>3. Size(e) \in Nat /\ e.head \in 0..Size(e) /\ e.count \in Nat /\ e.count <= Size(e)
  BY <1>1, GoodParts
<1>4. \A i \in 1..Size(e) : IsSlot(e.slot[i], Size(e))
  BY <1>1, GoodParts
<1> QED BY <1>2, <1>3, <1>4 DEF IsSlot, e

(* The function that ForeachUsed computes with.                            *)
VisitTurn(e, w, i) ==
  IF w.err # "OK" \/ e.slot[i].status # "USED" THEN w
  ELSE IF CrcValid(e.slot[i]) THEN [w EXCEPT !.visited = @ \cup {i}]
  ELSE [w EXCEPT !.err = "BAD_CHECKSUM"]
Visits(S) == [err |-> "OK", visited |-> S]
IsVisit(w, e) ==
  w = [i \in 0..Size(e) |-> IF i = 0 THEN Visits({}) ELSE VisitTurn(e, w[i - 1], i)]

LEMMA ForeachIs == ForeachUsed = (CHOOSE w : IsVisit(w, d))[Size(d)]
BY DEF ForeachUsed, IsVisit, VisitTurn, Visits

(* ef_foreach_used meets no slot whose crc is wrong.                       *)
LEMMA ForeachAll ==
  ASSUME BlobPool
  PROVE ForeachUsed = [err |-> "OK", visited |-> Heads]
<1> DEFINE n == Size(d)
           used(i) == {j \in 1..i : d.slot[j].status = "USED"}
           g == [i \in 0..n |-> Visits(used(i))]
<1>1. n \in Nat /\ \A i \in 1..n : CrcValid(d.slot[i])
  BY PoolSlots
<1>2. ASSUME NEW i \in 1..n PROVE VisitTurn(d, Visits(used(i - 1)), i) = Visits(used(i))
  <2> DEFINE A == used(i - 1)
             B == used(i)
  <2>1. i - 1 \in Nat /\ \A j \in 1..i : j = i \/ j \in 1..i - 1
    BY <1>1
  <2>2. \A j \in 1..i - 1 : j \in 1..i
    BY <1>1
  <2>3. d.slot[i].status = "USED" => B = A \cup {i}
    BY <1>1, <2>1, <2>2
  <2>4. d.slot[i].status # "USED" => B = A
    BY <1>1, <2>1, <2>2
  <2> HIDE DEF A, B
  <2>5. [Visits(A) EXCEPT !.visited = @ \cup {i}] = Visits(A \cup {i}) /\ Visits(A).err = "OK"
    BY DEF Visits
  <2>6. VisitTurn(d, Visits(A), i) = Visits(B)
    BY <1>1, <2>3, <2>4, <2>5 DEF VisitTurn
  <2> QED BY <2>6 DEF A, B
<1>3. used(0) = {}
  OBVIOUS
<1>4. used(n) = Heads
  BY DEF Heads, Slots
<1> HIDE DEF used
<1>5. IsVisit(g, d)
  <2>1. g[0] = Visits({}) /\ \A i \in 1..n : i - 1 \in 0..n /\ g[i - 1] = Visits(used(i - 1))
    <3>1. 0 \in 0..n /\ \A i \in 1..n : i - 1 \in 0..n
      BY <1>1
    <3>2. \A i \in 0..n : g[i] = Visits(used(i))
      OBVIOUS
    <3> HIDE DEF g, n
    <3> QED BY <1>3, <3>1, <3>2
  <2>2. ASSUME NEW i \in 0..n PROVE g[i] = IF i = 0 THEN Visits({}) ELSE VisitTurn(d, g[i - 1], i)
    <3>1. CASE i = 0
      BY <2>1, <3>1
    <3>2. CASE i # 0
      <4>1. i \in 1..n /\ g[i] = Visits(used(i))
        BY <1>1, <3>2
      <4> HIDE DEF g
      <4> QED BY <1>2, <2>1, <3>2, <4>1
    <3> QED BY <3>1, <3>2
  <2>3. g = [i \in 0..n |-> g[i]]
    OBVIOUS
  <2> HIDE DEF g
  <2> QED BY <2>2, <2>3 DEF IsVisit
<1> DEFINE w == CHOOSE v : IsVisit(v, d)
<1>6. IsVisit(w, d)
  BY <1>5
<1> HIDE DEF w, g
<1> DEFINE S == {i \in 0..n : w[i] = Visits(used(i))}
<1>7. w[0] = Visits({}) /\ \A i \in 1..n : w[i] = VisitTurn(d, w[i - 1], i)
  <2>1. 0 \in 0..n /\ \A i \in 1..n : i \in 0..n /\ i # 0
    BY <1>1
  <2> QED BY <1>6, <2>1 DEF IsVisit
<1>8. 0 \in S
  BY <1>1, <1>3, <1>7
<1>9. ASSUME NEW i \in 1..n, i - 1 \in S PROVE i \in S
  BY <1>2, <1>7, <1>9
<1>10. n \in S
  <2> HIDE DEF S
  <2> QED BY <1>1, <1>8, <1>9, BoundedInduction
<1>11. w[n] = Visits(Heads)
  BY <1>4, <1>10
<1> QED BY <1>11, ForeachIs DEF Visits, w

(* The slot at which ef_slot_iter_next stops.                              *)
LEMMA IterNext ==
  ASSUME BlobPool, NEW s \in Heads
  PROVE SlotIterNext(s - 1) = [ret |-> 1, index |-> s]
<1> DEFINE used == {t \in Slots : t > s - 1 /\ d.slot[t].status = "USED"}
<1>1. Size(d) \in Nat /\ \A i \in 1..Size(d) : CrcValid(d.slot[i])
  BY PoolSlots
<1>2. s \in Slots /\ d.slot[s].status = "USED" /\ Slots \subseteq Nat
  BY <1>1 DEF Heads, Slots
<1>3. s \in used /\ \A t \in used : t \in Nat /\ s <= t
  BY <1>2
<1>4. used # {} /\ s \in Nat
  BY <1>2, <1>3
<1> HIDE DEF used
<1>5. Min(used) = s
  <2>1. PICK x \in used : x = Min(used) /\ \A y \in used : x <= y
    BY <1>3 DEF Min
  <2>2. x <= s /\ s <= x /\ x \in Nat
    BY <1>3, <2>1
  <2>3. x = s
    BY <1>4, <2>2
  <2> QED BY <2>1, <2>3
<1>6. CrcValid(d.slot[s])
  BY <1>1, <1>2 DEF Slots
<1>7. SlotIterNext(s - 1) = IF used = {} THEN [ret |-> 0, index |-> Size(d)]
         ELSE [ret |-> IF CrcValid(d.slot[Min(used)]) THEN 1 ELSE -1, index |-> Min(used)]
  BY DEF SlotIterNext, used
<1> QED BY <1>4, <1>5, <1>6, <1>7

(* SlotsReadable for any such buffer: no call leaves a slot that ef_get_   *)
(* slot refuses, so that iteration never ends with EF_ERR_BAD_CHECKSUM.    *)
THEOREM ReadableTheorem ==
  ASSUME Room < CountMod
  PROVE Spec => []SlotsReadable
<1>1. BlobPool => SlotsReadable
  <2> SUFFICES ASSUME BlobPool PROVE SlotsReadable
    OBVIOUS
  <2> QED BY PoolSlots, ForeachAll, IterNext DEF SlotsReadable, Slots
<1>2. Spec => []BlobPool
  BY BlobPoolHolds
<1> QED BY <1>1, <1>2, PTL

-----------------------------------------------------------------------------
(* Who owns the overflow slots.  A function own says on which slot each of *)
(* them hangs; the slots that it gives to s are those of the chain of s.   *)

Over(e, own, s) == {t \in 1..Size(e) : e.slot[t].status = "OVERFLOW" /\ own[t] = s}

(* The first slot of the chain of s, and a link that leads somewhere.      *)
First(e, s) == IF HasChain(e, s) THEN e.slot[s].next ELSE 0
Linked(e, s) == e.slot[s].next # 0 => e.slot[e.slot[s].next].status # "FREE"

Chained(e, own, s, h, c, q) == c \in Nat /\ Along(Over(e, own, s), Links(e), h, c, q)

(* The pieces of the blob b are in the slots q of its chain, and none is   *)
(* missing.                                                                *)
Filled(e, c, q, b) == \A i \in 1..c : e.slot[q[i]].payload.rest = Piece(b, PieceOf(i))

Holds(e, own, s, b) ==
  /\ e.slot[s].payload = BlobHead(b)
  /\ \E c, q : /\ Chained(e, own, s, First(e, s), c, q)
               /\ Filled(e, c, q, b) /\ PieceOf(c + 1) > Len(b)

HasList(e, own, s) == \E c, q : Chained(e, own, s, First(e, s), c, q)

(* The slot u in use, its chain and its blob are as they should be.        *)
Sound(e, own, bl, u) ==
  Linked(e, u) /\ HasList(e, own, u) /\ (bl[u] # NoBlob => Holds(e, own, u, bl[u]))

(* All that is not about slot s; all there is when s is 0.                 *)
Rest(e, own, bl, s) ==
  /\ \A t \in 1..Size(e) : e.slot[t].status = "OVERFLOW" =>
       own[t] # 0 /\ (own[t] # s => own[t] \in 1..Size(e) /\ e.slot[own[t]].status = "USED")
  /\ \A u \in 1..Size(e) : e.slot[u].status = "USED" /\ u # s => Sound(e, own, bl, u)
  /\ \A u \in 1..Room : u # s /\ bl[u] # NoBlob => u \in 1..Size(e) /\ e.slot[u].status = "USED"

(* From e to f nothing changed in the chain of the slot u.                 *)
Kept(e, f, own, new, u) ==
  /\ Over(f, new, u) = Over(e, own, u)
  /\ \A x \in Over(e, own, u) : Same(f.slot[x], e.slot[x])
  /\ First(f, u) = First(e, u)

LEMMA KeptChained ==
  ASSUME NEW e, NEW f, NEW own, NEW new, NEW u, Kept(e, f, own, new, u),
         NEW h, NEW c, NEW q, Chained(e, own, u, h, c, q)
  PROVE Chained(f, new, u, h, c, q)
<1> DEFINE F == Over(e, own, u)
<1>1. Over(f, new, u) = F /\ \A x \in F : Same(f.slot[x], e.slot[x])
  BY DEF Kept
<1>2. \A x \in F : x \in 1..Size(e) /\ x \in 1..Size(f)
  BY <1>1 DEF Over
<1>3. \A x \in F : Links(f)[x] = Links(e)[x]
  BY <1>1, <1>2 DEF Links, Same
<1>4. c \in Nat /\ Along(F, Links(e), h, c, q)
  BY DEF Chained
<1> HIDE DEF F
<1>5. \A i \in 1..c : Links(f)[q[i]] = Links(e)[q[i]]
  BY <1>3, <1>4 DEF Along
<1>6. Along(F, Links(f), h, c, q)
  BY <1>4, <1>5 DEF Along
<1> QED BY <1>1, <1>4, <1>6 DEF Chained

LEMMA KeptFilled ==
  ASSUME NEW e, NEW f, NEW own, NEW new, NEW u, Kept(e, f, own, new, u),
         NEW h, NEW c, NEW q, Chained(e, own, u, h, c, q), NEW b, Filled(e, c, q, b)
  PROVE Filled(f, c, q, b)
<1>1. \A i \in 1..c : q[i] \in Over(e, own, u)
  BY DEF Chained, Along
<1>2. \A i \in 1..c : f.slot[q[i]].payload = e.slot[q[i]].payload
  BY <1>1 DEF Kept, Same
<1> QED BY <1>2 DEF Filled

LEMMA KeptSound ==
  ASSUME NEW e, NEW f, NEW own, NEW new, NEW bl, NEW u, Kept(e, f, own, new, u),
         Sound(e, own, bl, u), Linked(f, u), f.slot[u].payload = e.slot[u].payload
  PROVE Sound(f, new, bl, u)
<1> DEFINE h == First(e, u)
<1>0. First(f, u) = h
  BY DEF Kept
<1> HIDE DEF h
<1>1. HasList(f, new, u)
  <2>1. PICK c, q : Chained(e, own, u, h, c, q)
    BY DEF Sound, HasList, h
  <2>2. Chained(f, new, u, h, c, q)
    BY <2>1, KeptChained
  <2> QED BY <1>0, <2>2 DEF HasList
<1>2. ASSUME bl[u] # NoBlob PROVE Holds(f, new, u, bl[u])
  <2> DEFINE b == bl[u]
  <2>1. Holds(e, own, u, b)
    BY <1>2 DEF Sound
  <2> HIDE DEF b
  <2>2. PICK c, q : Chained(e, own, u, h, c, q) /\ Filled(e, c, q, b) /\ PieceOf(c + 1) > Len(b)
    BY <2>1 DEF Holds, h
  <2>3. Chained(f, new, u, h, c, q)
    BY <2>2, KeptChained
  <2>4. Filled(f, c, q, b)
    BY <2>2, KeptFilled
  <2>5. f.slot[u].payload = BlobHead(b)
    BY <2>1 DEF Holds
  <2>6. Holds(f, new, u, b)
    BY <1>0, <2>2, <2>3, <2>4, <2>5 DEF Holds
  <2> QED BY <2>6 DEF b
<1> QED BY <1>1, <1>2 DEF Sound

(* A call on slot s changes it, its chain, and FREE slots, among those of  *)
(* T; a slot that it takes from the free list becomes part of the chain.   *)
Moved(e, f, own, new, s, T) ==
  /\ Shape(e) /\ Size(f) \in Nat /\ Others(e, f, T)
  /\ \A t \in T : \/ t = s \/ t \notin 1..Size(e) \/ e.slot[t].status = "FREE"
                  \/ t \in Over(e, own, s)
  /\ \A t \in T : t # s /\ t \in 1..Size(f) =>
       f.slot[t].status = "FREE" \/ (t \in Over(f, new, s) /\ s # 0)
  /\ s \in 1..Size(e) => e.slot[s].status # "OVERFLOW"
  /\ s \in 1..Size(f) => f.slot[s].status # "OVERFLOW"
  /\ \A t \in 1..Size(e) : t \notin T => new[t] = own[t]
  /\ \/ s = 0
     \/ s \in 1..Size(f) /\ f.slot[s].status = "USED"
     \/ \A u \in 1..Size(e) : u # s /\ e.slot[u].status = "USED" => e.slot[u].next # s

(* What Moved says of one slot that is not in T.                           *)
LEMMA MovedOther ==
  ASSUME NEW e, NEW f, NEW own, NEW new, NEW s, NEW T, Moved(e, f, own, new, s, T)
  PROVE /\ \A t \in 1..Size(f) : t \notin T /\ f.slot[t].status # "FREE" =>
             t \in 1..Size(e) /\ Same(f.slot[t], e.slot[t]) /\ new[t] = own[t]
        /\ \A t \in 1..Size(e) : t \notin T /\ e.slot[t].status # "FREE" =>
             t \in 1..Size(f) /\ Same(f.slot[t], e.slot[t]) /\ new[t] = own[t]
<1>1. Size(e) \in Nat /\ Size(f) \in Nat /\ Size(f) >= Size(e)
  BY DEF Moved, Shape, Others
<1>2. \A t \in 1..Size(f) : t \notin T =>
       IF t <= Size(e) /\ e.slot[t].status # "FREE" THEN Same(f.slot[t], e.slot[t])
       ELSE f.slot[t].status = "FREE"
  BY DEF Moved, Others
<1>3. \A t \in 1..Size(e) : t \notin T => new[t] = own[t]
  BY DEF Moved
<1>4. \A t \in 1..Size(f) : t <= Size(e) => t \in 1..Size(e)
  BY <1>1
<1>5. \A t \in 1..Size(e) : t <= Size(e) /\ t \in 1..Size(f)
  BY <1>1
<1> QED BY <1>2, <1>3, <1>4, <1>5

(* What is overflow in f is what was in e, but for the chain of s.         *)
LEMMA MovedOver ==
  ASSUME NEW e, NEW f, NEW own, NEW new, NEW s, NEW T, Moved(e, f, own, new, s, T), NEW u, u # s
  PROVE Over(f, new, u) = Over(e, own, u) /\ \A x \in Over(e, own, u) : Same(f.slot[x], e.slot[x])
<1>1. ASSUME NEW t \in Over(f, new, u) PROVE t \in Over(e, own, u)
  <2>1. t \in 1..Size(f) /\ f.slot[t].status = "OVERFLOW" /\ new[t] = u
    BY DEF Over
  <2>2. t \notin T
    <3>1. t # s
      BY <2>1 DEF Moved
    <3>2. t \notin Over(f, new, s)
      BY <2>1 DEF Over
    <3> QED BY <2>1, <3>1, <3>2 DEF Moved
  <2>3. t \in 1..Size(e) /\ Same(f.slot[t], e.slot[t]) /\ new[t] = own[t]
    BY <2>1, <2>2, MovedOther
  <2> QED BY <2>1, <2>3 DEF Over, Same
<1>2. ASSUME NEW t \in Over(e, own, u) PROVE t \in Over(f, new, u) /\ Same(f.slot[t], e.slot[t])
  <2>1. t \in 1..Size(e) /\ e.slot[t].status = "OVERFLOW" /\ own[t] = u
    BY DEF Over
  <2>2. t \notin T
    <3>1. t # s
      BY <2>1 DEF Moved
    <3>2. t \notin Over(e, own, s)
      BY <2>1 DEF Over
    <3> QED BY <2>1, <3>1, <3>2 DEF Moved
  <2>3. t \in 1..Size(f) /\ Same(f.slot[t], e.slot[t]) /\ new[t] = own[t]
    BY <2>1, <2>2, MovedOther
  <2> QED BY <2>1, <2>3 DEF Over, Same
<1> QED BY <1>1, <1>2

(* The first slot of a chain is one of the chain.                          *)
LEMMA FirstOver ==
  ASSUME NEW e, NEW own, NEW u, HasList(e, own, u), HasChain(e, u)
  PROVE e.slot[u].next \in Over(e, own, u)
<1>1. First(e, u) = e.slot[u].next /\ e.slot[u].next # 0
  BY DEF First, HasChain
<1>2. PICK c, q : Chained(e, own, u, First(e, u), c, q)
  BY DEF HasList
<1>3. c \in Nat /\ c # 0 /\ e.slot[u].next = q[1] /\ q \in [1..c -> Over(e, own, u)]
  BY <1>1, <1>2 DEF Chained, Along
<1>4. 1 \in 1..c
  BY <1>3
<1> QED BY <1>3, <1>4

(* The other slots in use, and their chains, are kept.                     *)
LEMMA MovedKept ==
  ASSUME NEW e, NEW f, NEW own, NEW new, NEW s, NEW T, Moved(e, f, own, new, s, T),
         NEW u \in 1..Size(f), u # s, f.slot[u].status = "USED",
         NEW bl, Rest(e, own, bl, s)
  PROVE /\ u \in 1..Size(e) /\ e.slot[u].status = "USED"
        /\ Kept(e, f, own, new, u) /\ Linked(f, u) /\ f.slot[u].payload = e.slot[u].payload
<1>1. u \notin T
  <2>1. u \notin Over(f, new, s)
    BY DEF Over
  <2> QED BY <2>1 DEF Moved
<1>2. u \in 1..Size(e) /\ Same(f.slot[u], e.slot[u])
  BY <1>1, MovedOther
<1>3. e.slot[u].status = "USED" /\ f.slot[u].next = e.slot[u].next /\ f.slot[u].payload = e.slot[u].payload
  BY <1>2 DEF Same
<1>4. Sound(e, own, bl, u)
  BY <1>2, <1>3 DEF Rest
<1>5. Linked(e, u) /\ HasList(e, own, u)
  BY <1>4 DEF Sound
<1> DEFINE n == e.slot[u].next
<1>6. n # 0 => n \in 1..Size(e)
  <2>1. n \in 0..Size(e) /\ Size(e) \in Nat
    BY <1>2 DEF Moved, Shape, IsSlot
  <2> QED BY <2>1
<1>7. ASSUME n # 0
      PROVE /\ f.slot[n].status # "FREE"
            /\ f.slot[n].status = "OVERFLOW" <=> e.slot[n].status = "OVERFLOW"
  <2>1. e.slot[n].status # "FREE"
    BY <1>5, <1>7 DEF Linked
  <2>2. CASE n \notin T
    <3>1. Same(f.slot[n], e.slot[n])
      BY <1>6, <1>7, <2>1, <2>2, MovedOther
    <3> QED BY <2>1, <3>1 DEF Same
  <2>3. CASE n \in T
    <3>1. n \notin Over(e, own, s)
      <4>1. SUFFICES ASSUME n \in Over(e, own, s) PROVE FALSE
        OBVIOUS
      <4>2. HasChain(e, u)
        BY <1>7, <4>1 DEF HasChain, Over
      <4>3. n \in Over(e, own, u)
        BY <1>5, <4>2, FirstOver
      <4> QED BY <4>1, <4>3 DEF Over
    <3>2. n = s
      BY <1>6, <1>7, <2>1, <2>3, <3>1 DEF Moved
    <3>3. f.slot[s].status = "USED"
      BY <1>2, <1>3, <1>7, <3>2 DEF Moved
    <3>4. e.slot[s].status # "OVERFLOW"
      BY <1>6, <1>7, <3>2 DEF Moved
    <3> QED BY <3>2, <3>3, <3>4
  <2> QED BY <2>2, <2>3
<1>8. Linked(f, u)
  BY <1>3, <1>7 DEF Linked
<1>9. First(f, u) = First(e, u)
  BY <1>3, <1>7 DEF First, HasChain
<1>10. Kept(e, f, own, new, u)
  BY <1>3, <1>9, MovedOver DEF Kept
<1> QED BY <1>2, <1>3, <1>8, <1>10

LEMMA RestKept ==
  ASSUME NEW e, NEW f, NEW own, NEW new, NEW s, NEW T, Moved(e, f, own, new, s, T),
         NEW bl, Rest(e, own, bl, s)
  PROVE Rest(f, new, bl, s)
<1>0. \A u \in 1..Size(e) : u # s /\ e.slot[u].status = "USED" => u \notin T
  BY DEF Moved, Over
<1>1. ASSUME NEW t \in 1..Size(f), f.slot[t].status = "OVERFLOW"
      PROVE new[t] # 0 /\ (new[t] # s => new[t] \in 1..Size(f) /\ f.slot[new[t]].status = "USED")
  <2>1. t # s
    BY <1>1 DEF Moved
  <2>2. CASE t \in T
    BY <1>1, <2>1, <2>2 DEF Moved, Over
  <2>3. CASE t \notin T
    <3> DEFINE u == own[t]
    <3>1. t \in 1..Size(e) /\ Same(f.slot[t], e.slot[t]) /\ new[t] = u
      BY <1>1, <2>3, MovedOther
    <3>2. e.slot[t].status = "OVERFLOW"
      BY <1>1, <3>1 DEF Same
    <3>3. u # 0 /\ (u # s => u \in 1..Size(e) /\ e.slot[u].status = "USED")
      BY <3>1, <3>2 DEF Rest
    <3> HIDE DEF u
    <3>4. ASSUME u # s PROVE u \in 1..Size(f) /\ f.slot[u].status = "USED"
      <4>1. u \in 1..Size(e) /\ e.slot[u].status = "USED" /\ u \notin T
        BY <1>0, <3>3, <3>4
      <4>2. u \in 1..Size(f) /\ Same(f.slot[u], e.slot[u])
        BY <4>1, MovedOther
      <4> QED BY <4>1, <4>2 DEF Same
    <3> QED BY <3>1, <3>3, <3>4
  <2> QED BY <2>2, <2>3
<1>2. ASSUME NEW u \in 1..Size(f), f.slot[u].status = "USED", u # s PROVE Sound(f, new, bl, u)
  <2>1. /\ u \in 1..Size(e) /\ e.slot[u].status = "USED"
        /\ Kept(e, f, own, new, u) /\ Linked(f, u) /\ f.slot[u].payload = e.slot[u].payload
    BY <1>2, MovedKept
  <2>2. Sound(e, own, bl, u)
    BY <1>2, <2>1 DEF Rest
  <2> QED BY <2>1, <2>2, KeptSound
<1>3. ASSUME NEW u \in 1..Room, u # s, bl[u] # NoBlob
      PROVE u \in 1..Size(f) /\ f.slot[u].status = "USED"
  <2>1. u \in 1..Size(e) /\ e.slot[u].status = "USED"
    BY <1>3 DEF Rest
  <2>2. u \in 1..Size(f) /\ Same(f.slot[u], e.slot[u])
    BY <1>0, <1>3, <2>1, MovedOther
  <2> QED BY <2>1, <2>2 DEF Same
<1> QED BY <1>1, <1>2, <1>3 DEF Rest

LEMMA RestAny ==
  ASSUME NEW e, NEW own, NEW bl, Rest(e, own, bl, 0), NEW s
  PROVE Rest(e, own, bl, s)
BY DEF Rest

LEMMA RestAll ==
  ASSUME NEW e, NEW own, NEW bl, NEW s \in 1..Size(e), Rest(e, own, bl, s),
         e.slot[s].status = "USED", Sound(e, own, bl, s)
  PROVE Rest(e, own, bl, 0)
BY DEF Rest

LEMMA RestGone ==
  ASSUME NEW e, NEW own, NEW bl, NEW s \in 1..Size(e), Rest(e, own, bl, s),
         e.slot[s].status = "FREE", Over(e, own, s) = {}, bl[s] = NoBlob
  PROVE Rest(e, own, bl, 0)
<1>1. \A t \in 1..Size(e) : e.slot[t].status = "OVERFLOW" => own[t] # s
  BY DEF Over
<1> QED BY <1>1 DEF Rest

LEMMA RestBlob ==
  ASSUME NEW e, Size(e) \in Nat, Size(e) <= Room, NEW own, NEW bl, NEW s, Rest(e, own, bl, s),
         NEW bm, \A u \in 1..Room : u # s => bm[u] = bl[u]
  PROVE Rest(e, own, bm, s)
<1>1. \A u \in 1..Size(e) : u \in 1..Room
  BY BlobAssumption
<1>2. \A u \in 1..Size(e) : u # s => (Sound(e, own, bl, u) => Sound(e, own, bm, u))
  BY <1>1 DEF Sound
<1> QED BY <1>2 DEF Rest

LEMMA OverNone ==
  ASSUME NEW e, NEW own, NEW bl, Rest(e, own, bl, 0), NEW s,
         s \in 1..Size(e) => e.slot[s].status # "USED"
  PROVE Over(e, own, s) = {}
BY DEF Rest, Over

LEMMA EmptyList ==
  ASSUME NEW e, NEW own, NEW s, Over(e, own, s) = {}
  PROVE \E q : Chained(e, own, s, 0, 0, q)
<1> DEFINE q == [i \in 1..0 |-> 0]
<1>1. Along({}, Links(e), 0, 0, q)
  BY DEF Along
<1> HIDE DEF q
<1>2. Chained(e, own, s, 0, 0, q)
  BY <1>1 DEF Chained
<1> QED BY <1>2

(* Only slot s changes, or none.                                           *)
LEMMA MovedOne ==
  ASSUME NEW e, NEW f, Shape(e), Size(f) \in Nat, NEW s, Others(e, f, {s}), NEW own,
         s \in 1..Size(e) => e.slot[s].status # "OVERFLOW",
         s \in 1..Size(f), f.slot[s].status = "USED"
  PROVE Moved(e, f, own, own, s, {s})
BY DEF Moved

LEMMA StillRest ==
  ASSUME NEW e, NEW f, Shape(e), Size(f) \in Nat, Others(e, f, {}), NEW own, NEW bl,
         Rest(e, own, bl, 0)
  PROVE Rest(f, own, bl, 0)
<1> DEFINE T == {}
           s == 0
<1>1. s \notin 1..Size(e) /\ s \notin 1..Size(f)
  BY DEF Shape
<1>2. Moved(e, f, own, own, s, T)
  BY <1>1 DEF Moved
<1> HIDE DEF s, T
<1>3. Rest(f, own, bl, s)
  BY <1>2, RestKept DEF s
<1> QED BY <1>3 DEF s

(* A slot leaves the free list.                                            *)
LEMMA RiseRest ==
  ASSUME NEW e, NEW f, Shape(e), Size(f) \in Nat, Size(f) <= Room, NEW s \in 1..Size(f),
         Others(e, f, {s}), s \in 1..Size(e) => e.slot[s].status = "FREE",
         f.slot[s].status = "USED", f.slot[s].next = 0,
         NEW own, NEW bl, Rest(e, own, bl, 0)
  PROVE Rest(f, own, bl, 0) /\ Over(f, own, s) = {}
<1> DEFINE T == {s}
<1>1. Moved(e, f, own, own, s, T)
  BY MovedOne
<1> HIDE DEF T
<1>2. Rest(e, own, bl, s)
  BY RestAny
<1>3. Rest(f, own, bl, s)
  BY <1>1, <1>2, RestKept
<1>4. Over(e, own, s) = {}
  BY OverNone
<1>5. Over(f, own, s) = {}
  <2>1. SUFFICES ASSUME NEW t \in Over(f, own, s) PROVE FALSE
    OBVIOUS
  <2>2. t \in 1..Size(f) /\ f.slot[t].status = "OVERFLOW" /\ own[t] = s
    BY DEF Over
  <2>3. t \notin T
    BY <2>2 DEF T
  <2>4. t \in 1..Size(e) /\ Same(f.slot[t], e.slot[t])
    BY <1>1, <2>2, <2>3, MovedOther
  <2>5. t \in Over(e, own, s)
    BY <2>2, <2>4 DEF Over, Same
  <2> QED BY <1>4, <2>5
<1>6. First(f, s) = 0 /\ Linked(f, s)
  BY DEF First, HasChain, Linked
<1>7. HasList(f, own, s)
  BY <1>5, <1>6, EmptyList DEF HasList
<1>8. s \in 1..Room
  BY BlobAssumption
<1>9. bl[s] = NoBlob
  BY <1>8 DEF Rest
<1>10. Sound(f, own, bl, s)
  BY <1>6, <1>7, <1>9 DEF Sound
<1> QED BY <1>3, <1>5, <1>10, RestAll

(* A slot in use changes, and its next does not: its chain is kept.        *)
LEMMA StoreKept ==
  ASSUME NEW e, NEW f, Shape(e), NEW own, NEW s \in 1..Size(e), s \in 1..Size(f),
         NEW T, T = {s}, Moved(e, f, own, own, s, T),
         e.slot[s].status = "USED", f.slot[s].status = "USED", f.slot[s].next = e.slot[s].next,
         Linked(e, s)
  PROVE Kept(e, f, own, own, s) /\ Linked(f, s)
<1> DEFINE n == e.slot[s].next
<1>1. ASSUME NEW t \in Over(f, own, s) PROVE t \in Over(e, own, s)
  <2>1. t \in 1..Size(f) /\ f.slot[t].status = "OVERFLOW" /\ own[t] = s /\ t \notin T
    BY DEF Over
  <2>2. t \in 1..Size(e) /\ Same(f.slot[t], e.slot[t])
    BY <2>1, MovedOther
  <2> QED BY <2>1, <2>2 DEF Over, Same
<1>2. ASSUME NEW t \in Over(e, own, s) PROVE t \in Over(f, own, s) /\ Same(f.slot[t], e.slot[t])
  <2>1. t \in 1..Size(e) /\ e.slot[t].status = "OVERFLOW" /\ own[t] = s /\ t \notin T
    BY DEF Over
  <2>2. t \in 1..Size(f) /\ Same(f.slot[t], e.slot[t])
    BY <2>1, MovedOther
  <2> QED BY <2>1, <2>2 DEF Over, Same
<1>3. n # 0 => n \in 1..Size(e)
  <2>1. n \in 0..Size(e) /\ Size(e) \in Nat
    BY DEF Shape, IsSlot
  <2> QED BY <2>1
<1>4. ASSUME n # 0 PROVE f.slot[n].status = e.slot[n].status
  <2>1. CASE n = s
    BY <2>1
  <2>2. CASE n # s
    <3>1. n \in 1..Size(e) /\ n \notin T /\ e.slot[n].status # "FREE"
      BY <1>3, <1>4, <2>2 DEF Linked
    <3>2. Same(f.slot[n], e.slot[n])
      BY <3>1, MovedOther
    <3> QED BY <3>2 DEF Same
  <2> QED BY <2>1, <2>2
<1>5. First(f, s) = First(e, s) /\ Linked(f, s)
  BY <1>4 DEF First, HasChain, Linked
<1> QED BY <1>1, <1>2, <1>5 DEF Kept

(* A slot in use and its blob are stored again; the blob may be gone.      *)
LEMMA StoreRest ==
  ASSUME NEW e, NEW f, Shape(e), Size(f) \in Nat, NEW s \in 1..Size(e), s \in 1..Size(f),
         Others(e, f, {s}), e.slot[s].status = "USED", f.slot[s].status = "USED",
         f.slot[s].next = e.slot[s].next,
         NEW own, NEW bl, Rest(e, own, bl, 0),
         bl[s] = NoBlob \/ f.slot[s].payload = e.slot[s].payload
  PROVE Rest(f, own, bl, 0)
<1> DEFINE T == {s}
<1>1. Moved(e, f, own, own, s, T) /\ T = {s}
  BY MovedOne
<1> HIDE DEF T
<1>2. Rest(f, own, bl, s)
  BY <1>1, RestAny, RestKept
<1>3. Sound(e, own, bl, s)
  BY DEF Rest, Shape
<1>4. Linked(e, s)
  BY <1>3 DEF Sound
<1>5. Kept(e, f, own, own, s) /\ Linked(f, s)
  BY <1>1, <1>4, StoreKept
<1>6. Sound(f, own, bl, s)
  <2>1. CASE f.slot[s].payload = e.slot[s].payload
    BY <1>3, <1>5, <2>1, KeptSound
  <2>2. CASE bl[s] = NoBlob
    <3>1. PICK c, q : Chained(e, own, s, First(e, s), c, q)
      BY <1>3 DEF Sound, HasList
    <3> DEFINE h == First(e, s)
    <3>2. Chained(e, own, s, h, c, q) /\ First(f, s) = h
      BY <1>5, <3>1 DEF Kept
    <3> HIDE DEF h
    <3>3. Chained(f, own, s, h, c, q)
      BY <1>5, <3>2, KeptChained
    <3>4. HasList(f, own, s)
      BY <3>2, <3>3 DEF HasList
    <3> QED BY <1>5, <2>2, <3>4 DEF Sound
  <2> QED BY <2>1, <2>2
<1> QED BY <1>2, <1>6, RestAll

(* ef_set_next_offset: a slot without a chain gets a link, or loses one.   *)
LEMMA LinkRest ==
  ASSUME NEW e, NEW f, Shape(e), Size(f) \in Nat, NEW s \in 1..Size(e), NEW t \in 0..Size(e),
         t # 0 => e.slot[t].status = "USED", Relink(e, f, s, t), Size(f) = Size(e),
         NEW own, NEW bl, Rest(e, own, bl, 0)
  PROVE Rest(f, own, bl, 0)
<1>1. CASE f = e
  BY <1>1
<1>2. CASE f # e
  <2> DEFINE T == {s}
  <2>1. /\ e.slot[s].status = "USED" /\ ~HasChain(e, s) /\ Others(e, f, T)
        /\ f.slot[s].status = "USED" /\ f.slot[s].next = t
        /\ f.slot[s].payload = e.slot[s].payload
    BY <1>2 DEF Relink
  <2>2. Moved(e, f, own, own, s, T) /\ T = {s}
    BY <2>1, MovedOne
  <2> HIDE DEF T
  <2>3. Rest(f, own, bl, s)
    BY <2>2, RestAny, RestKept
  <2>4. Sound(e, own, bl, s)
    BY <2>1 DEF Rest, Shape
  <2>5. First(e, s) = 0
    BY <2>1 DEF First
  <2>6. t # 0 => t \in 1..Size(e) /\ f.slot[t].status = "USED"
    <3>1. ASSUME t # 0, t # s PROVE Same(f.slot[t], e.slot[t])
      <4>1. t \in 1..Size(e) /\ t \notin T /\ e.slot[t].status # "FREE"
        BY <2>2, <3>1 DEF Shape
      <4> QED BY <2>2, <4>1, MovedOther
    <3>2. t # 0 => t \in 1..Size(e)
      BY DEF Shape
    <3> QED BY <2>1, <3>1, <3>2 DEF Same
  <2>7. First(f, s) = 0 /\ Linked(f, s)
    BY <2>1, <2>6 DEF First, HasChain, Linked
  <2>8. ASSUME NEW x \in 1..Size(f) PROVE x \in Over(f, own, s) <=> x \in Over(e, own, s)
    <3>1. CASE x \in T
      BY <2>1, <2>2, <3>1 DEF Over
    <3>2. CASE x \notin T /\ f.slot[x].status # "FREE"
      <4>1. x \in 1..Size(e) /\ Same(f.slot[x], e.slot[x])
        BY <2>2, <3>2, MovedOther
      <4> QED BY <4>1 DEF Over, Same
    <3>3. CASE x \notin T /\ f.slot[x].status = "FREE"
      <4>1. SUFFICES ASSUME x \in Over(e, own, s) PROVE FALSE
        BY <3>3 DEF Over
      <4>2. x \in 1..Size(e) /\ e.slot[x].status = "OVERFLOW"
        BY <4>1 DEF Over
      <4>3. Same(f.slot[x], e.slot[x])
        BY <2>2, <3>3, <4>2, MovedOther
      <4> QED BY <3>3, <4>2, <4>3 DEF Same
    <3> QED BY <3>1, <3>2, <3>3
  <2>9. Over(f, own, s) = Over(e, own, s) /\ \A x \in Over(e, own, s) : Same(f.slot[x], e.slot[x])
    <3>1. Over(f, own, s) = Over(e, own, s)
      BY <2>8 DEF Over
    <3>2. ASSUME NEW x \in Over(e, own, s) PROVE Same(f.slot[x], e.slot[x])
      <4>1. x \in 1..Size(e) /\ e.slot[x].status = "OVERFLOW" /\ x \notin T
        BY <2>1, <2>2 DEF Over
      <4> QED BY <2>2, <4>1, MovedOther
    <3> QED BY <3>1, <3>2
  <2>10. Kept(e, f, own, own, s)
    BY <2>5, <2>7, <2>9 DEF Kept
  <2>11. Sound(f, own, bl, s)
    BY <2>1, <2>4, <2>7, <2>10, KeptSound
  <2> QED BY <2>1, <2>3, <2>11, RestAll
<1> QED BY <1>1, <1>2

-----------------------------------------------------------------------------
(* Releasing a chain returns its slots, and only those, to the free list.  *)

(* What one turn of the loop does.                                         *)
TurnDone(w, r) ==
  \/ (w.got = 0 \/ w.err # "OK") /\ r = w
  \/ /\ w.got # 0 /\ w.err = "OK" /\ w.db.slot[w.got].status # "OVERFLOW"
     /\ r.db = w.db /\ r.got = w.got /\ r.err # "OK"
  \/ /\ w.got # 0 /\ w.err = "OK" /\ w.db.slot[w.got].status = "OVERFLOW"
     /\ r.err = "OK" /\ r.got = w.db.slot[w.got].next
     /\ Size(r.db) = Size(w.db) /\ Elsewhere(w.db, r.db, w.got)
     /\ r.db.slot[w.got].status = "FREE"

LEMMA TurnIs ==
  ASSUME Room < CountMod, NEW e, Size(e) \in Nat, NEW w, Going(e, w, {}), NEW r, r = Turn(w)
  PROVE TurnDone(w, r)
<1> DEFINE t == w.got
           D == w.db
           cut == [D EXCEPT !.slot[t].next = 0]
           f == ReturnSlot(D, t)
           stop == [w EXCEPT !.err = "NOT_FOUND"]
           m == w.marked \/ ~FALSE
           go == [w EXCEPT !.db = f, !.got = D.slot[t].next, !.marked = m]
<1>1. DOMAIN w = ResFields /\ Good(D, {}) /\ Size(D) = Size(e) /\ t \in 0..Size(e)
  BY DEF Going
<1>2. CASE t = 0 \/ w.err # "OK"
  <2>1. r = w
    BY <1>2 DEF Turn, WalkStep
  <2> QED BY <1>2, <2>1 DEF TurnDone
<1>3. CASE t # 0 /\ w.err = "OK" /\ D.slot[t].status # "OVERFLOW"
  <2>1. r = stop
    BY <1>3 DEF Turn, WalkStep
  <2>2. stop.db = D /\ stop.got = t /\ stop.err = "NOT_FOUND"
    BY <1>1 DEF ResFields
  <2> HIDE DEF stop
  <2> QED BY <1>3, <2>1, <2>2 DEF TurnDone
<1>4. CASE t # 0 /\ w.err = "OK" /\ D.slot[t].status = "OVERFLOW"
  <2>1. t \in 1..Size(D)
    BY <1>1, <1>4
  <2>2. ReturnSlot(cut, t) = f
    BY <1>1, <2>1, CutReturned
  <2> HIDE DEF f
  <2>3. r = go
    BY <1>4, <2>2 DEF Turn, WalkStep
  <2> DEFINE X == {}
  <2>4. Good(D, X) /\ t \in 1..Size(D) /\ D.slot[t].status # "FREE" /\ t \notin X
    BY <1>1, <1>4, <2>1
  <2>5. go.err = "OK" /\ go.db = f /\ go.got = D.slot[t].next
    BY <1>1, <1>4 DEF ResFields
  <2> HIDE DEF t, D, X, go
  <2>6. f = ReturnSlot(D, t)
    BY DEF f, D, t
  <2>7. /\ Good(f, X) /\ Size(f) = Size(D) /\ Others(D, f, {t})
        /\ f.slot[t].status = "FREE" /\ Elsewhere(D, f, t)
    BY <2>4, <2>6, ReturnGood
  <2> QED BY <1>4, <2>3, <2>5, <2>7 DEF TurnDone, t, D
<1> QED BY <1>2, <1>3, <1>4

(* The first k slots of the chain q of length c have been returned.        *)
Popped(g, w, k, c, q) ==
  /\ Size(w.db) = Size(g)
  /\ \A x \in 1..Size(g) : (\A i \in 1..c : i <= k => x # q[i]) => w.db.slot[x] = g.slot[x]
  /\ \A i \in 1..c : i <= k => w.db.slot[q[i]].status = "FREE"
  /\ c # 0 => w.err = "OK" /\ w.got = IF k < c THEN q[k + 1] ELSE 0
  /\ c = 0 /\ w.got # 0 => w.got \in 1..Size(g) /\ g.slot[w.got].status # "OVERFLOW"

(* The chain of g, before any of it is returned.                           *)
IsChain(g, F, h, c, q) ==
  /\ c \in Nat /\ Size(g) \in Nat /\ Along(F, Links(g), h, c, q)
  /\ \A x \in F : x \in 1..Size(g) /\ g.slot[x].status = "OVERFLOW"

LEMMA PoppedStep ==
  ASSUME NEW g, NEW F, NEW h, NEW c, NEW q, IsChain(g, F, h, c, q), NEW k \in Nat,
         NEW w, Popped(g, w, k, c, q), NEW r, TurnDone(w, r)
  PROVE Popped(g, r, k + 1, c, q)
<1>0. /\ c \in Nat /\ Size(g) \in Nat
      /\ \A i \in 1..c : q[i] \in 1..Size(g) /\ g.slot[q[i]].status = "OVERFLOW" /\ q[i] # 0
      /\ \A i, j \in 1..c : q[i] = q[j] => i = j
      /\ \A i \in 1..c : g.slot[q[i]].next = IF i = c THEN 0 ELSE q[i + 1]
  <2>1. \A i \in 1..c : q[i] \in F /\ q[i] \in 1..Size(g) /\ g.slot[q[i]].status = "OVERFLOW"
    BY DEF IsChain, Along
  <2>2. \A i \in 1..c : Links(g)[q[i]] = g.slot[q[i]].next
    BY <2>1 DEF Links
  <2>3. c \in Nat /\ Size(g) \in Nat
    BY DEF IsChain
  <2>4. \A x \in 1..Size(g) : x # 0
    BY <2>3
  <2> QED BY <2>1, <2>2, <2>3, <2>4 DEF IsChain, Along
<1>1. CASE c = 0
  <2>1. \A x \in 1..Size(g) : w.db.slot[x] = g.slot[x]
    BY <1>1 DEF Popped
  <2>2. w.got # 0 => w.got \in 1..Size(g) /\ g.slot[w.got].status # "OVERFLOW"
    BY <1>1 DEF Popped
  <2>3. r.db = w.db /\ r.got = w.got
    BY <2>1, <2>2 DEF TurnDone
  <2> QED BY <1>1, <2>1, <2>2, <2>3 DEF Popped
<1>2. CASE c # 0 /\ k >= c
  <2>1. w.err = "OK" /\ w.got = 0
    BY <1>0, <1>2 DEF Popped
  <2>2. r = w
    BY <2>1 DEF TurnDone
  <2>3. \A i \in 1..c : i <= k /\ i <= k + 1
    BY <1>0, <1>2
  <2>4. ~(k + 1 < c)
    BY <1>0, <1>2
  <2> QED BY <1>2, <2>1, <2>2, <2>3, <2>4 DEF Popped
<1>3. CASE c # 0 /\ k < c
  <2> DEFINE t == q[k + 1]
  <2>1. k + 1 \in 1..c /\ ~(k + 1 <= k)
    BY <1>0, <1>3
  <2>2. w.err = "OK" /\ w.got = t
    BY <1>3 DEF Popped
  <2>3. t \in 1..Size(g) /\ g.slot[t].status = "OVERFLOW" /\ t # 0
    BY <1>0, <2>1
  <2>4. \A i \in 1..c : i <= k => t # q[i]
    BY <1>0, <2>1
  <2>5. w.db.slot[t] = g.slot[t] /\ Size(w.db) = Size(g)
    BY <2>3, <2>4 DEF Popped
  <2>6. /\ r.err = "OK" /\ r.got = g.slot[t].next
        /\ Size(r.db) = Size(g) /\ Elsewhere(w.db, r.db, t) /\ r.db.slot[t].status = "FREE"
    BY <2>2, <2>3, <2>5 DEF TurnDone
  <2>7. \A i \in 1..c : i <= k + 1 => i <= k \/ i = k + 1
    BY <1>0
  <2>8. ASSUME NEW x \in 1..Size(g), \A i \in 1..c : i <= k + 1 => x # q[i]
        PROVE r.db.slot[x] = g.slot[x]
    <3>1. x # t /\ \A i \in 1..c : i <= k => x # q[i]
      BY <1>0, <2>1, <2>8
    <3>2. w.db.slot[x] = g.slot[x]
      BY <3>1 DEF Popped
    <3> QED BY <2>5, <2>6, <3>1, <3>2 DEF Elsewhere
  <2>9. ASSUME NEW i \in 1..c, i <= k + 1 PROVE r.db.slot[q[i]].status = "FREE"
    <3>1. CASE i = k + 1
      BY <2>6, <3>1
    <3>2. CASE i <= k
      <4>1. q[i] # t /\ q[i] \in 1..Size(g) /\ w.db.slot[q[i]].status = "FREE"
        BY <1>0, <2>4, <3>2 DEF Popped
      <4> QED BY <2>5, <2>6, <4>1 DEF Elsewhere
    <3> QED BY <2>7, <2>9, <3>1, <3>2
  <2>10. r.got = IF k + 1 < c THEN q[(k + 1) + 1] ELSE 0
    BY <1>0, <2>1, <2>6
  <2> QED BY <1>3, <2>6, <2>8, <2>9, <2>10 DEF Popped
<1>4. k >= c \/ k < c
  BY <1>0
<1> QED BY <1>1, <1>2, <1>3, <1>4

(* What is left of e when the chain F of s has been released.              *)
Freed(e, f, s, F) ==
  /\ Good(f, {}) /\ Size(f) = Size(e) /\ Others(e, f, {s} \cup F)
  /\ \A t \in F : f.slot[t].status = "FREE"
  /\ f.slot[s].status = "USED" /\ f.slot[s].next = 0 /\ f.slot[s].payload = e.slot[s].payload

LEMMA ReleaseFrees ==
  ASSUME Room < CountMod, NEW e, NEW s \in 1..Size(e), Good(e, {}) \/ Good(e, {s}),
         e.slot[s].status = "USED", NEW F, NEW c, NEW q, IsChain(e, F, First(e, s), c, q),
         NEW r, r = ReleaseChain(e, s)
  PROVE Freed(e, r.db, s, F) /\ DOMAIN r = ResFields /\ (r.err # "OK" => F = {})
<1> DEFINE start == WalkStart(e, s)
           g == start.db
           n == Size(e) + 1
           h == First(e, s)
<1>1. Size(e) \in Nat /\ e.slot[s].next \in 0..Size(e)
  BY GoodParts DEF IsSlot
<1>2. /\ DOMAIN start = ResFields /\ start.got = e.slot[s].next /\ start.err = "OK"
      /\ Good(g, {}) /\ Size(g) = Size(e)
      /\ \A i \in 1..Size(e) : i # s => g.slot[i] = e.slot[i]
      /\ g.slot[s].status = "USED" /\ g.slot[s].next = 0
      /\ g.slot[s].payload = e.slot[s].payload
  BY StartGood
<1>3. PICK w : IsWalk(w, start, n) /\ r = [w[n] EXCEPT !.got = 0]
  BY <1>1, WalkIs
<1> HIDE DEF start
<1>4. Going(g, start, {})
  BY <1>1, <1>2 DEF Going, Same
<1>5. /\ c \in Nat /\ Along(F, Links(e), h, c, q)
      /\ \A x \in F : x \in 1..Size(e) /\ e.slot[x].status = "OVERFLOW" /\ x # s
  BY DEF IsChain
<1>6. IsChain(g, F, h, c, q)
  <2>1. \A x \in F : g.slot[x] = e.slot[x]
    BY <1>2, <1>5
  <2>2. \A i \in 1..c : q[i] \in F
    BY <1>5 DEF Along
  <2>3. \A i \in 1..c : Links(g)[q[i]] = Links(e)[q[i]]
    BY <1>2, <1>5, <2>1, <2>2 DEF Links
  <2>4. Along(F, Links(g), h, c, q)
    BY <1>5, <2>3 DEF Along
  <2> QED BY <1>1, <1>2, <1>5, <2>1, <2>4 DEF IsChain
<1>7. Popped(g, start, 0, c, q)
  <2>1. \A i \in 1..c : ~(i <= 0)
    BY <1>5
  <2>2. ASSUME c # 0 PROVE start.got = IF 0 < c THEN q[0 + 1] ELSE 0
    <3>1. 0 < c /\ 1 \in 1..c /\ h = q[1]
      BY <1>5, <2>2 DEF Along
    <3>2. q[1] # 0
      BY <1>1, <1>5, <3>1 DEF Along
    <3> QED BY <1>2, <3>1, <3>2 DEF First
  <2>3. ASSUME c = 0, start.got # 0
        PROVE start.got \in 1..Size(g) /\ g.slot[start.got].status # "OVERFLOW"
    <3>1. h = 0
      BY <1>5, <2>3 DEF Along
    <3>2. e.slot[start.got].status # "OVERFLOW"
      BY <1>2, <2>3, <3>1 DEF First, HasChain
    <3>3. start.got \in 1..Size(e)
      BY <1>1, <1>2, <2>3
    <3> QED BY <1>2, <3>2, <3>3
  <2> QED BY <1>2, <2>1, <2>2, <2>3 DEF Popped
<1> HIDE DEF h
<1> DEFINE S == {k \in 0..n : Going(g, w[k], {}) /\ Popped(g, w[k], k, c, q)}
<1>8. n \in Nat /\ Size(g) \in Nat
  BY <1>1, <1>2
<1>9. 0 \in S
  BY <1>3, <1>4, <1>7, <1>8 DEF IsWalk
<1> HIDE DEF n, g
<1>9a. \A k \in 1..n : w[k] = Turn(w[k - 1])
  BY <1>3, <1>8 DEF IsWalk
<1>10. ASSUME NEW k \in 1..n, k - 1 \in S PROVE k \in S
  <2> DEFINE u == w[k - 1]
             v == w[k]
             j == k - 1
  <2>0. v = Turn(u)
    BY <1>9a
  <2>1. v = Turn(u) /\ Going(g, u, {}) /\ Popped(g, u, j, c, q)
    <3> HIDE DEF u, v
    <3> QED BY <1>10, <2>0 DEF u
  <2>2. j \in Nat /\ j + 1 = k
    BY <1>8
  <2> HIDE DEF u, v, j
  <2>3. Going(g, v, {})
    BY <1>8, <2>1, WalkStepGood DEF Turn
  <2>4. TurnDone(u, v)
    BY <1>8, <2>1, TurnIs
  <2>5. Popped(g, v, j + 1, c, q)
    BY <1>6, <2>1, <2>2, <2>4, PoppedStep
  <2> QED BY <1>8, <2>2, <2>3, <2>5 DEF v
<1> HIDE DEF S
<1>11. n \in S
  BY <1>8, <1>9, <1>10, BoundedInduction
<1> DEFINE z == w[n]
<1>12. Going(g, z, {}) /\ Popped(g, z, n, c, q)
  BY <1>11 DEF S
<1> HIDE DEF z
<1>13. r.db = z.db /\ DOMAIN r = ResFields /\ r.err = z.err
  <2>1. DOMAIN z = ResFields /\ r = [z EXCEPT !.got = 0]
    BY <1>3, <1>12 DEF Going, z
  <2> QED BY <2>1 DEF ResFields
<1>14. c <= Size(e)
  <2>1. F \subseteq 1..Size(e) /\ 0 \notin F
    BY <1>1, <1>5
  <2>2. Listed(F, Links(e), h, c)
    BY <1>5, <2>1 DEF Listed
  <2> QED BY <1>1, <2>1, <2>2, ListBound
<1>15. \A i \in 1..c : i <= n
  BY <1>1, <1>5, <1>14 DEF n
<1>16. \A x \in 1..Size(e) : x \notin F => z.db.slot[x] = g.slot[x]
  <2>1. \A i \in 1..c : q[i] \in F
    BY <1>5 DEF Along
  <2> QED BY <1>2, <1>12, <2>1 DEF Popped
<1>17. \A t \in F : z.db.slot[t].status = "FREE"
  <2>1. TAKE t \in F
  <2>2. PICK i \in 1..c : q[i] = t
    BY <1>5 DEF Along
  <2> QED BY <1>12, <1>15, <2>2 DEF Popped
<1>18. Size(z.db) = Size(e) /\ Good(z.db, {})
  BY <1>2, <1>12 DEF Popped, Going
<1>19. Others(e, z.db, {s} \cup F)
  BY <1>1, <1>2, <1>16, <1>18 DEF Others, Same
<1>20. s \notin F /\ z.db.slot[s] = g.slot[s]
  BY <1>5, <1>16
<1>21. Freed(e, r.db, s, F)
  BY <1>2, <1>13, <1>17, <1>18, <1>19, <1>20 DEF Freed
<1>22. ASSUME r.err # "OK" PROVE F = {}
  <2>1. c = 0
    BY <1>12, <1>13, <1>22 DEF Popped
  <2> QED BY <1>5, <2>1 DEF Along
<1> QED BY <1>13, <1>21, <1>22

-----------------------------------------------------------------------------
(* The calls that release chains.                                          *)

(* Two accounts of what was written agree but for slot s.                  *)
Differ(bl, bm, s) == \A u \in 1..Room : u # s => bm[u] = bl[u]

LEMMA ForgetRest ==
  ASSUME NEW e, Size(e) \in Nat, Size(e) <= Room, NEW own, NEW bl, Rest(e, own, bl, 0), NEW s,
         NEW bm, Differ(bl, bm, s), bm[s] = NoBlob
  PROVE Rest(e, own, bm, 0)
<1>1. Rest(e, own, bl, s)
  BY RestAny
<1>2. Rest(e, own, bm, s)
  BY <1>1, RestBlob DEF Differ
<1>3. CASE s \in 1..Size(e) /\ e.slot[s].status = "USED"
  <2>1. s # 0 /\ Sound(e, own, bl, s)
    BY <1>3 DEF Rest
  <2>2. Sound(e, own, bm, s)
    BY <2>1 DEF Sound
  <2> QED BY <1>2, <1>3, <2>2, RestAll
<1>4. CASE ~(s \in 1..Size(e) /\ e.slot[s].status = "USED")
  <2>1. \A t \in 1..Size(e) : e.slot[t].status = "OVERFLOW" => own[t] # s
    BY <1>4 DEF Rest
  <2> QED BY <1>2, <1>4, <2>1 DEF Rest
<1> QED BY <1>3, <1>4

(* A slot without a chain and without a link.                              *)
LEMMA SoundBare ==
  ASSUME NEW f, NEW own, NEW bl, NEW s, Over(f, own, s) = {}, f.slot[s].next = 0,
         bl[s] # NoBlob => f.slot[s].payload = BlobHead(bl[s]) /\ PieceOf(0 + 1) > Len(bl[s])
  PROVE Sound(f, own, bl, s)
<1>1. First(f, s) = 0 /\ Linked(f, s)
  BY DEF First, HasChain, Linked
<1>2. PICK q : Chained(f, own, s, 0, 0, q)
  BY EmptyList
<1>3. \A b : Filled(f, 0, q, b)
  BY DEF Filled
<1> QED BY <1>1, <1>2, <1>3 DEF Sound, HasList, Holds

(* What a blob without a chain holds.                                      *)
LEMMA HoldsBare ==
  ASSUME NEW e, NEW own, NEW s, NEW b, Holds(e, own, s, b), Over(e, own, s) = {}
  PROVE e.slot[s].payload = BlobHead(b) /\ PieceOf(0 + 1) > Len(b)
<1>1. PICK c, q : Chained(e, own, s, First(e, s), c, q) /\ PieceOf(c + 1) > Len(b)
  BY DEF Holds
<1>2. c \in Nat /\ \A i \in 1..c : q[i] \in {}
  BY <1>1 DEF Chained, Along
<1>3. c = 0
  <2>1. c # 0 => 1 \in 1..c
    BY <1>2
  <2> QED BY <1>2, <2>1
<1> QED BY <1>1, <1>3 DEF Holds

(* Of e, after the chain of s was released.                                *)
Released(e, own, bl, s, r) ==
  /\ Rest(r.db, own, bl, s) /\ Over(r.db, own, s) = {} /\ Good(r.db, {}) /\ Size(r.db) = Size(e)
  /\ r.db.slot[s].status = "USED" /\ r.db.slot[s].next = 0
  /\ r.db.slot[s].payload = e.slot[s].payload
  /\ DOMAIN r = ResFields /\ (r.err # "OK" => Over(e, own, s) = {})
  /\ \A u \in 1..Size(e) : u # s /\ r.db.slot[u].status = "USED" =>
       e.slot[u].status = "USED" /\ r.db.slot[u].next = e.slot[u].next

LEMMA ReleaseRest ==
  ASSUME Room < CountMod, NEW e, NEW s \in 1..Size(e), Good(e, {}) \/ Good(e, {s}),
         e.slot[s].status = "USED", NEW own, NEW bl, Rest(e, own, bl, s), HasList(e, own, s),
         NEW r, r = ReleaseChain(e, s)
  PROVE Released(e, own, bl, s, r)
<1> DEFINE F == Over(e, own, s)
           h == First(e, s)
           f == r.db
           T == {s} \cup F
<1>1. PICK c, q : Chained(e, own, s, h, c, q)
  BY DEF HasList
<1>2. Shape(e) /\ Size(e) \in Nat
  BY DEF Good, Shape
<1>3. IsChain(e, F, h, c, q)
  <2>1. \A x \in F : x \in 1..Size(e) /\ e.slot[x].status = "OVERFLOW"
    BY DEF Over
  <2> QED BY <1>1, <1>2, <2>1 DEF IsChain, Chained
<1> HIDE DEF F, h
<1>4. Freed(e, f, s, F) /\ DOMAIN r = ResFields /\ (r.err # "OK" => F = {})
  BY <1>3, ReleaseFrees DEF h
<1> HIDE DEF f
<1>5. /\ Good(f, {}) /\ Size(f) = Size(e) /\ Others(e, f, T)
      /\ \A t \in F : f.slot[t].status = "FREE"
      /\ f.slot[s].status = "USED" /\ f.slot[s].next = 0 /\ f.slot[s].payload = e.slot[s].payload
  BY <1>4 DEF Freed
<1>6. \A t \in T : t = s \/ t \in F
  OBVIOUS
<1>7. Moved(e, f, own, own, s, T)
  <2>1. Size(f) \in Nat /\ s \in 1..Size(f)
    BY <1>2, <1>5
  <2> QED BY <1>2, <1>5, <1>6, <2>1 DEF Moved, F
<1>8. Rest(f, own, bl, s)
  BY <1>7, RestKept
<1>9. Over(f, own, s) = {}
  <2>1. SUFFICES ASSUME NEW t \in Over(f, own, s) PROVE FALSE
    OBVIOUS
  <2>2. t \in 1..Size(f) /\ f.slot[t].status = "OVERFLOW" /\ own[t] = s
    BY DEF Over
  <2>3. t \notin T
    BY <1>5, <2>2
  <2>4. t \in 1..Size(e) /\ Same(f.slot[t], e.slot[t])
    BY <1>7, <2>2, <2>3, MovedOther
  <2>5. t \in F
    BY <2>2, <2>4 DEF F, Over, Same
  <2> QED BY <2>3, <2>5
<1>10. ASSUME NEW u \in 1..Size(e), u # s, f.slot[u].status = "USED"
       PROVE e.slot[u].status = "USED" /\ f.slot[u].next = e.slot[u].next
  <2>1. u \in 1..Size(f) /\ u \notin T
    BY <1>5, <1>10
  <2>2. Same(f.slot[u], e.slot[u])
    BY <1>7, <1>10, <2>1, MovedOther
  <2> QED BY <1>10, <2>2 DEF Same
<1> QED BY <1>4, <1>5, <1>8, <1>9, <1>10 DEF Released, f, F

(* The chain of a slot in use.                                             *)
LEMMA UsedSound ==
  ASSUME NEW e, Size(e) \in Nat, NEW own, NEW bl, Rest(e, own, bl, 0), NEW s \in 1..Size(e),
         e.slot[s].status = "USED"
  PROVE Rest(e, own, bl, s) /\ Sound(e, own, bl, s) /\ Linked(e, s) /\ HasList(e, own, s)
<1>1. Sound(e, own, bl, s)
  BY DEF Rest
<1> QED BY <1>1, RestAny DEF Sound

(* A slot whose chain was released is returned to the free list.           *)
LEMMA ReturnRest ==
  ASSUME Room < CountMod, NEW e, Good(e, {}), NEW s \in 1..Size(e), e.slot[s].status = "USED",
         NEW own, NEW bl, Rest(e, own, bl, s), Over(e, own, s) = {}, bl[s] = NoBlob,
         \A u \in 1..Size(e) : u # s /\ e.slot[u].status = "USED" => e.slot[u].next # s,
         NEW f, f = ReturnSlot(e, s)
  PROVE Rest(f, own, bl, 0)
<1> DEFINE X == {}
           T == {s}
<1>1. Good(e, X) /\ e.slot[s].status # "FREE" /\ s \notin X
  OBVIOUS
<1> HIDE DEF X
<1>2. /\ Good(f, X) /\ Size(f) = Size(e) /\ Others(e, f, {s})
      /\ f.slot[s].status = "FREE" /\ Elsewhere(e, f, s)
  BY <1>1, ReturnGood
<1>3. Shape(e) /\ Size(f) \in Nat
  BY <1>2 DEF Good, Shape
<1>4. Moved(e, f, own, own, s, T)
  BY <1>2, <1>3 DEF Moved
<1> HIDE DEF T
<1>5. Rest(f, own, bl, s)
  BY <1>4, RestKept
<1>6. Over(f, own, s) = {}
  BY <1>2 DEF Over, Elsewhere
<1> QED BY <1>2, <1>5, <1>6, RestGone

(* ef_free_slot, of a slot that no other slot links to.                    *)
LEMMA FreeRest ==
  ASSUME Room < CountMod, NEW e, Good(e, {}), NEW s \in 1..Size(e), e.slot[s].status # "OVERFLOW",
         \A u \in 1..Size(e) : e.slot[u].status = "USED" => e.slot[u].next # s,
         NEW own, NEW bl, Rest(e, own, bl, 0), NEW q, q = FreeSlot(e, s),
         NEW bm, Differ(bl, bm, s), bm[s] = IF q.err = "OK" THEN NoBlob ELSE bl[s]
  PROVE Rest(q.db, own, bm, 0)
<1> DEFINE r == ReleaseChain(e, s)
           g == r.db
           b == ReturnSlot(g, s)
<1>0. Size(e) \in Nat /\ Size(e) <= Room /\ e.slot[s].status \in Statuses
  BY GoodParts DEF IsSlot
<1>1. CASE e.slot[s].status = "FREE"
  <2>1. q.db = e /\ q.err # "OK"
    BY <1>1 DEF FreeSlot, Refuse, Result
  <2>2. s \in 1..Room
    BY <1>0, BlobAssumption
  <2>3. bl[s] = NoBlob
    BY <1>1, <2>2 DEF Rest
  <2>4. bm[s] = NoBlob
    BY <2>1, <2>3
  <2> QED BY <1>0, <2>1, <2>4, ForgetRest
<1>2. CASE e.slot[s].status = "USED"
  <2>1. CrcValid(e.slot[s])
    BY DEF Good, Sums
  <2>2. \/ q = r /\ r.err # "OK"
        \/ q.err = "OK" /\ q.db = b
    BY <1>2, <2>1 DEF FreeSlot, LinkCrc, Refuse, Marked, Result
  <2>3. Rest(e, own, bl, s) /\ Sound(e, own, bl, s) /\ Linked(e, s) /\ HasList(e, own, s)
    BY <1>0, <1>2, UsedSound
  <2>4. r = ReleaseChain(e, s)
    OBVIOUS
  <2> HIDE DEF r
  <2>5. Released(e, own, bl, s, r)
    BY <1>2, <2>3, <2>4, ReleaseRest
  <2>6. /\ Rest(g, own, bl, s) /\ Over(g, own, s) = {} /\ Good(g, {}) /\ Size(g) = Size(e)
        /\ g.slot[s].status = "USED" /\ g.slot[s].next = 0 /\ g.slot[s].payload = e.slot[s].payload
        /\ (r.err # "OK" => Over(e, own, s) = {})
        /\ \A u \in 1..Size(e) : u # s /\ g.slot[u].status = "USED" =>
             e.slot[u].status = "USED" /\ g.slot[u].next = e.slot[u].next
    BY <2>5 DEF Released
  <2>7. b = ReturnSlot(g, s)
    OBVIOUS
  <2> HIDE DEF g, b
  <2>8. Rest(g, own, bm, s)
    BY <1>0, <2>6, RestBlob DEF Differ
  <2>9. CASE q = r /\ r.err # "OK"
    <3>1. bm[s] = bl[s] /\ Over(e, own, s) = {} /\ q.db = g
      BY <2>6, <2>9 DEF g
    <3>2. ASSUME bm[s] # NoBlob PROVE g.slot[s].payload = BlobHead(bm[s]) /\ PieceOf(0 + 1) > Len(bm[s])
      <4>1. Holds(e, own, s, bm[s])
        BY <2>3, <3>1, <3>2 DEF Sound
      <4> QED BY <2>6, <3>1, <4>1, HoldsBare
    <3>3. Sound(g, own, bm, s)
      BY <2>6, <3>2, SoundBare
    <3>4. s \in 1..Size(g)
      BY <2>6
    <3>5. Rest(g, own, bm, 0)
      BY <2>6, <2>8, <3>3, <3>4, RestAll
    <3> QED BY <3>1, <3>5
  <2>10. CASE q.err = "OK" /\ q.db = b
    <3>1. bm[s] = NoBlob /\ s \in 1..Size(g)
      BY <2>6, <2>10
    <3>2. \A u \in 1..Size(g) : u # s /\ g.slot[u].status = "USED" => g.slot[u].next # s
      BY <2>6
    <3>3. Rest(b, own, bm, 0)
      BY <2>6, <2>7, <2>8, <3>1, <3>2, ReturnRest
    <3> QED BY <2>10, <3>3
  <2> QED BY <2>2, <2>9, <2>10
<1> QED BY <1>0, <1>1, <1>2 DEF Statuses

(* A FREE slot is claimed, a slot in use stays as it is.                   *)
LEMMA ClaimedRest ==
  ASSUME NEW e, Good(e, {}), NEW s \in 1..Size(e), NEW c, IsClaimed(e, s, c),
         e.slot[s].status # "OVERFLOW", NEW own, NEW bl, Rest(e, own, bl, 0)
  PROVE Rest(c.db, own, bl, 0)
<1> DEFINE f == c.db
<1>0. Size(e) \in Nat /\ Size(e) <= Room /\ e.slot[s].status \in Statuses /\ Shape(e)
  BY GoodParts DEF IsSlot, Good
<1>1. /\ Size(f) = Size(e) /\ Others(e, f, {s}) /\ f.slot[s].status = "USED"
      /\ f.slot[s].next = IF e.slot[s].status = "FREE" THEN 0 ELSE e.slot[s].next
      /\ e.slot[s].status = "USED" => f = e
  BY DEF IsClaimed
<1> HIDE DEF f
<1>2. CASE e.slot[s].status = "FREE"
  <2>1. f.slot[s].next = 0 /\ s \in 1..Size(f) /\ Size(f) \in Nat /\ Size(f) <= Room
    BY <1>0, <1>1, <1>2
  <2>2. Rest(f, own, bl, 0)
    BY <1>0, <1>1, <1>2, <2>1, RiseRest
  <2> QED BY <2>2 DEF f
<1>3. CASE e.slot[s].status = "USED"
  BY <1>1, <1>3 DEF f
<1> QED BY <1>0, <1>2, <1>3 DEF Statuses

(* ef_set_status to FREE, which is ef_free_slot, or to USED.               *)
LEMMA StatusRest ==
  ASSUME Room < CountMod, NEW e, Good(e, {}), NEW s \in 1..Size(e), e.slot[s].status # "OVERFLOW",
         NEW status \in {"FREE", "USED"},
         status = "FREE" => \A u \in 1..Size(e) : e.slot[u].status = "USED" => e.slot[u].next # s,
         NEW own, NEW bl, Rest(e, own, bl, 0), NEW q, q = SetStatus(e, s, status),
         NEW bm, Differ(bl, bm, s),
         bm[s] = IF status = "FREE" /\ q.err = "OK" THEN NoBlob ELSE bl[s]
  PROVE Rest(q.db, own, bm, 0)
<1>0. Size(e) \in Nat /\ Size(e) <= Room /\ e.slot[s].status \in Statuses /\ Shape(e)
  BY GoodParts DEF IsSlot, Good
<1>1. CASE status = "FREE"
  <2>1. q = FreeSlot(e, s)
    BY <1>1 DEF SetStatus
  <2>2. bm[s] = IF q.err = "OK" THEN NoBlob ELSE bl[s]
    BY <1>1
  <2> QED BY <1>1, <2>1, <2>2, FreeRest
<1>2. CASE status = "USED"
  <2>1. bm[s] = bl[s]
    BY <1>2
  <2>2. \A u \in 1..Room : bm[u] = bl[u]
    BY <2>1 DEF Differ
  <2>3. Rest(e, own, bm, 0)
    BY <1>0, <2>2, RestBlob
  <2>4. CASE e.slot[s].status = "FREE"
    <3>1. q = ClaimSlot(e, s)
      BY <1>2, <2>4 DEF SetStatus
    <3> DEFINE X == {}
    <3>2. Good(e, X)
      OBVIOUS
    <3> HIDE DEF X
    <3>3. /\ Size(q.db) = Size(e) /\ Others(e, q.db, {s})
          /\ q.db.slot[s].status = "USED" /\ q.db.slot[s].next = 0
      BY <2>4, <3>1, <3>2, ClaimGood
    <3> DEFINE f == q.db
    <3>4. /\ s \in 1..Size(f) /\ Size(f) \in Nat /\ Size(f) <= Room
          /\ Others(e, f, {s}) /\ f.slot[s].status = "USED" /\ f.slot[s].next = 0
      BY <1>0, <3>3
    <3> HIDE DEF f
    <3>5. Rest(f, own, bm, 0)
      BY <1>0, <2>3, <2>4, <3>4, RiseRest
    <3> QED BY <3>5 DEF f
  <2>5. CASE e.slot[s].status = "USED"
    <3>1. q.db = e
      BY <1>2, <2>5 DEF SetStatus, Refuse, Result
    <3> QED BY <2>3, <3>1
  <2> QED BY <1>0, <2>4, <2>5 DEF Statuses
<1> QED BY <1>1, <1>2

(* ef_write_payload: the header of a blob is gone, its chain is not.       *)
LEMMA WriteRest ==
  ASSUME NEW e, Good(e, {}), NEW s \in 1..Size(e), e.slot[s].status # "OVERFLOW", NEW p,
         NEW own, NEW bl, Rest(e, own, bl, 0), NEW q, q = WritePayload(e, s, p),
         NEW bm, Differ(bl, bm, s), bm[s] = NoBlob
  PROVE q.err = "OK" /\ Rest(q.db, own, bm, 0)
<1> DEFINE f == q.db
<1>0. Size(e) \in Nat /\ Size(e) <= Room /\ e.slot[s].status \in Statuses /\ Shape(e)
  BY GoodParts DEF IsSlot, Good
<1>1. /\ q.err = "OK" /\ Size(f) = Size(e) /\ Others(e, f, {s})
      /\ f.slot[s].status = "USED"
      /\ f.slot[s].next = IF e.slot[s].status = "FREE" THEN 0 ELSE e.slot[s].next
  BY WriteGood
<1> HIDE DEF f
<1>2. Rest(e, own, bm, 0)
  BY <1>0, ForgetRest
<1>3. s \in 1..Size(f) /\ Size(f) \in Nat /\ Size(f) <= Room
  BY <1>0, <1>1
<1>4. CASE e.slot[s].status = "FREE"
  <2>1. f.slot[s].next = 0
    BY <1>1, <1>4
  <2>2. Rest(f, own, bm, 0)
    BY <1>0, <1>1, <1>2, <1>3, <1>4, <2>1, RiseRest
  <2> QED BY <1>1, <2>2 DEF f
<1>5. CASE e.slot[s].status = "USED"
  <2>1. f.slot[s].next = e.slot[s].next
    BY <1>1, <1>5
  <2>2. Rest(f, own, bm, 0)
    BY <1>0, <1>1, <1>2, <1>3, <1>5, <2>1, StoreRest
  <2> QED BY <1>1, <2>2 DEF f
<1> QED BY <1>0, <1>4, <1>5 DEF Statuses

-----------------------------------------------------------------------------
(* The loop of ef_write_blob makes a list of the slots that it allocates.  *)

(* A slot t is put behind the last of q.                                   *)
Tied(F, nx, mx, c, q, t) ==
  /\ t \notin F /\ mx[t] = 0 /\ (c # 0 => mx[q[c]] = t)
  /\ \A x \in F : (c # 0 => x # q[c]) => mx[x] = nx[x]

Behind(F, mx, h, c, q, t) ==
  \E p : /\ Along(F \cup {t}, mx, IF c = 0 THEN t ELSE h, c + 1, p)
         /\ p[c + 1] = t /\ \A i \in 1..c : p[i] = q[i]

LEMMA ListAppend ==
  ASSUME NEW F, NEW nx, NEW mx, NEW h, NEW c \in Nat, NEW q, Along(F, nx, h, c, q),
         NEW t, Tied(F, nx, mx, c, q, t)
  PROVE Behind(F, mx, h, c, q, t)
<1> DEFINE p == [i \in 1..c + 1 |-> IF i = c + 1 THEN t ELSE q[i]]
           G == F \cup {t}
<1>0. /\ t \notin F /\ mx[t] = 0 /\ (c # 0 => mx[q[c]] = t)
      /\ \A x \in F : (c # 0 => x # q[c]) => mx[x] = nx[x]
  BY DEF Tied
<1>1. /\ q \in [1..c -> F] /\ \A i, j \in 1..c : q[i] = q[j] => i = j
      /\ \A s \in F : \E i \in 1..c : q[i] = s
      /\ h = IF c = 0 THEN 0 ELSE q[1]
      /\ \A i \in 1..c : nx[q[i]] = IF i = c THEN 0 ELSE q[i + 1]
  BY DEF Along
<1>2. \A i \in 1..c + 1 : i = c + 1 \/ i \in 1..c
  OBVIOUS
<1>3. p[c + 1] = t /\ \A i \in 1..c : p[i] = q[i] /\ p[i] # t
  BY <1>0, <1>1
<1>4. p \in [1..c + 1 -> G]
  BY <1>1
<1> HIDE DEF p
<1>5. \A i, j \in 1..c + 1 : p[i] = p[j] => i = j
  BY <1>1, <1>2, <1>3
<1>6. \A s \in G : \E i \in 1..c + 1 : p[i] = s
  <2>1. TAKE s \in G
  <2>2. CASE s = t
    BY <1>3, <2>2
  <2>3. CASE s \in F
    <3>1. PICK i \in 1..c : q[i] = s
      BY <1>1, <2>3
    <3>2. i \in 1..c + 1 /\ p[i] = s
      BY <1>3, <3>1
    <3> QED BY <3>2
  <2> QED BY <2>2, <2>3
<1>7. (IF c = 0 THEN t ELSE h) = IF c + 1 = 0 THEN 0 ELSE p[1]
  <2>1. c # 0 => 1 \in 1..c
    OBVIOUS
  <2> QED BY <1>1, <1>3, <2>1
<1>8. \A i \in 1..c + 1 : mx[p[i]] = IF i = c + 1 THEN 0 ELSE p[i + 1]
  <2>1. TAKE i \in 1..c + 1
  <2>2. CASE i = c + 1
    BY <1>0, <1>3, <2>2
  <2>3. CASE i = c /\ c # 0
    BY <1>0, <1>3, <2>3
  <2>4. CASE i \in 1..c /\ i # c
    <3>1. q[i] \in F /\ c \in 1..c /\ q[i] # q[c]
      BY <1>1, <2>4
    <3>2. mx[q[i]] = nx[q[i]]
      BY <1>0, <3>1
    <3>3. nx[q[i]] = q[i + 1] /\ i + 1 \in 1..c
      BY <1>1, <2>4
    <3> QED BY <1>3, <2>4, <3>2, <3>3
  <2> QED BY <1>2, <2>2, <2>3, <2>4
<1>9. Along(G, mx, IF c = 0 THEN t ELSE h, c + 1, p)
  BY <1>4, <1>5, <1>6, <1>7, <1>8 DEF Along
<1> QED BY <1>3, <1>9 DEF Behind

(* The pieces that are left after k slots, and after one more.             *)
LEMMA PieceMore ==
  ASSUME NEW k \in Nat, NEW n \in Nat
  PROVE /\ PieceOf(k + 1) \in Nat
        /\ PieceOf(k + 1) > n => PieceOf(k + 2) > n
        /\ PieceOf(n + 1) > n
        /\ PieceOf(k + 2) = PieceOf(k + 1) + ChunkCap
<1>1. InlineCap \in Nat /\ ChunkCap \in Nat /\ ChunkCap >= 1
  BY CapAssumption
<1>2. ((k + 2) - 1) * ChunkCap = ((k + 1) - 1) * ChunkCap + ChunkCap
  BY <1>1
<1>3. ((k + 1) - 1) * ChunkCap \in Nat
  BY <1>1
<1>4. ((n + 1) - 1) * ChunkCap >= n
  BY <1>1
<1>5. ((n + 1) - 1) * ChunkCap \in Nat
  BY <1>1
<1> QED BY <1>1, <1>2, <1>3, <1>4, <1>5 DEF PieceOf

(* After k turns the chain of s has the slots q; w.got is the last.        *)
Hung(w, own, bl, s, data, k, c, q) ==
  /\ Rest(w.db, own, bl, s) /\ Chained(w.db, own, s, w.db.slot[s].next, c, q)
  /\ Filled(w.db, c, q, data) /\ w.got = IF c = 0 THEN s ELSE q[c]
  /\ w.err = "OK" => \/ c = k
                     \/ PieceOf(k + 1) > Len(data) /\ PieceOf(c + 1) > Len(data)

Writing(w, bl, s, data, k) ==
  /\ Growing(w, s) /\ w.db.slot[s].payload = BlobHead(data)
  /\ \E own, c, q : Hung(w, own, bl, s, data, k, c, q)

(* The owner of the slot t that a turn allocates.                          *)
Given(own, t, s) == [x \in 1..Room |-> IF x = t THEN s ELSE own[x]]

(* Slot t was hung on g, the last of the chain of s.                       *)
Hooked(e, f, own, new, s, g, t) ==
  /\ Moved(e, f, own, new, s, {g, t})
  /\ Over(f, new, s) = Over(e, own, s) \cup {t} /\ t \notin Over(e, own, s)
  /\ t # s /\ t # g

LEMMA ExtendedMoved ==
  ASSUME NEW e, NEW f, NEW s, Good(e, {s}), Good(f, {s}), NEW g, NEW t, NEW z,
         Extended(e, f, g, t, z), NEW own, g = s \/ g \in Over(e, own, s),
         NEW new, new = Given(own, t, s)
  PROVE Hooked(e, f, own, new, s, g, t)
<1> DEFINE T == {g, t}
<1>1. /\ Size(e) \in Nat /\ Size(f) \in Nat /\ Size(e) <= Room /\ Size(f) <= Room /\ Shape(e)
      /\ s \in 1..Size(e) /\ s \in 1..Size(f)
      /\ e.slot[s].status = "USED" /\ f.slot[s].status = "USED"
  BY DEF Good, Shape, Sums
<1>2. /\ Size(f) >= Size(e) /\ t \in 1..Size(f) /\ (t <= Size(e) => e.slot[t].status = "FREE")
      /\ Others(e, f, T) /\ f.slot[t].status = "OVERFLOW"
      /\ f.slot[g].status = e.slot[g].status
  BY DEF Extended
<1>3. t # s /\ t \notin Over(e, own, s)
  BY <1>1, <1>2 DEF Over
<1>4. t # g /\ g \in 1..Size(e)
  BY <1>1, <1>3 DEF Over
<1>5. new[t] = s /\ \A x \in 1..Size(e) : x # t => new[x] = own[x]
  <2>1. t \in 1..Room /\ \A x \in 1..Size(e) : x \in 1..Room
    BY <1>1, <1>2, BlobAssumption
  <2> QED BY <2>1 DEF Given
<1>6. g # s => g \in Over(f, new, s)
  BY <1>1, <1>2, <1>4, <1>5 DEF Over
<1>7. t \in Over(f, new, s)
  BY <1>2, <1>5 DEF Over
<1>8. \A x \in T : x = g \/ x = t
  OBVIOUS
<1>9. \A x \in T : \/ x = s \/ x \notin 1..Size(e) \/ e.slot[x].status = "FREE"
                   \/ x \in Over(e, own, s)
  BY <1>2, <1>8
<1>10. \A x \in T : x # s /\ x \in 1..Size(f) =>
         f.slot[x].status = "FREE" \/ (x \in Over(f, new, s) /\ s # 0)
  BY <1>1, <1>6, <1>7, <1>8
<1>11. \A x \in 1..Size(e) : x \notin T => new[x] = own[x]
  BY <1>5
<1>12. Moved(e, f, own, new, s, T)
  BY <1>1, <1>2, <1>9, <1>10, <1>11 DEF Moved
<1>13. Over(f, new, s) = Over(e, own, s) \cup {t}
  <2>1. ASSUME NEW x \in Over(f, new, s) PROVE x \in Over(e, own, s) \cup {t}
    <3>1. x \in 1..Size(f) /\ f.slot[x].status = "OVERFLOW" /\ new[x] = s
      BY <2>1 DEF Over
    <3>2. CASE x \in T
      <4>1. x = g /\ x # t => x # s
        BY <1>1, <3>1
      <4> QED BY <1>8, <3>2, <4>1
    <3>3. CASE x \notin T
      <4>1. x \in 1..Size(e) /\ Same(f.slot[x], e.slot[x]) /\ new[x] = own[x]
        BY <1>12, <3>1, <3>3, MovedOther
      <4> QED BY <3>1, <4>1 DEF Over, Same
    <3> QED BY <3>2, <3>3
  <2>2. ASSUME NEW x \in Over(e, own, s) PROVE x \in Over(f, new, s)
    <3>1. x \in 1..Size(e) /\ e.slot[x].status = "OVERFLOW" /\ own[x] = s
      BY <2>2 DEF Over
    <3>2. CASE x \in T
      <4>1. x = g /\ x # s
        BY <1>1, <1>3, <1>8, <2>2, <3>1, <3>2
      <4> QED BY <1>6, <4>1
    <3>3. CASE x \notin T
      <4>1. x \in 1..Size(f) /\ Same(f.slot[x], e.slot[x]) /\ new[x] = own[x]
        BY <1>12, <3>1, <3>3, MovedOther
      <4> QED BY <3>1, <4>1 DEF Over, Same
    <3> QED BY <3>2, <3>3
  <2> QED BY <1>7, <2>1, <2>2
<1> QED BY <1>3, <1>4, <1>12, <1>13 DEF Hooked

(* The chain of s with one slot more.                                      *)
Longer(e, f, own, new, s, g, t, data, c) ==
  /\ Moved(e, f, own, new, s, {g, t})
  /\ f.slot[s].payload = e.slot[s].payload
  /\ \E p : /\ Chained(f, new, s, f.slot[s].next, c + 1, p)
            /\ Filled(f, c + 1, p, data) /\ p[c + 1] = t

LEMMA ExtendedChain ==
  ASSUME NEW e, NEW f, NEW s, Good(e, {s}), Good(f, {s}), NEW g, NEW t, NEW data, NEW own,
         NEW c, NEW q, Chained(e, own, s, e.slot[s].next, c, q), g = IF c = 0 THEN s ELSE q[c],
         Filled(e, c, q, data), Extended(e, f, g, t, Piece(data, PieceOf(c + 1))),
         NEW new, new = Given(own, t, s)
  PROVE Longer(e, f, own, new, s, g, t, data, c)
<1> DEFINE F == Over(e, own, s)
           T == {g, t}
           z == Piece(data, PieceOf(c + 1))
           nx == Links(e)
           mx == Links(f)
           h == e.slot[s].next
<1>1. c \in Nat /\ Along(F, nx, h, c, q)
  BY DEF Chained
<1>2. q \in [1..c -> F] /\ h = (IF c = 0 THEN 0 ELSE q[1])
  BY <1>1 DEF Along
<1>3. c # 0 => c \in 1..c /\ q[c] \in F
  BY <1>1, <1>2
<1>4. g = s \/ g \in F
  BY <1>3
<1>5. Extended(e, f, g, t, z)
  OBVIOUS
<1> HIDE DEF F, z, nx, mx, h
<1>6. /\ Moved(e, f, own, new, s, T) /\ Over(f, new, s) = F \cup {t} /\ t \notin F
      /\ t # s /\ t # g
  <2>1. Hooked(e, f, own, new, s, g, t)
    BY <1>4, <1>5, ExtendedMoved DEF F
  <2> QED BY <2>1 DEF Hooked, F
<1>7. /\ Size(e) \in Nat /\ Size(f) \in Nat /\ Size(f) >= Size(e)
      /\ s \in 1..Size(e) /\ s \in 1..Size(f) /\ e.slot[s].status = "USED"
  BY <1>5 DEF Good, Shape, Sums, Extended
<1>8. /\ t \in 1..Size(f) /\ f.slot[t].next = 0 /\ f.slot[t].payload.rest = z
      /\ f.slot[g].payload = e.slot[g].payload /\ f.slot[g].next = t
  BY <1>5 DEF Extended
<1>9. \A x \in F : x \in 1..Size(e) /\ x \in 1..Size(f) /\ e.slot[x].status = "OVERFLOW" /\ x # s
  BY <1>7 DEF F, Over
<1>10. \A x \in F : x # g => Same(f.slot[x], e.slot[x])
  <2>1. TAKE x \in F
  <2>2. x # g => x \notin T /\ x \in 1..Size(e) /\ e.slot[x].status # "FREE"
    BY <1>6, <1>9
  <2> QED BY <1>6, <2>2, MovedOther
<1>11. \A x \in F : x # g => mx[x] = nx[x]
  BY <1>9, <1>10 DEF mx, nx, Links, Same
<1>12. mx[t] = 0 /\ (c # 0 => mx[q[c]] = t)
  <2>1. c # 0 => q[c] \in 1..Size(f) /\ g = q[c]
    BY <1>3, <1>9
  <2> QED BY <1>8, <2>1 DEF mx, Links
<1>13. \A x \in F : (c # 0 => x # q[c]) => mx[x] = nx[x]
  <2>1. TAKE x \in F
  <2>2. (c # 0 => x # q[c]) => x # g
    BY <1>9
  <2> QED BY <1>11, <2>2
<1>14. PICK p : /\ Along(F \cup {t}, mx, IF c = 0 THEN t ELSE h, c + 1, p)
                /\ p[c + 1] = t /\ \A i \in 1..c : p[i] = q[i]
  <2>1. t \notin F /\ mx[t] = 0 /\ (c # 0 => mx[q[c]] = t)
    BY <1>6, <1>12
  <2>2. Tied(F, nx, mx, c, q, t)
    BY <1>13, <2>1 DEF Tied
  <2>3. Behind(F, mx, h, c, q, t)
    BY <1>1, <2>2, ListAppend
  <2> QED BY <2>3 DEF Behind
<1>15. g # s => Same(f.slot[s], e.slot[s])
  <2>1. g # s => s \notin T /\ e.slot[s].status # "FREE"
    BY <1>6, <1>7
  <2> QED BY <1>6, <1>7, <2>1, MovedOther
<1>16. f.slot[s].payload = e.slot[s].payload
  BY <1>8, <1>15 DEF Same
<1>17. f.slot[s].next = IF c = 0 THEN t ELSE h
  <2>1. c = 0 => g = s
    OBVIOUS
  <2>2. c # 0 => g # s
    BY <1>3, <1>9
  <2> QED BY <1>8, <1>15, <2>1, <2>2 DEF Same, h
<1>18. c + 1 \in Nat
  BY <1>1
<1>19. Chained(f, new, s, f.slot[s].next, c + 1, p)
  BY <1>6, <1>14, <1>17, <1>18 DEF Chained, mx
<1>20. Filled(f, c + 1, p, data)
  <2>1. ASSUME NEW i \in 1..c + 1
        PROVE f.slot[p[i]].payload.rest = Piece(data, PieceOf(i))
    <3>1. CASE i = c + 1
      BY <1>8, <1>14, <3>1 DEF z
    <3>2. CASE i \in 1..c
      <4>1. p[i] = q[i] /\ q[i] \in F
        BY <1>2, <1>14, <3>2
      <4>2. e.slot[q[i]].payload.rest = Piece(data, PieceOf(i))
        BY <3>2 DEF Filled
      <4>3. f.slot[q[i]].payload = e.slot[q[i]].payload
        BY <1>8, <1>10, <4>1 DEF Same
      <4> QED BY <4>1, <4>2, <4>3
    <3>3. i = c + 1 \/ i \in 1..c
      BY <1>1
    <3> QED BY <3>1, <3>2, <3>3
  <2> QED BY <2>1 DEF Filled
<1> QED BY <1>6, <1>14, <1>16, <1>19, <1>20 DEF Longer

LEMMA WritingStep ==
  ASSUME Room < CountMod, NEW w, NEW bl, NEW s, NEW data, Len(data) \in Nat, NEW k \in Nat,
         Writing(w, bl, s, data, k), NEW r, r = WriteTurn(w, data, k + 1)
  PROVE Writing(r, bl, s, data, k + 1)
<1> DEFINE e == w.db
           f == r.db
           g == w.got
           t == r.got
           i == PieceOf(k + 1)
<1>1. Growing(w, s) /\ e.slot[s].payload = BlobHead(data)
  BY DEF Writing
<1>2. PICK own, c, q : Hung(w, own, bl, s, data, k, c, q)
  BY DEF Writing
<1>3. r = WriteStep(w, data, i, Room, FALSE)
  BY DEF WriteTurn
<1>4. /\ Growing(r, s)
      /\ \/ r = w /\ (w.err # "OK" \/ i > Len(data))
         \/ /\ w.err = "OK" /\ ~(i > Len(data)) /\ r.err # "OK" /\ r.db = w.db /\ r.got = w.got
         \/ /\ w.err = "OK" /\ ~(i > Len(data)) /\ r.err = "OK"
            /\ Extended(w.db, r.db, w.got, r.got, Piece(data, i))
  <2> HIDE DEF i
  <2> QED BY <1>1, <1>3, WriteStepGood
<1>5. PieceOf(k + 1) > Len(data) => PieceOf(k + 2) > Len(data)
  BY PieceMore
<1>6. /\ Rest(e, own, bl, s) /\ Chained(e, own, s, e.slot[s].next, c, q)
      /\ Filled(e, c, q, data) /\ g = (IF c = 0 THEN s ELSE q[c])
      /\ w.err = "OK" => \/ c = k
                         \/ PieceOf(k + 1) > Len(data) /\ PieceOf(c + 1) > Len(data)
  BY <1>2 DEF Hung
<1>7. (k + 1) + 1 = k + 2 /\ (k + 1) + 1 # k
  OBVIOUS
<1>8. CASE r = w /\ (w.err # "OK" \/ i > Len(data))
  <2>1. r.err = "OK" => PieceOf((k + 1) + 1) > Len(data) /\ PieceOf(c + 1) > Len(data)
    BY <1>5, <1>6, <1>7, <1>8
  <2>2. Hung(r, own, bl, s, data, k + 1, c, q)
    BY <1>6, <1>8, <2>1 DEF Hung
  <2> QED BY <1>1, <1>8, <2>2 DEF Writing
<1>9. CASE w.err = "OK" /\ r.err # "OK" /\ r.db = w.db /\ r.got = w.got
  <2>1. Hung(r, own, bl, s, data, k + 1, c, q)
    BY <1>6, <1>9 DEF Hung
  <2> QED BY <1>1, <1>4, <1>9, <2>1 DEF Writing
<1>10. CASE /\ w.err = "OK" /\ ~(i > Len(data)) /\ r.err = "OK"
            /\ Extended(w.db, r.db, w.got, r.got, Piece(data, i))
  <2>1. c = k
    BY <1>6, <1>10
  <2>2. Extended(e, f, g, t, Piece(data, PieceOf(c + 1)))
    BY <1>10, <2>1
  <2>3. Good(e, {s}) /\ Good(f, {s})
    BY <1>1, <1>4 DEF Growing
  <2> DEFINE new == Given(own, t, s)
             T == {g, t}
  <2> HIDE DEF e, f, g, t
  <2>4. /\ Moved(e, f, own, new, s, T) /\ f.slot[s].payload = e.slot[s].payload
        /\ \E p : Chained(f, new, s, f.slot[s].next, c + 1, p)
                  /\ Filled(f, c + 1, p, data) /\ p[c + 1] = t
    <3>1. new = Given(own, t, s)
      OBVIOUS
    <3> HIDE DEF new
    <3>2. Longer(e, f, own, new, s, g, t, data, c)
      BY <1>6, <2>2, <2>3, <3>1, ExtendedChain
    <3> QED BY <3>2 DEF Longer
  <2> HIDE DEF new, T
  <2>5. Rest(f, new, bl, s)
    BY <1>6, <2>4, RestKept
  <2>6. PICK p : Chained(f, new, s, f.slot[s].next, c + 1, p)
                 /\ Filled(f, c + 1, p, data) /\ p[c + 1] = t
    BY <2>4
  <2>7. t = IF k + 1 = 0 THEN s ELSE p[k + 1]
    BY <2>1, <2>6
  <2>8. Hung(r, new, bl, s, data, k + 1, k + 1, p)
    BY <2>1, <2>5, <2>6, <2>7 DEF Hung, f, t
  <2>9. f.slot[s].payload = BlobHead(data)
    BY <1>1, <2>4 DEF e
  <2> QED BY <1>4, <2>8, <2>9 DEF Writing, f
<1> QED BY <1>4, <1>8, <1>9, <1>10

(* However many slots the blob needs.                                      *)
LEMMA WritingLoop ==
  ASSUME Room < CountMod, NEW e, NEW s, Good(e, {s}), NEW own, NEW bl, Rest(e, own, bl, s),
         Over(e, own, s) = {}, e.slot[s].next = 0, NEW data, Len(data) \in Nat,
         e.slot[s].payload = BlobHead(data), NEW r, r = ChainWritten(e, s, data)
  PROVE Writing(r, bl, s, data, Len(data))
<1> DEFINE n == Len(data)
           start == LoopStart(e, s)
<1>1. PICK w : IsLoop(w, start, data, n) /\ r = w[n]
  BY LoopIs
<1>2. start = LoopStart(e, s)
  OBVIOUS
<1> HIDE DEF start
<1>3. Growing(start, s) /\ start.err = "OK" /\ start.db = e /\ start.got = s
  BY <1>2, LoopStartIs
<1>4. PICK q : Chained(e, own, s, 0, 0, q)
  BY EmptyList
<1>5. Filled(e, 0, q, data)
  BY DEF Filled
<1>6. Hung(start, own, bl, s, data, 0, 0, q)
  BY <1>3, <1>4, <1>5 DEF Hung
<1>7. Writing(start, bl, s, data, 0)
  BY <1>3, <1>6 DEF Writing
<1>8. w[0] = start /\ \A k \in 1..n : w[k] = WriteTurn(w[k - 1], data, k)
  BY <1>1 DEF IsLoop
<1> HIDE DEF n
<1> DEFINE S == {k \in 0..n : Writing(w[k], bl, s, data, k)}
<1>8a. n \in Nat
  BY DEF n
<1>9. 0 \in S
  BY <1>7, <1>8, <1>8a
<1>10. ASSUME NEW k \in 1..n, k - 1 \in S PROVE k \in S
  <2> DEFINE j == k - 1
             v == w[j]
  <2>1. j \in Nat /\ Writing(v, bl, s, data, j) /\ j + 1 = k
    BY <1>10
  <2>2. w[k] = WriteTurn(v, data, j + 1)
    BY <1>8, <2>1
  <2> HIDE DEF j, v
  <2>3. Writing(w[k], bl, s, data, j + 1)
    BY <2>1, <2>2, WritingStep
  <2> QED BY <2>1, <2>3, <1>10
<1> HIDE DEF S
<1>11. n \in S
  BY <1>8a, <1>9, <1>10, BoundedInduction
<1> QED BY <1>1, <1>11 DEF S, n

(* Why an allocation can fail; the loop stops with that error.             *)
AllocErrs == {"OK", "SLOT_FULL", "FILE_SIZE"}

LEMMA AllocErr ==
  ASSUME NEW e
  PROVE AllocGrowing(e, Room, FALSE).err \in AllocErrs
<1>1. \A a : AllocSlot(a).err \in {"OK", "SLOT_FULL"} /\ "err" \in DOMAIN AllocSlot(a)
  BY DEF AllocSlot, Refuse, Marked, Result
<1>2. GrowSlots(e, Room, FALSE).err \in {"OK", "FILE_SIZE"}
  BY DEF GrowSlots, Refuse, Marked, Result
<1>3. \A x : "err" \in DOMAIN x => [x EXCEPT !.marked = TRUE].err = x.err
  OBVIOUS
<1> QED BY <1>1, <1>2, <1>3 DEF AllocGrowing, AllocErrs

LEMMA TurnErr ==
  ASSUME NEW w, DOMAIN w = ResFields, w.err \in AllocErrs, NEW data, NEW k
  PROVE WriteTurn(w, data, k).err \in AllocErrs
<1> DEFINE a == AllocGrowing(w.db, Room, FALSE)
           i == PieceOf(k)
           last == IF Len(data) < i + ChunkCap - 1 THEN Len(data) ELSE i + ChunkCap - 1
           ov == [EmptySlot EXCEPT !.status = "OVERFLOW", !.payload.rest = SubSeq(data, i, last)]
           no == [w EXCEPT !.err = a.err, !.db = a.db, !.marked = @ \/ a.marked]
           ok == [a EXCEPT !.db.slot[w.got] = Stamp([@ EXCEPT !.next = a.got]),
                           !.db.slot[a.got] = Stamp(ov),
                           !.recs = w.recs \o @]
<1>1. a.err \in AllocErrs /\ DOMAIN a = ResFields
  BY AllocErr, AllocFields
<1> HIDE DEF no, ok
<1>2. WriteTurn(w, data, k) \in {w, no, ok}
  BY DEF WriteTurn, WriteStep, no, ok
<1> HIDE DEF a, ov, i
<1>3. no.err = a.err
  BY DEF no, ResFields
<1>4. ok.err = a.err
  BY <1>1 DEF ok, ResFields
<1> QED BY <1>1, <1>2, <1>3, <1>4

LEMMA LoopErr ==
  ASSUME Room < CountMod, NEW e, NEW s, Good(e, {s}), NEW data, Len(data) \in Nat,
         NEW r, r = ChainWritten(e, s, data)
  PROVE r.err \in AllocErrs
<1> DEFINE n == Len(data)
           start == LoopStart(e, s)
<1>1. PICK w : IsLoop(w, start, data, n) /\ r = w[n]
  BY LoopIs
<1>2. \A k \in 0..n : Growing(w[k], s)
  <2>1. n \in Nat
    OBVIOUS
  <2> HIDE DEF n
  <2> QED BY <1>1, <2>1, LoopGood
<1>3. start.err = "OK"
  <2>1. start = LoopStart(e, s)
    OBVIOUS
  <2> HIDE DEF start
  <2> QED BY <2>1, LoopStartIs
<1>4. w[0] = start /\ \A k \in 1..n : w[k] = WriteTurn(w[k - 1], data, k)
  BY <1>1 DEF IsLoop
<1> HIDE DEF start, n
<1>5. n \in Nat
  BY DEF n
<1> DEFINE S == {k \in 0..n : w[k].err \in AllocErrs}
<1>6. 0 \in S
  BY <1>3, <1>4, <1>5 DEF AllocErrs
<1>7. ASSUME NEW k \in 1..n, k - 1 \in S PROVE k \in S
  <2> DEFINE v == w[k - 1]
  <2>1. k - 1 \in 0..n /\ v.err \in AllocErrs
    BY <1>7
  <2>2. DOMAIN v = ResFields
    BY <1>2, <2>1 DEF Growing
  <2>3. w[k] = WriteTurn(v, data, k)
    BY <1>4
  <2> HIDE DEF v
  <2>4. w[k].err \in AllocErrs
    BY <2>1, <2>2, <2>3, TurnErr
  <2>5. k \in 0..n
    BY <1>5
  <2> QED BY <2>4, <2>5
<1> HIDE DEF S
<1>8. n \in S
  BY <1>5, <1>6, <1>7, BoundedInduction
<1> QED BY <1>1, <1>8 DEF S

(* What ends a blob write: the sum of its head is stored.                  *)
LEMMA StampRest ==
  ASSUME NEW e, NEW s, Good(e, {s}), NEW own, NEW bl, Rest(e, own, bl, s), Sound(e, own, bl, s),
         NEW f, f = StampSlot(e, s)
  PROVE Rest(f, own, bl, 0)
<1> DEFINE T == {s}
<1>1. /\ Good(f, {}) /\ Size(f) = Size(e) /\ Others(e, f, {s}) /\ Same(f.slot[s], e.slot[s])
      /\ Elsewhere(e, f, s)
  BY StampSlotGood
<1>2. /\ Shape(e) /\ Size(e) \in Nat /\ Size(f) \in Nat /\ s \in 1..Size(e) /\ s \in 1..Size(f)
      /\ e.slot[s].status = "USED"
  BY <1>1 DEF Good, Shape, Sums
<1>3. /\ f.slot[s].status = "USED" /\ f.slot[s].next = e.slot[s].next
      /\ f.slot[s].payload = e.slot[s].payload
  BY <1>1, <1>2 DEF Same
<1>4. Moved(e, f, own, own, s, T)
  BY <1>1, <1>2, <1>3, MovedOne
<1>5. Linked(e, s) /\ T = {s}
  BY DEF Sound
<1> HIDE DEF T
<1>6. Rest(f, own, bl, s)
  BY <1>4, RestKept
<1>7. Kept(e, f, own, own, s) /\ Linked(f, s)
  BY <1>2, <1>3, <1>4, <1>5, StoreKept
<1>8. Sound(f, own, bl, s)
  BY <1>3, <1>7, KeptSound
<1> QED BY <1>2, <1>3, <1>6, <1>8, RestAll

(* The payload of a slot without a chain is replaced.                      *)
LEMMA RefillRest ==
  ASSUME NEW e, Good(e, {}), NEW s \in 1..Size(e), e.slot[s].status = "USED", NEW p,
         NEW own, NEW bl, Rest(e, own, bl, s), Over(e, own, s) = {}, NEW f, Refilled(e, f, s, p)
  PROVE Rest(f, own, bl, s) /\ Over(f, own, s) = {}
<1> DEFINE T == {s}
<1>1. /\ Good(f, {s}) /\ Size(f) = Size(e) /\ Others(e, f, {s}) /\ Elsewhere(e, f, s)
      /\ f.slot[s].status = "USED"
  BY PayloadGood
<1>2. Shape(e) /\ Size(f) \in Nat /\ s \in 1..Size(f)
  BY <1>1 DEF Good, Shape
<1>3. Moved(e, f, own, own, s, T)
  BY <1>1, <1>2, MovedOne
<1> HIDE DEF T
<1>4. Rest(f, own, bl, s)
  BY <1>3, RestKept
<1>5. Over(f, own, s) = {}
  BY <1>1 DEF Over, Elsewhere
<1> QED BY <1>4, <1>5

IsRefilled(e, f, s, p) ==
  Good(f, {s}) /\ f.slot[s].next = e.slot[s].next /\ f.slot[s].payload = p

LEMMA RefillIs ==
  ASSUME NEW e, Good(e, {}), NEW s \in 1..Size(e), e.slot[s].status = "USED", NEW p,
         NEW f, Refilled(e, f, s, p)
  PROVE IsRefilled(e, f, s, p)
BY PayloadGood DEF IsRefilled

(* A chain that the loop has hung on s begins at its next.                 *)
LEMMA HungFirst ==
  ASSUME NEW e, NEW own, NEW s, NEW c, NEW q, Chained(e, own, s, e.slot[s].next, c, q)
  PROVE First(e, s) = e.slot[s].next /\ Linked(e, s)
<1> DEFINE h == e.slot[s].next
<1>1. /\ c \in Nat /\ q \in [1..c -> Over(e, own, s)] /\ h = IF c = 0 THEN 0 ELSE q[1]
  BY DEF Chained, Along
<1>2. CASE c = 0
  BY <1>1, <1>2 DEF First, HasChain, Linked
<1>3. CASE c # 0
  <2>1. h \in Over(e, own, s)
    BY <1>1, <1>3
  <2>2. e.slot[h].status = "OVERFLOW" /\ h \in 1..Size(e)
    BY <2>1 DEF Over
  <2>3. CASE h = 0
    BY <2>3 DEF First, HasChain, Linked
  <2>4. CASE h # 0
    BY <2>2, <2>4 DEF First, HasChain, Linked
  <2> QED BY <2>3, <2>4
<1> QED BY <1>2, <1>3

(* A blob write that ran out of slots: what was written is released again. *)
LEMMA DropRest ==
  ASSUME Room < CountMod, NEW w, NEW bl, NEW s, NEW data, NEW k, Writing(w, bl, s, data, k),
         NEW bm, Differ(bl, bm, s), bm[s] = NoBlob, NEW r, r = DropBlob(w, s)
  PROVE \E own : Rest(r.db, own, bm, 0)
<1> DEFINE e == w.db
           q == ReleaseChain(e, s)
           D == q.db
           z == [D EXCEPT !.slot[s].payload = ZeroPayload]
           f == StampSlot(z, s)
<1>1. DOMAIN w = ResFields /\ Good(e, {s}) /\ s \in 1..Size(e) /\ e.slot[s].status = "USED"
  BY DEF Writing, Growing, Good, Sums
<1>2. PICK own, c, p : Hung(w, own, bl, s, data, k, c, p)
  BY DEF Writing
<1>3. Rest(e, own, bl, s) /\ Chained(e, own, s, e.slot[s].next, c, p)
  BY <1>2 DEF Hung
<1>4. r.db = f
  <2>1. r = [w EXCEPT !.db = f, !.marked = @ \/ q.marked]
    BY DEF DropBlob
  <2> HIDE DEF f, q
  <2> QED BY <1>1, <2>1 DEF ResFields
<1>5. f = StampSlot(z, s)
  OBVIOUS
<1> HIDE DEF f
<1>6. Refilled(D, z, s, ZeroPayload)
  BY DEF Refilled
<1> HIDE DEF z
<1>7. q = ReleaseChain(e, s)
  OBVIOUS
<1> HIDE DEF q, e
<1>8. HasList(e, own, s)
  <2>1. First(e, s) = e.slot[s].next
    BY <1>3, HungFirst
  <2> QED BY <1>3, <2>1 DEF HasList
<1>9. Released(e, own, bl, s, q)
  BY <1>1, <1>3, <1>7, <1>8, ReleaseRest
<1>10. /\ Rest(D, own, bl, s) /\ Over(D, own, s) = {} /\ Good(D, {}) /\ Size(D) = Size(e)
       /\ D.slot[s].status = "USED" /\ D.slot[s].next = 0
  BY <1>9 DEF Released
<1> HIDE DEF D
<1>11. s \in 1..Size(D) /\ Size(D) \in Nat /\ Size(D) <= Room
  BY <1>1, <1>10 DEF Good, Shape
<1>12. Rest(z, own, bl, s) /\ Over(z, own, s) = {}
  BY <1>6, <1>10, <1>11, RefillRest
<1>13. Good(z, {s}) /\ Size(z) = Size(D) /\ z.slot[s].next = 0
  BY <1>6, <1>10, <1>11, PayloadGood
<1>14. Rest(z, own, bm, s)
  <2>1. Size(z) \in Nat /\ Size(z) <= Room
    BY <1>11, <1>13
  <2> QED BY <1>12, <2>1, RestBlob DEF Differ
<1>15. Sound(z, own, bm, s)
  BY <1>12, <1>13, SoundBare
<1>16. Rest(f, own, bm, 0)
  BY <1>5, <1>13, <1>14, <1>15, StampRest
<1> QED BY <1>4, <1>16

(* A blob write that came to its end.                                      *)
LEMMA DoneRest ==
  ASSUME NEW w, NEW bl, NEW s, NEW data, Len(data) \in Nat, Writing(w, bl, s, data, Len(data)),
         w.err = "OK",
         NEW bm, Differ(bl, bm, s), bm[s] = data, NEW f, f = StampSlot(w.db, s)
  PROVE \E own : Rest(f, own, bm, 0)
<1> DEFINE e == w.db
           n == Len(data)
<1>1. /\ Good(e, {s}) /\ e.slot[s].payload = BlobHead(data)
  BY DEF Writing, Growing
<1>2. PICK own, c, q : Hung(w, own, bl, s, data, n, c, q)
  BY DEF Writing
<1>3. /\ Rest(e, own, bl, s) /\ Chained(e, own, s, e.slot[s].next, c, q) /\ Filled(e, c, q, data)
      /\ \/ c = n
         \/ PieceOf(n + 1) > n /\ PieceOf(c + 1) > n
  BY <1>2 DEF Hung
<1>4. PieceOf(c + 1) > n
  BY <1>3, PieceMore
<1>5. f = StampSlot(e, s)
  OBVIOUS
<1> HIDE DEF e
<1>6. First(e, s) = e.slot[s].next /\ Linked(e, s)
  BY <1>3, HungFirst
<1>7. HasList(e, own, s)
  BY <1>3, <1>6 DEF HasList
<1>8. Holds(e, own, s, data)
  BY <1>1, <1>3, <1>4, <1>6 DEF Holds
<1>9. Sound(e, own, bm, s)
  BY <1>6, <1>7, <1>8 DEF Sound
<1>10. Size(e) \in Nat /\ Size(e) <= Room
  BY <1>1 DEF Good, Shape
<1>11. Rest(e, own, bm, s)
  BY <1>3, <1>10, RestBlob DEF Differ
<1>12. Rest(f, own, bm, 0)
  BY <1>1, <1>5, <1>9, <1>11, StampRest
<1> QED BY <1>12

(* ef_write_blob: when it fails because it releases no chain, the blob is  *)
(* what it was, which is one that has none.                                *)
Unchanged == {"BAD_CHECKSUM", "SLOT_BUSY", "NOT_FOUND"}

LEMMA WriteBlobRest ==
  ASSUME Room < CountMod, NEW e, Good(e, {}), NEW s \in 1..Size(e), e.slot[s].status # "OVERFLOW",
         NEW own, NEW bl, Rest(e, own, bl, 0),
         NEW data, Len(data) \in Nat, NEW r, r = BlobWritten(e, s, data),
         NEW bm, Differ(bl, bm, s),
         bm[s] = IF r.err \in Unchanged THEN bl[s] ELSE IF r.err = "OK" THEN data ELSE NoBlob
  PROVE \E new : Rest(r.db, new, bm, 0)
<1> DEFINE claimed == IF e.slot[s].status = "FREE" THEN ClaimSlot(e, s) ELSE Refuse(e, "OK")
           c == claimed.db
           q == ReleaseChain(c, s)
           D == q.db
           head == PayloadRec(s, q.db.slot[s])
           written == [q.db EXCEPT !.slot[s].payload = BlobHead(data)]
           w == WriteChain(written, s, data, Room, FALSE)
           stamped == [w EXCEPT !.db = StampSlot(@, s)]
           dropped == DropBlob(w, s)
           end == IF w.err # "OK" THEN dropped ELSE stamped
           held == [q EXCEPT !.marked = @ \/ claimed.marked]
           last == [end EXCEPT !.recs = <<head>> \o @, !.got = 0,
                               !.marked = @ \/ claimed.marked \/ q.marked]
<1> HIDE DEF q, head, written, w, stamped, dropped, end, held, last
<1>0. Size(e) \in Nat /\ Size(e) <= Room
  BY GoodParts
<1>1. /\ claimed.err = "OK" /\ Good(c, {}) /\ Size(c) = Size(e) /\ c.slot[s].status = "USED"
      /\ Rest(c, own, bl, 0)
  <2>1. claimed = Claimed(e, s)
    BY DEF Claimed
  <2> HIDE DEF claimed, c
  <2>2. IsClaimed(e, s, claimed)
    BY <2>1, ClaimedGood
  <2>3. Rest(claimed.db, own, bl, 0)
    BY <2>2, ClaimedRest
  <2> QED BY <2>2, <2>3 DEF IsClaimed, c
<1>2. \/ q.err # "OK" /\ r = held
      \/ q.err = "OK" /\ r = last
  <2>1. CrcValid(e.slot[s])
    BY DEF Good, Sums
  <2> QED BY <1>1, <2>1 DEF BlobWritten, WriteBlob, GetSlot, q, head, written, w, stamped, dropped, end, held, last
<1> HIDE DEF claimed, c
<1>3. q = ReleaseChain(c, s) /\ s \in 1..Size(c) /\ Size(c) \in Nat /\ Size(c) <= Room
  BY <1>0, <1>1 DEF q
<1>4. Rest(c, own, bl, s) /\ Sound(c, own, bl, s) /\ HasList(c, own, s)
  BY <1>1, <1>3, UsedSound
<1>5. Released(c, own, bl, s, q)
  BY <1>1, <1>3, <1>4, ReleaseRest
<1>6. /\ Rest(D, own, bl, s) /\ Over(D, own, s) = {} /\ Good(D, {}) /\ Size(D) = Size(c)
      /\ D.slot[s].status = "USED" /\ D.slot[s].next = 0
      /\ D.slot[s].payload = c.slot[s].payload
      /\ DOMAIN q = ResFields /\ (q.err # "OK" => Over(c, own, s) = {})
  BY <1>5 DEF Released
<1>7. s \in 1..Size(D) /\ Size(D) \in Nat /\ Size(D) <= Room
  BY <1>3, <1>6
<1>8. held.db = D /\ held.err = q.err
  BY <1>6 DEF ResFields, held
<1>9. Refilled(D, written, s, BlobHead(data))
  BY DEF Refilled, written
<1> HIDE DEF D
<1>10. CASE q.err # "OK" /\ r = held
  <2>1. r.db = D /\ r.err # "OK" /\ Over(c, own, s) = {}
    BY <1>6, <1>8, <1>10
  <2>2. bm[s] = bl[s] \/ bm[s] = NoBlob
    BY <2>1
  <2>3. ASSUME bm[s] # NoBlob PROVE D.slot[s].payload = BlobHead(bm[s]) /\ PieceOf(0 + 1) > Len(bm[s])
    <3>1. Holds(c, own, s, bm[s])
      BY <1>4, <2>2, <2>3 DEF Sound
    <3> QED BY <1>6, <2>1, <3>1, HoldsBare
  <2>4. Sound(D, own, bm, s)
    BY <1>6, <2>3, SoundBare
  <2>5. Rest(D, own, bm, s)
    BY <1>6, <1>7, RestBlob DEF Differ
  <2>6. Rest(D, own, bm, 0)
    BY <1>6, <1>7, <2>4, <2>5, RestAll
  <2> QED BY <2>1, <2>6
<1>11. CASE q.err = "OK" /\ r = last
  <2> DEFINE p == BlobHead(data)
             f == StampSlot(w.db, s)
  <2>1. Refilled(D, written, s, p)
    BY <1>9
  <2> HIDE DEF p
  <2>2. Rest(written, own, bl, s) /\ Over(written, own, s) = {}
    BY <1>6, <1>7, <2>1, RefillRest
  <2>3. /\ Good(written, {s}) /\ written.slot[s].next = D.slot[s].next
        /\ written.slot[s].payload = p
    <3>1. Good(D, {}) /\ s \in 1..Size(D) /\ D.slot[s].status = "USED"
      BY <1>6, <1>7
    <3>2. IsRefilled(D, written, s, p)
      BY <2>1, <3>1, RefillIs
    <3> QED BY <3>2 DEF IsRefilled
  <2>4. written.slot[s].next = 0 /\ written.slot[s].payload = BlobHead(data)
    BY <1>6, <2>3 DEF p
  <2>5. w = ChainWritten(written, s, data)
    BY DEF w, ChainWritten
  <2>6. Writing(w, bl, s, data, Len(data))
    BY <2>2, <2>3, <2>4, <2>5, WritingLoop
  <2>7. w.err \in AllocErrs /\ Growing(w, s)
    BY <2>3, <2>5, <2>6, LoopErr DEF Writing
  <2>8. DOMAIN dropped = ResFields /\ dropped.err = w.err
    BY <2>7, DropGood DEF dropped
  <2>9. DOMAIN w = ResFields
    BY <2>7 DEF Growing
  <2>10. DOMAIN stamped = ResFields /\ stamped.db = f /\ stamped.err = w.err
    BY <2>9 DEF ResFields, stamped
  <2>11. DOMAIN end = ResFields
    BY <2>8, <2>10 DEF end
  <2>12. r.db = end.db /\ r.err = end.err
    BY <1>11, <2>11 DEF ResFields, last
  <2>13. CASE w.err = "OK"
    <3>1. r.db = f /\ r.err = "OK"
      BY <2>10, <2>12, <2>13 DEF end
    <3>2. bm[s] = data
      BY <3>1 DEF Unchanged
    <3>3. \E new : Rest(f, new, bm, 0)
      BY <2>6, <2>13, <3>2, DoneRest
    <3> QED BY <3>1, <3>3
  <2>14. CASE w.err # "OK"
    <3>1. r.db = dropped.db /\ r.err = w.err
      BY <2>8, <2>12, <2>14 DEF end
    <3>2. bm[s] = NoBlob
      BY <2>7, <2>14, <3>1 DEF Unchanged, AllocErrs
    <3>3. \E new : Rest(dropped.db, new, bm, 0)
      BY <2>6, <3>2, DropRest DEF dropped
    <3> QED BY <3>1, <3>3
  <2> QED BY <2>13, <2>14
<1> QED BY <1>2, <1>10, <1>11

-----------------------------------------------------------------------------
(* Every overflow slot has an owner and every blob is whole, at all times. *)

IsData(b) == Len(b) \in Nat /\ b = [i \in 1..Len(b) |-> b[i]]

Typed(bl) == bl = [u \in 1..Room |-> bl[u]] /\ \A u \in 1..Room : IsData(bl[u])
Owned(e, bl) == \E own : Rest(e, own, bl, 0)

BlobInv == BlobPool /\ Typed(blob) /\ Owned(d, blob)

(* What a call that returns leaves.                                        *)
LEMMA ReturnNone ==
  ASSUME NEW r, NEW b, Return(r, 0, b)
  PROVE d' = r.db /\ blob' = blob
BY DEF Return

LEMMA ReturnBlob ==
  ASSUME NEW r, NEW s \in 1..Room, NEW b, Return(r, s, b), Typed(blob), IsData(b)
  PROVE /\ d' = r.db /\ Differ(blob, blob', s) /\ blob'[s] = b /\ Typed(blob')
<1>1. d' = r.db /\ blob' = [blob EXCEPT ![s] = b]
  BY BlobAssumption DEF Return
<1>2. blob = [u \in 1..Room |-> blob[u]] /\ \A u \in 1..Room : IsData(blob[u])
  BY DEF Typed
<1>3. \A u \in 1..Room : blob'[u] = IF u = s THEN b ELSE blob[u]
  BY <1>1, <1>2
<1>4. blob' = [u \in 1..Room |-> blob'[u]]
  BY <1>1, <1>2
<1>5. \A u \in 1..Room : IsData(blob'[u])
  BY <1>2, <1>3
<1> QED BY <1>1, <1>3, <1>4, <1>5 DEF Differ, Typed

LEMMA NoBlobData == IsData(NoBlob)
<1>1. Len(NoBlob) = 1 /\ NoBlob = [i \in 1..1 |-> NoBlob[i]]
  BY DEF NoBlob
<1> QED BY <1>1 DEF IsData

(* A call that keeps every chain and every blob.                           *)
LEMMA OwnedSame ==
  ASSUME NEW e, NEW f, NEW bl, Good(e, {}), Size(f) \in Nat, Others(e, f, {}), Owned(e, bl)
  PROVE Owned(f, bl)
<1>1. PICK own : Rest(e, own, bl, 0)
  BY DEF Owned
<1>2. Shape(e)
  BY DEF Good
<1>3. Rest(f, own, bl, 0)
  BY <1>1, <1>2, StillRest
<1> QED BY <1>3 DEF Owned

LEMMA AllocOwned ==
  ASSUME Room < CountMod, NEW e, Good(e, {}), NEW bl, Owned(e, bl),
         NEW r, r = AllocGrowing(e, Room, FALSE)
  PROVE Owned(r.db, bl)
<1> DEFINE X == {}
           f == r.db
           s == r.got
<1>1. PICK own : Rest(e, own, bl, 0)
  BY DEF Owned
<1>2. Good(e, X) /\ Shape(e)
  BY DEF Good
<1> HIDE DEF X
<1>3. (r.err # "OK" => r.db = e) /\ (r.err = "OK" => Taken(e, r, X))
  BY <1>2, AllocGrowingGood
<1>4. CASE r.err # "OK"
  BY <1>3, <1>4
<1>5. CASE r.err = "OK"
  <2>1. /\ Good(f, X) /\ Size(f) >= Size(e) /\ Others(e, f, {s})
        /\ s \in 1..Size(f) /\ (s <= Size(e) => e.slot[s].status = "FREE")
        /\ f.slot[s].status = "USED" /\ f.slot[s].next = 0
    BY <1>3, <1>5 DEF Taken
  <2> HIDE DEF f, s
  <2>2a. Size(f) \in Nat /\ Size(f) <= Room
    BY <2>1 DEF Good, Shape
  <2>2b. Size(e) \in Nat
    BY <1>2 DEF Shape
  <2>2. Size(f) \in Nat /\ Size(f) <= Room /\ (s \in 1..Size(e) => e.slot[s].status = "FREE")
    BY <2>1, <2>2a, <2>2b
  <2>3. Rest(f, own, bl, 0)
    BY <1>1, <1>2, <2>1, <2>2, RiseRest
  <2> QED BY <2>3 DEF Owned, f
<1> QED BY <1>4, <1>5

(* The slots that a careful caller frees.                                  *)
LEMMA NotLinked ==
  ASSUME StaleLinks = FALSE, NEW s, Freeable(s)
  PROVE /\ s \in 1..Size(d) /\ d.slot[s].status # "OVERFLOW"
        /\ \A u \in 1..Size(d) : d.slot[u].status = "USED" => d.slot[u].next # s
BY DEF Freeable, Known, Slots

LEMMA FreeOwned ==
  ASSUME Room < CountMod, StaleLinks = FALSE, BlobInv, NEW s \in 1..Room, Free(s)
  PROVE Typed(blob') /\ Owned(d', blob')
<1> DEFINE e == d
           r == FreeSlot(e, s)
           bm == blob'
<1>1. Good(e, {}) /\ Typed(blob)
  BY DEF BlobInv, BlobPool
<1>2. PICK own : Rest(e, own, blob, 0)
  BY DEF BlobInv, Owned
<1>3. /\ s \in 1..Size(e) /\ e.slot[s].status # "OVERFLOW"
      /\ \A u \in 1..Size(e) : e.slot[u].status = "USED" => e.slot[u].next # s
  BY NotLinked DEF Free
<1>4. Return(r, Gone(r, s), NoBlob)
  BY DEF Free
<1>5. r = FreeSlot(e, s)
  OBVIOUS
<1> HIDE DEF r
<1>6. d' = r.db /\ Differ(blob, bm, s) /\ Typed(bm)
      /\ bm[s] = IF r.err = "OK" THEN NoBlob ELSE blob[s]
  <2>1. CASE r.err = "OK"
    <3>1. Return(r, s, NoBlob)
      BY <1>4, <2>1 DEF Gone
    <3> QED BY <1>1, <2>1, <3>1, ReturnBlob, NoBlobData
  <2>2. CASE r.err # "OK"
    <3>1. Return(r, 0, NoBlob)
      BY <1>4, <2>2 DEF Gone
    <3>2. d' = r.db /\ blob' = blob
      BY <3>1, ReturnNone
    <3> QED BY <1>1, <2>2, <3>2 DEF Differ
  <2> QED BY <2>1, <2>2
<1> HIDE DEF e, bm
<1>7. Rest(r.db, own, bm, 0)
  BY <1>1, <1>2, <1>3, <1>5, <1>6, FreeRest
<1> QED BY <1>6, <1>7 DEF Owned, bm

LEMMA StatusOwned ==
  ASSUME Room < CountMod, StaleLinks = FALSE, BlobInv, NEW s \in 1..Room,
         NEW status \in {"FREE", "USED"}, ChangeStatus(s, status)
  PROVE Typed(blob') /\ Owned(d', blob')
<1> DEFINE e == d
           r == SetStatus(e, s, status)
           bm == blob'
<1>1. Good(e, {}) /\ Typed(blob)
  BY DEF BlobInv, BlobPool
<1>2. PICK own : Rest(e, own, blob, 0)
  BY DEF BlobInv, Owned
<1>3. /\ s \in 1..Size(e) /\ e.slot[s].status # "OVERFLOW"
      /\ status = "FREE" => \A u \in 1..Size(e) : e.slot[u].status = "USED" => e.slot[u].next # s
  BY NotLinked DEF ChangeStatus, Known, Slots
<1>4. Return(r, IF status = "FREE" THEN Gone(r, s) ELSE 0, NoBlob)
  BY DEF ChangeStatus
<1>5. r = SetStatus(e, s, status)
  OBVIOUS
<1> HIDE DEF r
<1>6. d' = r.db /\ Differ(blob, bm, s) /\ Typed(bm)
      /\ bm[s] = IF status = "FREE" /\ r.err = "OK" THEN NoBlob ELSE blob[s]
  <2>1. CASE status = "FREE" /\ r.err = "OK"
    <3>1. Return(r, s, NoBlob)
      BY <1>4, <2>1 DEF Gone
    <3> QED BY <1>1, <2>1, <3>1, ReturnBlob, NoBlobData
  <2>2. CASE ~(status = "FREE" /\ r.err = "OK")
    <3>1. Return(r, 0, NoBlob)
      BY <1>4, <2>2 DEF Gone
    <3>2. d' = r.db /\ blob' = blob
      BY <3>1, ReturnNone
    <3> QED BY <1>1, <2>2, <3>2 DEF Differ
  <2> QED BY <2>1, <2>2
<1> HIDE DEF e, bm
<1>7. Rest(r.db, own, bm, 0)
  BY <1>1, <1>2, <1>3, <1>5, <1>6, StatusRest
<1> QED BY <1>6, <1>7 DEF Owned, bm

LEMMA LinkOwned ==
  ASSUME Room < CountMod, BlobInv, NEW s \in 1..Room, NEW t \in 0..Room, Link(s, t)
  PROVE Typed(blob') /\ Owned(d', blob')
<1> DEFINE e == d
           r == SetNext(e, s, t)
           f == r.db
<1>1. Good(e, {}) /\ Typed(blob) /\ Shape(e) /\ Size(e) \in Nat
  BY DEF BlobInv, BlobPool, Good, Shape
<1>2. PICK own : Rest(e, own, blob, 0)
  BY DEF BlobInv, Owned
<1>3. s \in 1..Size(e) /\ t \in 0..Size(e) /\ (t # 0 => e.slot[t].status = "USED")
  BY <1>1 DEF Link, Known, Slots
<1>4. d' = f /\ blob' = blob
  BY ReturnNone DEF Link
<1>5. r = SetNext(e, s, t)
  OBVIOUS
<1> HIDE DEF r, e
<1>6. Relink(e, f, s, t)
  BY <1>1, <1>3, <1>5, NextGood
<1>7. Size(f) = Size(e) /\ Size(f) \in Nat
  BY <1>1, <1>6 DEF Relink
<1> HIDE DEF f
<1>8. Rest(f, own, blob, 0)
  BY <1>1, <1>2, <1>3, <1>6, <1>7, LinkRest
<1> QED BY <1>1, <1>4, <1>8 DEF Owned

LEMMA WriteOwned ==
  ASSUME BlobInv, NEW s \in 1..Room, NEW v, Write(s, v)
  PROVE Typed(blob') /\ Owned(d', blob')
<1> DEFINE e == d
           p == [first |-> <<0, v>>, rest |-> << >>]
           r == WritePayload(e, s, p)
           bm == blob'
<1>1. Good(e, {}) /\ Typed(blob)
  BY DEF BlobInv, BlobPool
<1>2. PICK own : Rest(e, own, blob, 0)
  BY DEF BlobInv, Owned
<1>3. s \in 1..Size(e) /\ e.slot[s].status # "OVERFLOW"
  BY DEF Write, Known, Slots
<1>4. Return(r, Gone(r, s), NoBlob)
  BY DEF Write
<1>5. r = WritePayload(e, s, p)
  OBVIOUS
<1> HIDE DEF r, p
<1>6. r.err = "OK"
  BY <1>1, <1>3, <1>5, WriteGood
<1>7. Return(r, s, NoBlob)
  BY <1>4, <1>6 DEF Gone
<1>8. d' = r.db /\ Differ(blob, bm, s) /\ bm[s] = NoBlob /\ Typed(bm)
  BY <1>1, <1>7, ReturnBlob, NoBlobData
<1> HIDE DEF e, bm
<1>9. Rest(r.db, own, bm, 0)
  BY <1>1, <1>2, <1>3, <1>5, <1>8, WriteRest
<1> QED BY <1>8, <1>9 DEF Owned, bm

LEMMA BlobOwned ==
  ASSUME Room < CountMod, BlobInv, NEW s \in 1..Room, NEW v, NEW n \in Nat, WriteB(s, v, n)
  PROVE Typed(blob') /\ Owned(d', blob')
<1> DEFINE e == d
           data == [i \in 1..n |-> 10 * v + i]
           r == BlobWritten(e, s, data)
           bm == blob'
           b == IF r.err = "OK" THEN data ELSE NoBlob
<1>1. Good(e, {}) /\ Typed(blob)
  BY DEF BlobInv, BlobPool
<1>2. PICK own : Rest(e, own, blob, 0)
  BY DEF BlobInv, Owned
<1>3. s \in 1..Size(e) /\ e.slot[s].status # "OVERFLOW"
  BY DEF WriteB, Known, Slots
<1>4. Return(r, IF r.err \in Unchanged THEN 0 ELSE s, b)
  BY DEF WriteB, BlobWritten, Unchanged
<1>5. Len(data) = n /\ data = [i \in 1..n |-> data[i]]
  BY DataIs
<1>6. r = BlobWritten(e, s, data)
  OBVIOUS
<1> HIDE DEF data
<1>7. IsData(data) /\ Len(data) \in Nat
  BY <1>5 DEF IsData
<1>8. IsData(b)
  BY <1>7, NoBlobData
<1> HIDE DEF r
<1>9. /\ d' = r.db /\ Differ(blob, bm, s) /\ Typed(bm)
      /\ bm[s] = IF r.err \in Unchanged THEN blob[s] ELSE IF r.err = "OK" THEN data ELSE NoBlob
  <2>1. CASE r.err \notin Unchanged
    <3>1. Return(r, s, b)
      BY <1>4, <2>1
    <3>2. b = IF r.err = "OK" THEN data ELSE NoBlob
      OBVIOUS
    <3> HIDE DEF b
    <3>3. d' = r.db /\ Differ(blob, bm, s) /\ bm[s] = b /\ Typed(bm)
      BY <1>1, <1>8, <3>1, ReturnBlob
    <3> QED BY <2>1, <3>2, <3>3
  <2>2. CASE r.err \in Unchanged
    <3>1. Return(r, 0, b)
      BY <1>4, <2>2
    <3> HIDE DEF b
    <3>2. d' = r.db /\ blob' = blob
      BY <3>1, ReturnNone
    <3> QED BY <1>1, <2>2, <3>2 DEF Differ
  <2> QED BY <2>1, <2>2
<1> HIDE DEF e, bm, b
<1>10. \E new : Rest(r.db, new, bm, 0)
  BY <1>1, <1>2, <1>3, <1>6, <1>7, <1>9, WriteBlobRest
<1> QED BY <1>9, <1>10 DEF Owned, bm

LEMMA GrowOwned ==
  ASSUME Room < CountMod, BlobInv, Grow
  PROVE Typed(blob') /\ Owned(d', blob')
<1> DEFINE e == d
           X == {}
           r == GrowSlots(e, Room, FALSE)
           f == r.db
<1>1. Good(e, {}) /\ Typed(blob) /\ Owned(e, blob) /\ Good(e, X)
  BY DEF BlobInv, BlobPool
<1>2. d' = f /\ blob' = blob
  BY ReturnNone DEF Grow
<1>3. r = GrowSlots(e, Room, FALSE)
  OBVIOUS
<1> HIDE DEF r, X
<1>4. /\ r.err # "OK" => f = e
      /\ r.err = "OK" => Good(f, X) /\ Others(e, f, {})
  BY <1>1, <1>3, GrowGood
<1>5. CASE r.err # "OK"
  BY <1>1, <1>2, <1>4, <1>5
<1>6. CASE r.err = "OK"
  <2> HIDE DEF f
  <2>1. Size(f) \in Nat
    BY <1>4, <1>6 DEF Good, Shape
  <2>2. Owned(f, blob)
    BY <1>1, <1>4, <1>6, <2>1, OwnedSame
  <2> QED BY <1>1, <1>2, <2>2
<1> QED BY <1>5, <1>6

LEMMA ReopenOwned ==
  ASSUME BlobInv, Reopen
  PROVE Typed(blob') /\ Owned(d', blob')
<1> DEFINE e == d
           f == RebuildFreeList(e)
<1>1. Good(e, {}) /\ Typed(blob) /\ Owned(e, blob)
  BY DEF BlobInv, BlobPool
<1>2. d' = f /\ blob' = blob
  BY DEF Reopen, Return, Refuse, Result
<1>3. Good(f, {}) /\ Others(e, f, {})
  BY <1>1, RebuildGood
<1> HIDE DEF f
<1>4. Size(f) \in Nat
  BY <1>3 DEF Good, Shape
<1>5. Owned(f, blob)
  BY <1>1, <1>3, <1>4, OwnedSame
<1> QED BY <1>1, <1>2, <1>5

LEMMA BlobInvStep ==
  ASSUME Room < CountMod, StaleLinks = FALSE, BlobInv, [Next]_vars
  PROVE BlobInv'
<1>1. BlobPool'
  BY BlobPoolStep DEF BlobInv
<1>2. Typed(blob') /\ Owned(d', blob')
  <2>1. CASE Alloc
    <3> DEFINE e == d
               r == AllocGrowing(e, Room, FALSE)
    <3>1. Good(e, {}) /\ Typed(blob) /\ Owned(e, blob)
      BY DEF BlobInv, BlobPool
    <3>2. d' = r.db /\ blob' = blob
      BY <2>1, ReturnNone DEF Alloc
    <3>3. r = AllocGrowing(e, Room, FALSE)
      OBVIOUS
    <3> HIDE DEF r, e
    <3>4. Owned(r.db, blob)
      BY <3>1, <3>3, AllocOwned
    <3> QED BY <3>1, <3>2, <3>4
  <2>2. CASE \E s \in 1..Room : Free(s)
    BY <2>2, FreeOwned
  <2>3. CASE \E s \in 1..Room, status \in {"FREE", "USED"} : ChangeStatus(s, status)
    BY <2>3, StatusOwned
  <2>4. CASE \E s \in 1..Room, t \in 0..Room : Link(s, t)
    BY <2>4, LinkOwned
  <2>5. CASE \E s \in 1..Room, v \in Values : Write(s, v)
    BY <2>5, WriteOwned
  <2>6. CASE \E s \in 1..Room, v \in Values, n \in 0..MaxLen : WriteB(s, v, n)
    <3>1. PICK s \in 1..Room, v \in Values, n \in 0..MaxLen : WriteB(s, v, n)
      BY <2>6
    <3>2. n \in Nat
      OBVIOUS
    <3> QED BY <3>1, <3>2, BlobOwned
  <2>7. CASE Grow
    BY <2>7, GrowOwned
  <2>8. CASE Reopen
    BY <2>8, ReopenOwned
  <2>9. CASE UNCHANGED vars
    BY <2>9 DEF vars, BlobInv
  <2> QED BY <2>1, <2>2, <2>3, <2>4, <2>5, <2>6, <2>7, <2>8, <2>9 DEF Next
<1> QED BY <1>1, <1>2 DEF BlobInv

LEMMA BlobInvInit ==
  ASSUME Init
  PROVE BlobInv
<1> DEFINE e == NewDb(InitSlots)
<1>1. d = e /\ blob = [s \in 1..Room |-> NoBlob] /\ InitSlots \in Nat /\ InitSlots <= Room
  BY BlobAssumption DEF Init
<1>2. Good(e, {}) /\ Frees(e) = 1..Size(e)
  BY <1>1, NewGood
<1>3. BlobPool
  BY <1>1, <1>2 DEF BlobPool
<1>4. Typed(blob)
  <2>1. \A u \in 1..Room : blob[u] = NoBlob
    BY <1>1
  <2>2. blob = [u \in 1..Room |-> blob[u]]
    BY <1>1
  <2> QED BY <2>1, <2>2, NoBlobData DEF Typed
<1> HIDE DEF e
<1>5. \A t \in 1..Size(e) : e.slot[t].status = "FREE"
  BY <1>2 DEF Frees
<1>6. Rest(d, << >>, blob, 0)
  <2>1. \A u \in 1..Room : blob[u] = NoBlob
    BY <1>1
  <2> QED BY <1>1, <1>5, <2>1 DEF Rest
<1> QED BY <1>3, <1>4, <1>6 DEF BlobInv, Owned

LEMMA BlobInvHolds ==
  ASSUME Room < CountMod, StaleLinks = FALSE
  PROVE Spec => []BlobInv
<1>1. Init => BlobInv
  BY BlobInvInit
<1>2. BlobInv /\ [Next]_vars => BlobInv'
  BY BlobInvStep
<1> QED BY <1>1, <1>2, PTL DEF Spec

-----------------------------------------------------------------------------
(* The chains that Chain gathers are those of the owners.                  *)

(* The function that Chain computes with.                                  *)
Reach(e, s, w) ==
  w \cup {t \in 1..Size(e) : /\ e.slot[t].status = "OVERFLOW"
                             /\ \E u \in w \cup {s} : e.slot[u].next = t}
NoSlots == {}
IsReach(w, e, s, n) == w = [k \in 0..n |-> IF k = 0 THEN NoSlots ELSE Reach(e, s, w[k - 1])]

LEMMA ReachExists ==
  ASSUME NEW e, NEW s
  PROVE \A n \in Nat : \E w : IsReach(w, e, s, n)
<1> DEFINE S == {n \in Nat : \E w : IsReach(w, e, s, n)}
<1>1. 0 \in S
  <2> DEFINE w == [k \in 0..0 |-> NoSlots]
  <2>1. w = [k \in 0..0 |-> IF k = 0 THEN NoSlots ELSE Reach(e, s, w[k - 1])]
    OBVIOUS
  <2> QED BY <2>1 DEF IsReach
<1>2. ASSUME NEW n \in Nat, n \in S PROVE n + 1 \in S
  <2>1. PICK w : IsReach(w, e, s, n)
    BY <1>2
  <2> DEFINE v == [k \in 0..n + 1 |-> IF k = 0 THEN NoSlots ELSE Reach(e, s, w[k - 1])]
  <2>2. \A k \in 0..n : v[k] = w[k]
    BY <2>1 DEF IsReach
  <2>3. \A k \in 0..n + 1 : k # 0 => k - 1 \in 0..n
    OBVIOUS
  <2>4. v = [k \in 0..n + 1 |-> IF k = 0 THEN NoSlots ELSE Reach(e, s, v[k - 1])]
    BY <2>2, <2>3
  <2>5. IsReach(v, e, s, n + 1)
    BY <2>4 DEF IsReach
  <2> HIDE DEF v
  <2> QED BY <2>5
<1> HIDE DEF S
<1>3. \A n \in Nat : n \in S
  BY <1>1, <1>2, SetInduction
<1> QED BY <1>3 DEF S

LEMMA ChainIs ==
  ASSUME NEW s, Size(d) \in Nat
  PROVE \E w : IsReach(w, d, s, Size(d)) /\ Chain(s) = w[Size(d)]
<1> DEFINE n == Size(d)
           w == CHOOSE v : IsReach(v, d, s, n)
<1>1. Chain(s) = w[n]
  BY DEF Chain, IsReach, Reach, Slots, NoSlots
<1>2. IsReach(w, d, s, n)
  <2>1. n \in Nat
    OBVIOUS
  <2> HIDE DEF n
  <2> QED BY <2>1, ReachExists
<1> QED BY <1>1, <1>2

(* Chain gathers the slots that s owns, and no others.                     *)
LEMMA ChainOver ==
  ASSUME NEW own, Size(d) \in Nat, NEW s, Linked(d, s), HasList(d, own, s)
  PROVE Chain(s) = Over(d, own, s)
<1> DEFINE e == d
           n == Size(e)
           F == Over(e, own, s)
           nx == Links(e)
           h == First(e, s)
<1>1. PICK w : IsReach(w, e, s, n) /\ Chain(s) = w[n]
  BY ChainIs
<1>2. PICK c, q : Chained(e, own, s, h, c, q)
  BY DEF HasList
<1>3. c \in Nat /\ Along(F, nx, h, c, q)
  BY <1>2 DEF Chained
<1>4. \A t \in F : t \in 1..n /\ e.slot[t].status = "OVERFLOW" /\ nx[t] = e.slot[t].next
  BY DEF Over, Links
<1>5. w[0] = NoSlots /\ \A k \in 1..n : w[k] = Reach(e, s, w[k - 1])
  BY <1>1 DEF IsReach
<1>6. HasChain(e, s) => e.slot[s].next \in F
  BY FirstOver
<1>7. Listed(F, nx, h, c)
  <2>1. 0 \notin F
    BY <1>4
  <2> QED BY <1>3, <2>1 DEF Listed
<1>8. \A t \in F : nx[t] = 0 \/ nx[t] \in F
  <2> HIDE DEF F, nx, h
  <2> QED BY <1>7, ListHead
<1>9. c <= n
  <2>1. F \subseteq 1..n /\ n \in Nat
    BY <1>4
  <2> HIDE DEF F, nx, h, n
  <2> QED BY <1>7, <2>1, ListBound
<1>10. h = First(e, s)
  OBVIOUS
<1> HIDE DEF e, F, nx, h
<1>11. n \in Nat
  BY DEF e
<1> HIDE DEF n
<1> DEFINE A == {k \in 0..n : w[k] \subseteq F}
           B == {k \in 0..n : \A i \in 1..c : i <= k => q[i] \in w[k]}
<1>12. w[n] \subseteq F
  <2>1. 0 \in A
    BY <1>5, <1>11 DEF NoSlots
  <2>2. ASSUME NEW k \in 1..n, k - 1 \in A PROVE k \in A
    <3> DEFINE v == w[k - 1]
    <3>1. v \subseteq F /\ w[k] = Reach(e, s, v) /\ k \in 0..n
      BY <1>5, <1>11, <2>2
    <3> HIDE DEF v
    <3>2. ASSUME NEW t \in Reach(e, s, v) PROVE t \in F
      <4>1. CASE t \in v
        BY <3>1, <4>1
      <4>2. CASE t \notin v
        <5>1. PICK u \in v \cup {s} : e.slot[u].next = t /\ e.slot[t].status = "OVERFLOW" /\ t \in 1..Size(e)
          BY <3>2, <4>2 DEF Reach
        <5>2. t # 0
          BY <5>1
        <5>3. CASE u = s
          BY <1>6, <5>1, <5>2, <5>3 DEF HasChain
        <5>4. CASE u \in v
          <6>1. u \in F /\ nx[u] = t
            BY <1>4, <3>1, <5>1, <5>4
          <6> QED BY <1>8, <5>2, <6>1
        <5> QED BY <5>3, <5>4
      <4> QED BY <4>1, <4>2
    <3> QED BY <3>1, <3>2
  <2> HIDE DEF A
  <2>3. n \in A
    BY <1>11, <2>1, <2>2, BoundedInduction
  <2> QED BY <2>3 DEF A
<1>13. \A i \in 1..c : q[i] \in w[n]
  <2>1. 0 \in B
    BY <1>3, <1>11
  <2>2. ASSUME NEW k \in 1..n, k - 1 \in B PROVE k \in B
    <3> DEFINE v == w[k - 1]
    <3>1. w[k] = Reach(e, s, v) /\ k \in 0..n /\ \A i \in 1..c : i <= k - 1 => q[i] \in v
      BY <1>5, <1>11, <2>2
    <3> HIDE DEF v
    <3>2. v \subseteq Reach(e, s, v)
      BY DEF Reach
    <3>3. ASSUME NEW i \in 1..c, i = k PROVE q[i] \in Reach(e, s, v)
      <4>1. q[i] \in F
        BY <1>3 DEF Along
      <4>2. q[i] \in 1..Size(e) /\ e.slot[q[i]].status = "OVERFLOW"
        BY <1>4, <4>1 DEF n
      <4>3. \E u \in v \cup {s} : e.slot[u].next = q[i]
        <5>1. CASE i = 1
          <6>1. c # 0 /\ h = q[1]
            BY <1>3, <5>1 DEF Along
          <6>2. h # 0
            BY <4>2, <5>1, <6>1
          <6>3. e.slot[s].next = q[i]
            BY <1>10, <5>1, <6>1, <6>2 DEF First
          <6> QED BY <6>3
        <5>2. CASE i # 1
          <6> DEFINE j == i - 1
          <6>1. j \in 1..c /\ j # c /\ j + 1 = i /\ j <= k - 1
            BY <1>3, <3>3, <5>2
          <6> HIDE DEF j
          <6>2. q[j] \in F /\ nx[q[j]] = q[i]
            BY <1>3, <6>1 DEF Along
          <6>3. q[j] \in v
            BY <3>1, <6>1
          <6>4. e.slot[q[j]].next = q[i]
            BY <1>4, <6>2
          <6> QED BY <6>3, <6>4
        <5> QED BY <5>1, <5>2
      <4> QED BY <4>2, <4>3 DEF Reach
    <3>4. ASSUME NEW i \in 1..c, i <= k PROVE q[i] \in w[k]
      <4>1. i <= k - 1 \/ i = k
        BY <1>3, <1>11, <3>4
      <4> QED BY <3>1, <3>2, <3>3, <4>1
    <3> QED BY <3>1, <3>4
  <2> HIDE DEF B
  <2>3. n \in B
    BY <1>11, <2>1, <2>2, BoundedInduction
  <2>4. \A i \in 1..c : i <= n
    BY <1>3, <1>9, <1>11
  <2> QED BY <2>3, <2>4 DEF B
<1>14. F \subseteq w[n]
  BY <1>3, <1>13 DEF Along
<1> QED BY <1>1, <1>12, <1>14 DEF e, F

(* ChainsOwned for any buffer of fewer than 2^32 slots and a caller that   *)
(* frees no slot another slot links to: ef_write_blob and ef_free_slot     *)
(* leak no overflow slot and give none to two blobs, also when a write     *)
(* fails half way and releases what it wrote.                              *)
THEOREM OwnedTheorem ==
  ASSUME Room < CountMod, StaleLinks = FALSE
  PROVE Spec => []ChainsOwned
<1>1. BlobInv => ChainsOwned
  <2>1. SUFFICES ASSUME BlobInv PROVE ChainsOwned
    OBVIOUS
  <2>2. Size(d) \in Nat
    BY <2>1 DEF BlobInv, BlobPool, Good, Shape
  <2>3. PICK own : Rest(d, own, blob, 0)
    BY <2>1 DEF BlobInv, Owned
  <2>4. \A s \in Heads : Chain(s) = Over(d, own, s)
    <3>1. TAKE s \in Heads
    <3>2. s \in 1..Size(d) /\ d.slot[s].status = "USED"
      BY DEF Heads, Slots
    <3>3. Linked(d, s) /\ HasList(d, own, s)
      BY <2>2, <2>3, <3>2, UsedSound
    <3> QED BY <2>2, <3>3, ChainOver
  <2>5. ASSUME NEW t \in Slots, d.slot[t].status = "OVERFLOW"
        PROVE Cardinality({s \in Heads : t \in Chain(s)}) = 1
    <3>1. t \in 1..Size(d) /\ own[t] \in 1..Size(d) /\ d.slot[own[t]].status = "USED"
      BY <2>3, <2>5 DEF Rest, Slots
    <3>2. own[t] \in Heads
      BY <3>1 DEF Heads, Slots
    <3>3. \A s \in Heads : t \in Chain(s) <=> s = own[t]
      BY <2>4, <2>5, <3>1 DEF Over
    <3>4. {s \in Heads : t \in Chain(s)} = {own[t]}
      BY <3>2, <3>3
    <3> QED BY <3>4, FS_Singleton
  <2> QED BY <2>5 DEF ChainsOwned
<1> QED BY <1>1, BlobInvHolds, PTL

-----------------------------------------------------------------------------
(* ef_read_blob collects the pieces in the order in which they were        *)
(* written.                                                                *)

Prefix(b, m) == SubSeq(b, 1, IF Len(b) < m THEN Len(b) ELSE m)

LEMMA DataSeq ==
  ASSUME NEW b, IsData(b)
  PROVE \E S : b \in Seq(S)
<1> DEFINE S == {b[i] : i \in 1..Len(b)}
<1>1. b \in [1..Len(b) -> S]
  BY DEF IsData
<1>2. b \in Seq(S)
  BY <1>1 DEF IsData
<1> QED BY <1>2

(* Two pieces of a blob, one behind the other.                             *)
LEMMA Adjacent ==
  ASSUME NEW S, NEW b \in Seq(S), NEW m \in 0..Len(b), NEW n \in m..Len(b)
  PROVE SubSeq(b, 1, m) \o SubSeq(b, m + 1, n) = SubSeq(b, 1, n)
OBVIOUS

(* What ef_read_blob has when it has read the pieces up to m.              *)
LEMMA PrefixMore ==
  ASSUME NEW b, IsData(b), NEW m \in Nat, m < Len(b)
  PROVE Prefix(b, m) \o Piece(b, m + 1) = Prefix(b, m + ChunkCap)
<1> DEFINE n == IF Len(b) < m + ChunkCap THEN Len(b) ELSE m + ChunkCap
<1>1. PICK S : b \in Seq(S)
  BY DataSeq
<1>2. Len(b) \in Nat /\ n \in Nat /\ m <= n /\ n <= Len(b) /\ (m + 1) + ChunkCap - 1 = m + ChunkCap
  BY CapAssumption DEF IsData
<1>3. Prefix(b, m) = SubSeq(b, 1, m)
  BY <1>2 DEF Prefix
<1>4. Piece(b, m + 1) = SubSeq(b, m + 1, n)
  BY <1>2 DEF Piece
<1>5. Prefix(b, m + ChunkCap) = SubSeq(b, 1, n)
  BY DEF Prefix
<1> HIDE DEF n
<1>6. m \in 0..Len(b) /\ n \in m..Len(b)
  BY <1>2
<1> QED BY <1>1, <1>3, <1>4, <1>5, <1>6, Adjacent

LEMMA PrefixAll ==
  ASSUME NEW b, IsData(b), NEW m \in Nat, m >= Len(b)
  PROVE Prefix(b, m) = b
<1>1. PICK S : b \in Seq(S)
  BY DataSeq
<1>2. Prefix(b, m) = SubSeq(b, 1, Len(b))
  BY <1>1 DEF Prefix
<1> DEFINE z == SubSeq(b, 1, Len(b))
<1>3. z \in Seq(S) /\ Len(z) = Len(b) /\ \A i \in 1..Len(b) : z[i] = b[i]
  BY <1>1
<1> HIDE DEF z
<1>4. z = b
  BY <1>1, <1>3
<1> QED BY <1>2, <1>4 DEF z

LEMMA PrefixLen ==
  ASSUME NEW b, IsData(b), NEW m \in Nat
  PROVE Len(Prefix(b, m)) = IF Len(b) < m THEN Len(b) ELSE m
<1>1. PICK S : b \in Seq(S)
  BY DataSeq
<1> QED BY <1>1 DEF Prefix

(* The function that ReadBlob computes with.                               *)
ReadTurn(e, need, w) ==
  IF w.err # "OK" \/ Len(w.data) >= need \/ w.at = 0 THEN w
  ELSE IF ~GetSlot(e, w.at) THEN [w EXCEPT !.err = "BAD_CHECKSUM"]
  ELSE IF e.slot[w.at].status # "OVERFLOW" THEN [w EXCEPT !.err = "NOT_FOUND"]
  ELSE [w EXCEPT !.data = @ \o e.slot[w.at].payload.rest, !.at = e.slot[w.at].next]
ReadStart(e, s) == [err |-> "OK", data |-> e.slot[s].payload.rest, at |-> e.slot[s].next]
IsRead(w, e, start, need, n) ==
  w = [k \in 0..n |-> IF k = 0 THEN start ELSE ReadTurn(e, need, w[k - 1])]

LEMMA ReadExists ==
  ASSUME NEW e, NEW start, NEW need
  PROVE \A n \in Nat : \E w : IsRead(w, e, start, need, n)
<1> DEFINE S == {n \in Nat : \E w : IsRead(w, e, start, need, n)}
<1>1. 0 \in S
  <2> DEFINE w == [k \in 0..0 |-> start]
  <2>1. w = [k \in 0..0 |-> IF k = 0 THEN start ELSE ReadTurn(e, need, w[k - 1])]
    OBVIOUS
  <2> QED BY <2>1 DEF IsRead
<1>2. ASSUME NEW n \in Nat, n \in S PROVE n + 1 \in S
  <2>1. PICK w : IsRead(w, e, start, need, n)
    BY <1>2
  <2> DEFINE v == [k \in 0..n + 1 |-> IF k = 0 THEN start ELSE ReadTurn(e, need, w[k - 1])]
  <2>2. \A k \in 0..n : v[k] = w[k]
    BY <2>1 DEF IsRead
  <2>3. \A k \in 0..n + 1 : k # 0 => k - 1 \in 0..n
    OBVIOUS
  <2>4. v = [k \in 0..n + 1 |-> IF k = 0 THEN start ELSE ReadTurn(e, need, v[k - 1])]
    BY <2>2, <2>3
  <2>5. IsRead(v, e, start, need, n + 1)
    BY <2>4 DEF IsRead
  <2> HIDE DEF v
  <2> QED BY <2>5
<1> HIDE DEF S
<1>3. \A n \in Nat : n \in S
  BY <1>1, <1>2, SetInduction
<1> QED BY <1>3 DEF S

(* Of the head of a blob that ef_read_blob does not refuse.                *)
LEMMA ReadIs ==
  ASSUME NEW e, Size(e) \in Nat, NEW s, CrcValid(e.slot[s]), e.slot[s].status = "USED",
         NEW b, e.slot[s].payload = BlobHead(b)
  PROVE \E w : /\ IsRead(w, e, ReadStart(e, s), Len(b), Size(e))
               /\ ReadBlob(e, s) = w[Size(e)]
<1> DEFINE start == ReadStart(e, s)
           need == e.slot[s].payload.first[2]
           n == Size(e)
           w == CHOOSE v : IsRead(v, e, start, need, n)
<1>1. e.slot[s].payload.first = <<1, Len(b)>>
  BY DEF BlobHead
<1>2. need = Len(b) /\ e.slot[s].payload.first[1] = 1
  BY <1>1
<1>3. ReadBlob(e, s) = w[n]
  BY <1>2 DEF ReadBlob, IsRead, ReadTurn, ReadStart, GetSlot
<1>4. IsRead(w, e, start, need, n)
  <2>1. n \in Nat
    OBVIOUS
  <2> HIDE DEF n, start, need
  <2> QED BY <2>1, ReadExists
<1> HIDE DEF w
<1> QED BY <1>2, <1>3, <1>4

(* After k turns: all of b, or the pieces in front of the next slot.       *)
ReadAt(w, b, c, q, k) ==
  /\ DOMAIN w = {"err", "data", "at"} /\ w.err = "OK"
  /\ \/ w.data = b
     \/ k < c /\ w.data = Prefix(b, PieceOf(k + 1) - 1) /\ w.at = q[k + 1]

(* The pieces that have been read when the turn is over.                   *)
LEMMA ReadMore ==
  ASSUME NEW b, IsData(b), NEW c \in Nat, PieceOf(c + 1) > Len(b), NEW k \in Nat, k <= c,
         NEW x, x = Prefix(b, PieceOf(k + 1) - 1)
  PROVE /\ k = c => x = b
        /\ Len(x) >= Len(b) => x = b
        /\ Len(x) < Len(b) => x \o Piece(b, PieceOf(k + 1)) = Prefix(b, PieceOf(k + 2) - 1)
<1> DEFINE m == PieceOf(k + 1) - 1
<1>1. PieceOf(k + 1) \in Nat /\ PieceOf(k + 2) = PieceOf(k + 1) + ChunkCap
  BY PieceMore
<1>2. m \in Nat /\ m + 1 = PieceOf(k + 1) /\ m + ChunkCap = PieceOf(k + 2) - 1
  <2>1. PieceOf(k + 1) >= 1
    <3>1. InlineCap \in Nat /\ ChunkCap \in Nat /\ ((k + 1) - 1) * ChunkCap \in Nat
      BY CapAssumption
    <3> QED BY <3>1 DEF PieceOf
  <2> QED BY <1>1, <2>1, CapAssumption
<1>3. x = Prefix(b, m) /\ Len(b) \in Nat
  BY DEF IsData
<1> HIDE DEF m
<1>4. Len(x) = IF Len(b) < m THEN Len(b) ELSE m
  BY <1>2, <1>3, PrefixLen
<1>5. m >= Len(b) => x = b
  BY <1>2, <1>3, PrefixAll
<1>6. m < Len(b) => x \o Piece(b, m + 1) = Prefix(b, m + ChunkCap)
  BY <1>2, <1>3, PrefixMore
<1>7. k = c => m >= Len(b)
  BY <1>1, <1>2, <1>3
<1> QED BY <1>2, <1>3, <1>4, <1>5, <1>6, <1>7

LEMMA ReadStep ==
  ASSUME NEW e, \A i \in 1..Size(e) : CrcValid(e.slot[i]), NEW own, NEW s, NEW h,
         NEW c, NEW q, Chained(e, own, s, h, c, q), NEW b, IsData(b), Filled(e, c, q, b),
         PieceOf(c + 1) > Len(b), NEW k \in Nat, NEW w, ReadAt(w, b, c, q, k),
         NEW r, r = ReadTurn(e, Len(b), w)
  PROVE ReadAt(r, b, c, q, k + 1)
<1> DEFINE need == Len(b)
           t == w.at
           x == w.data
<1>1. c \in Nat /\ Along(Over(e, own, s), Links(e), h, c, q) /\ need \in Nat
  BY DEF Chained, IsData
<1>2. DOMAIN w = {"err", "data", "at"} /\ w.err = "OK"
  BY DEF ReadAt
<1>3. CASE Len(x) >= need
  <2>1. x = b
    <3>1. CASE x = b
      BY <3>1
    <3>2. CASE k < c /\ x = Prefix(b, PieceOf(k + 1) - 1)
      <4>1. k <= c
        BY <1>1, <3>2
      <4> HIDE DEF x
      <4> QED BY <1>1, <1>3, <3>2, <4>1, ReadMore
    <3> QED BY <3>1, <3>2 DEF ReadAt
  <2>2. r = w
    BY <1>3 DEF ReadTurn
  <2> QED BY <1>2, <2>1, <2>2 DEF ReadAt
<1>4. CASE ~(Len(x) >= need)
  <2>1. x # b
    BY <1>1, <1>4
  <2>2. k < c /\ x = Prefix(b, PieceOf(k + 1) - 1) /\ t = q[k + 1]
    BY <2>1 DEF ReadAt
  <2>3. k + 1 \in 1..c /\ k <= c /\ k + 1 <= c
    BY <1>1, <2>2
  <2>4. /\ t \in Over(e, own, s)
        /\ Links(e)[t] = IF k + 1 = c THEN 0 ELSE q[(k + 1) + 1]
    BY <1>1, <2>2, <2>3 DEF Along
  <2>5. /\ t \in 1..Size(e) /\ e.slot[t].status = "OVERFLOW" /\ CrcValid(e.slot[t])
        /\ Links(e)[t] = e.slot[t].next
    BY <2>4 DEF Over, Links
  <2>6. e.slot[t].payload.rest = Piece(b, PieceOf(k + 1))
    BY <2>2, <2>3 DEF Filled
  <2>7. t # 0
    BY <2>5
  <2> DEFINE y == x \o e.slot[t].payload.rest
             u == e.slot[t].next
  <2>8. r = [w EXCEPT !.data = y, !.at = u]
    BY <1>2, <1>4, <2>5, <2>7 DEF ReadTurn, GetSlot
  <2>8a. Len(x) \in Nat
    <3>1. PICK m \in Nat : x = Prefix(b, m)
      <4>1. PieceOf(k + 1) - 1 \in Nat
        <5>1. InlineCap \in Nat /\ ChunkCap \in Nat /\ ((k + 1) - 1) * ChunkCap \in Nat
          BY CapAssumption
        <5> QED BY <5>1 DEF PieceOf
      <4> QED BY <2>2, <4>1
    <3> QED BY <1>1, <3>1, PrefixLen
  <2>8b. Len(x) < Len(b)
    BY <1>1, <1>4, <2>8a
  <2>9. y = Prefix(b, PieceOf(k + 2) - 1)
    <3> HIDE DEF x, t
    <3>1. x \o Piece(b, PieceOf(k + 1)) = Prefix(b, PieceOf(k + 2) - 1)
      BY <1>1, <2>2, <2>3, <2>8b, ReadMore
    <3> QED BY <2>6, <3>1
  <2>10. DOMAIN r = {"err", "data", "at"} /\ r.err = "OK" /\ r.data = y /\ r.at = u
    BY <1>2, <2>8
  <2>11. (k + 1) + 1 = k + 2 /\ k + 1 \in Nat
    OBVIOUS
  <2> HIDE DEF y, u, x, t
  <2>12. CASE k + 1 = c
    <3>1. y = b
      BY <1>1, <2>9, <2>11, <2>12, ReadMore
    <3> QED BY <2>10, <3>1 DEF ReadAt
  <2>13. CASE k + 1 # c
    <3>1. k + 1 < c /\ u = q[(k + 1) + 1]
      BY <1>1, <2>3, <2>4, <2>5, <2>13 DEF u
    <3>2. y = Prefix(b, PieceOf((k + 1) + 1) - 1)
      BY <2>9, <2>11
    <3> QED BY <2>10, <3>1, <3>2 DEF ReadAt
  <2> QED BY <2>12, <2>13
<1> QED BY <1>3, <1>4

(* A blob that is held whole is read whole.                                *)
LEMMA ReadHolds ==
  ASSUME NEW e, Good(e, {}), NEW own, NEW s \in 1..Size(e), e.slot[s].status = "USED",
         NEW b, IsData(b), Holds(e, own, s, b)
  PROVE ReadBlob(e, s).err = "OK" /\ ReadBlob(e, s).data = b
<1> DEFINE n == Size(e)
           start == ReadStart(e, s)
           need == Len(b)
<1>1. n \in Nat /\ \A i \in 1..Size(e) : CrcValid(e.slot[i])
  BY DEF Good, Shape, Sums
<1>2. e.slot[s].payload = BlobHead(b)
  BY DEF Holds
<1>3. PICK c, q : /\ Chained(e, own, s, First(e, s), c, q)
                  /\ Filled(e, c, q, b) /\ PieceOf(c + 1) > Len(b)
  BY DEF Holds
<1>4. PICK w : IsRead(w, e, start, need, n) /\ ReadBlob(e, s) = w[n]
  BY <1>1, <1>2, ReadIs
<1>5. c \in Nat /\ c <= n
  <2> DEFINE F == Over(e, own, s)
             nx == Links(e)
             h == First(e, s)
  <2>1. c \in Nat /\ Along(F, nx, h, c, q)
    BY <1>3 DEF Chained
  <2>2. F \subseteq 1..n /\ 0 \notin F
    BY DEF Over
  <2> HIDE DEF F, nx, h, n
  <2>3. Listed(F, nx, h, c)
    BY <2>1, <2>2 DEF Listed
  <2> QED BY <1>1, <2>1, <2>2, <2>3, ListBound
<1>6. w[0] = start /\ \A k \in 1..n : w[k] = ReadTurn(e, need, w[k - 1])
  <2>1. 0 \in 0..n /\ \A k \in 1..n : k \in 0..n /\ k # 0
    BY <1>1
  <2> HIDE DEF n, start, need
  <2> QED BY <1>4, <2>1 DEF IsRead
<1>7. ReadAt(start, b, c, q, 0)
  <2> DEFINE x == start.data
  <2>1. /\ DOMAIN start = {"err", "data", "at"} /\ start.err = "OK"
        /\ x = e.slot[s].payload.rest /\ start.at = e.slot[s].next
    BY DEF ReadStart
  <2>2. BlobHead(b).rest = Prefix(b, InlineCap)
    BY DEF BlobHead, Prefix
  <2>3. PieceOf(0 + 1) - 1 = InlineCap
    <3>1. InlineCap \in Nat /\ ((0 + 1) - 1) * ChunkCap = 0
      BY CapAssumption
    <3> QED BY <3>1 DEF PieceOf
  <2>4. x = Prefix(b, PieceOf(0 + 1) - 1)
    BY <1>2, <2>1, <2>2, <2>3
  <2>5. CASE c = 0
    <3> DEFINE k == 0
    <3>0. k \in Nat /\ k <= c /\ k = c /\ x = Prefix(b, PieceOf(k + 1) - 1)
      BY <2>4, <2>5
    <3> HIDE DEF x, k
    <3>1. x = b
      BY <1>3, <1>5, <3>0, ReadMore
    <3> QED BY <2>1, <3>1 DEF ReadAt, x
  <2>6. CASE c # 0
    <3>1. 1 \in 1..c /\ 0 < c
      BY <1>5, <2>6
    <3>2. First(e, s) = q[1] /\ q[1] \in Over(e, own, s)
      BY <1>3, <2>6, <3>1 DEF Chained, Along
    <3>3. q[1] # 0
      BY <3>2 DEF Over
    <3>4. start.at = q[0 + 1]
      BY <2>1, <3>2, <3>3 DEF First
    <3> QED BY <2>1, <2>4, <3>1, <3>4 DEF ReadAt
  <2> QED BY <2>5, <2>6
<1> HIDE DEF n, start
<1> DEFINE S == {k \in 0..n : ReadAt(w[k], b, c, q, k)}
<1>8. 0 \in S
  BY <1>1, <1>6, <1>7
<1>9. ASSUME NEW k \in 1..n, k - 1 \in S PROVE k \in S
  <2> DEFINE j == k - 1
             v == w[j]
  <2>1. j \in Nat /\ ReadAt(v, b, c, q, j) /\ j + 1 = k /\ k \in 0..n
    BY <1>1, <1>9
  <2>2. w[k] = ReadTurn(e, Len(b), v)
    BY <1>6
  <2> HIDE DEF j, v
  <2> DEFINE h == First(e, s)
  <2>3. Chained(e, own, s, h, c, q)
    BY <1>3
  <2> HIDE DEF h
  <2>4. ReadAt(w[k], b, c, q, j + 1)
    BY <1>1, <1>3, <2>1, <2>2, <2>3, ReadStep
  <2> QED BY <2>1, <2>4
<1> HIDE DEF S
<1>10. n \in S
  BY <1>1, <1>8, <1>9, BoundedInduction
<1>11. ReadAt(w[n], b, c, q, n) /\ ~(n < c)
  BY <1>1, <1>5, <1>10 DEF S
<1> QED BY <1>4, <1>11 DEF ReadAt

(* BlobKept for any such buffer, any capacity of a slot and any length:    *)
(* what ef_write_blob stored in a slot is what ef_read_blob gives back,    *)
(* until the slot is written or freed, whatever was done to the others.    *)
THEOREM KeptTheorem ==
  ASSUME Room < CountMod, StaleLinks = FALSE
  PROVE Spec => []BlobKept
<1>1. BlobInv => BlobKept
  <2>1. SUFFICES ASSUME BlobInv PROVE BlobKept
    OBVIOUS
  <2>2. Good(d, {}) /\ Size(d) \in Nat /\ Size(d) <= Room
    BY <2>1 DEF BlobInv, BlobPool, Good, Shape
  <2>3. PICK own : Rest(d, own, blob, 0)
    BY <2>1 DEF BlobInv, Owned
  <2>4. ASSUME NEW s \in Slots, blob[s] # NoBlob
        PROVE ReadBlob(d, s).err = "OK" /\ ReadBlob(d, s).data = blob[s]
    <3>1. s \in 1..Size(d) /\ s \in 1..Room /\ s # 0
      BY <2>2, BlobAssumption DEF Slots
    <3>2. d.slot[s].status = "USED"
      BY <2>3, <2>4, <3>1 DEF Rest
    <3>3. Sound(d, own, blob, s)
      BY <2>2, <2>3, <3>1, <3>2, UsedSound
    <3>4. Holds(d, own, s, blob[s])
      BY <2>4, <3>3 DEF Sound
    <3>5. IsData(blob[s])
      BY <2>1, <3>1 DEF BlobInv, Typed
    <3> QED BY <2>2, <3>1, <3>2, <3>4, <3>5, ReadHolds
  <2> QED BY <2>4 DEF BlobKept
<1> QED BY <1>1, BlobInvHolds, PTL

-----------------------------------------------------------------------------
(* Walks along the links: ef_chase_n against as many calls of ef_chase.    *)

PathTurn(x) == IF x = 0 THEN 0 ELSE Chase(x)
IsPath(p, s, n) == p = [k \in 0..n |-> IF k = 0 THEN s ELSE PathTurn(p[k - 1])]

LEMMA PathExists ==
  ASSUME NEW s
  PROVE \A n \in Nat : \E p : IsPath(p, s, n)
<1> DEFINE S == {n \in Nat : \E p : IsPath(p, s, n)}
<1>1. 0 \in S
  <2> DEFINE p == [k \in 0..0 |-> s]
  <2>1. p = [k \in 0..0 |-> IF k = 0 THEN s ELSE PathTurn(p[k - 1])]
    OBVIOUS
  <2> QED BY <2>1 DEF IsPath
<1>2. ASSUME NEW n \in Nat, n \in S PROVE n + 1 \in S
  <2>1. PICK p : IsPath(p, s, n)
    BY <1>2
  <2> DEFINE v == [k \in 0..n + 1 |-> IF k = 0 THEN s ELSE PathTurn(p[k - 1])]
  <2>2. \A k \in 0..n : v[k] = p[k]
    BY <2>1 DEF IsPath
  <2>3. \A k \in 0..n + 1 : k # 0 => k - 1 \in 0..n
    OBVIOUS
  <2>4. v = [k \in 0..n + 1 |-> IF k = 0 THEN s ELSE PathTurn(v[k - 1])]
    BY <2>2, <2>3
  <2>5. IsPath(v, s, n + 1)
    BY <2>4 DEF IsPath
  <2> HIDE DEF v
  <2> QED BY <2>5
<1> HIDE DEF S
<1>3. \A n \in Nat : n \in S
  BY <1>1, <1>2, SetInduction
<1> QED BY <1>3 DEF S

(* The function that ChaseN computes with.                                 *)
HopFields == {"err", "at", "seen", "end", "done"}
HopStart(s) == [err |-> "OK", at |-> s, seen |-> {}, end |-> FALSE, done |-> 0]
HopTurn(w, i) ==
  IF w.err # "OK" \/ w.end THEN w
  ELSE IF w.at \in w.seen THEN [w EXCEPT !.err = "CHASE_CYCLE"]
  ELSE IF d.slot[w.at].status # "USED" THEN [w EXCEPT !.err = "SLOT_FREE"]
  ELSE IF d.slot[w.at].next = 0 THEN [w EXCEPT !.end = TRUE, !.done = i]
  ELSE [w EXCEPT !.at = d.slot[w.at].next, !.seen = Remember(@, w.at), !.done = i]
IsHops(v, s, n) == v = [i \in 0..n |-> IF i = 0 THEN HopStart(s) ELSE HopTurn(v[i - 1], i)]

LEMMA HopsExist ==
  ASSUME NEW s
  PROVE \A n \in Nat : \E v : IsHops(v, s, n)
<1> DEFINE S == {n \in Nat : \E v : IsHops(v, s, n)}
           start == HopStart(s)
<1>0. start = HopStart(s)
  OBVIOUS
<1> HIDE DEF start
<1>1. 0 \in S
  <2> DEFINE v == [i \in 0..0 |-> start]
  <2>1. v = [i \in 0..0 |-> IF i = 0 THEN start ELSE HopTurn(v[i - 1], i)]
    OBVIOUS
  <2> QED BY <1>0, <2>1 DEF IsHops
<1>2. ASSUME NEW n \in Nat, n \in S PROVE n + 1 \in S
  <2>1. PICK w : IsHops(w, s, n)
    BY <1>2
  <2> DEFINE v == [i \in 0..n + 1 |-> IF i = 0 THEN start ELSE HopTurn(w[i - 1], i)]
  <2>2. \A i \in 0..n : v[i] = w[i]
    BY <1>0, <2>1 DEF IsHops
  <2>3. \A i \in 0..n + 1 : i # 0 => i - 1 \in 0..n
    OBVIOUS
  <2>4. v = [i \in 0..n + 1 |-> IF i = 0 THEN start ELSE HopTurn(v[i - 1], i)]
    BY <2>2, <2>3
  <2>5. IsHops(v, s, n + 1)
    BY <1>0, <2>4 DEF IsHops
  <2> HIDE DEF v
  <2> QED BY <2>5
<1> HIDE DEF S
<1>3. \A n \in Nat : n \in S
  BY <1>1, <1>2, SetInduction
<1> QED BY <1>3 DEF S

(* How ef_chase_n ends.                                                    *)
Limit(hops) == IF hops > MaxDepth THEN MaxDepth ELSE hops
Ending(w, hops) ==
  IF w.err = "OK" /\ ~w.end /\ hops > MaxDepth THEN [w EXCEPT !.err = "CHASE_DEPTH"] ELSE w

LEMMA ChaseIs ==
  ASSUME NEW s, NEW hops \in Nat, NEW r, r = ChaseN(s, hops)
  PROVE \E v : IsHops(v, s, Limit(hops)) /\ r = Ending(v[Limit(hops)], hops)
<1> DEFINE n == Limit(hops)
           v == CHOOSE x : IsHops(x, s, n)
<1>1. r = Ending(v[n], hops)
  BY DEF ChaseN, IsHops, HopTurn, HopStart, Limit, Ending
<1>2. n \in Nat
  BY BlobAssumption DEF Limit
<1> HIDE DEF n
<1>3. IsHops(v, s, n)
  BY <1>2, HopsExist
<1> QED BY <1>1, <1>3 DEF n

(* What a turn makes of the walk.                                          *)
HopDone(w, r, i) ==
  \/ (w.err # "OK" \/ w.end = TRUE) /\ r = w
  \/ /\ w.err = "OK" /\ w.end = FALSE /\ w.at \in w.seen
     /\ r.err = "CHASE_CYCLE" /\ r.end = FALSE
  \/ /\ w.err = "OK" /\ w.end = FALSE /\ w.at \notin w.seen /\ d.slot[w.at].status # "USED"
     /\ r.err = "SLOT_FREE" /\ r.end = FALSE
  \/ /\ w.err = "OK" /\ w.end = FALSE /\ w.at \notin w.seen
     /\ d.slot[w.at].status = "USED" /\ d.slot[w.at].next = 0
     /\ r.err = "OK" /\ r.end = TRUE /\ r.done = i /\ r.at = w.at
  \/ /\ w.err = "OK" /\ w.end = FALSE /\ w.at \notin w.seen
     /\ d.slot[w.at].status = "USED" /\ d.slot[w.at].next # 0
     /\ r.err = "OK" /\ r.end = FALSE /\ r.done = i /\ r.at = d.slot[w.at].next
     /\ r.seen = Remember(w.seen, w.at)

LEMMA HopIs ==
  ASSUME NEW w, DOMAIN w = HopFields, w.end = TRUE \/ w.end = FALSE, NEW i,
         NEW r, r = HopTurn(w, i)
  PROVE HopDone(w, r, i) /\ DOMAIN r = HopFields
<1> DEFINE a == [w EXCEPT !.err = "CHASE_CYCLE"]
           b == [w EXCEPT !.err = "SLOT_FREE"]
           e == [w EXCEPT !.end = TRUE, !.done = i]
           g == [w EXCEPT !.at = d.slot[w.at].next, !.seen = Remember(@, w.at), !.done = i]
<1>1. CASE w.err # "OK" \/ w.end = TRUE
  <2>1. r = w
    BY <1>1 DEF HopTurn
  <2> QED BY <1>1, <2>1 DEF HopDone
<1>2. CASE w.err = "OK" /\ w.end = FALSE
  <2>1. CASE w.at \in w.seen
    <3>1. r = a
      BY <1>2, <2>1 DEF HopTurn
    <3>2. r.err = "CHASE_CYCLE" /\ r.end = FALSE /\ DOMAIN r = HopFields
      BY <1>2, <3>1 DEF HopFields
    <3> QED BY <1>2, <2>1, <3>2 DEF HopDone
  <2>2. CASE w.at \notin w.seen /\ d.slot[w.at].status # "USED"
    <3>1. r = b
      BY <1>2, <2>2 DEF HopTurn
    <3>2. r.err = "SLOT_FREE" /\ r.end = FALSE /\ DOMAIN r = HopFields
      BY <1>2, <3>1 DEF HopFields
    <3> QED BY <1>2, <2>2, <3>2 DEF HopDone
  <2>3. CASE w.at \notin w.seen /\ d.slot[w.at].status = "USED" /\ d.slot[w.at].next = 0
    <3>1. r = e
      BY <1>2, <2>3 DEF HopTurn
    <3>2. /\ DOMAIN r = HopFields
          /\ r.err = "OK" /\ r.end = TRUE /\ r.done = i /\ r.at = w.at
      BY <1>2, <3>1 DEF HopFields
    <3> QED BY <1>2, <2>3, <3>2 DEF HopDone
  <2>4. CASE w.at \notin w.seen /\ d.slot[w.at].status = "USED" /\ d.slot[w.at].next # 0
    <3>1. r = g
      BY <1>2, <2>4 DEF HopTurn
    <3>2. /\ DOMAIN r = HopFields
          /\ r.err = "OK" /\ r.end = FALSE /\ r.done = i /\ r.at = d.slot[w.at].next
          /\ r.seen = Remember(w.seen, w.at)
      BY <1>2, <3>1 DEF HopFields
    <3> QED BY <1>2, <2>4, <3>2 DEF HopDone
  <2> QED BY <2>1, <2>2, <2>3, <2>4
<1> QED BY <1>1, <1>2


(* The path of a walk: a slot on it is in use, and what follows a slot     *)
(* depends on that slot alone.                                             *)
Met(p, m) == \A a \in 0..m : p[a] # 0 => d.slot[p[a]].status = "USED"
Next0(p, m) == \A a \in 0..m - 1 : p[a + 1] = PathTurn(p[a])

LEMMA PathFacts ==
  ASSUME NEW s, s # 0, d.slot[s].status = "USED", NEW m \in Nat, NEW p, IsPath(p, s, m)
  PROVE p[0] = s /\ Met(p, m) /\ Next0(p, m)
<1>1. p[0] = s
  BY DEF IsPath
<1>2. Next0(p, m)
  <2>1. ASSUME NEW a \in 0..m - 1 PROVE p[a + 1] = PathTurn(p[a])
    <3>1. a + 1 \in 0..m /\ a + 1 # 0 /\ (a + 1) - 1 = a
      OBVIOUS
    <3> QED BY <3>1 DEF IsPath
  <2> QED BY <2>1 DEF Next0
<1>3. Met(p, m)
  <2>1. ASSUME NEW a \in 0..m, p[a] # 0 PROVE d.slot[p[a]].status = "USED"
    <3>1. CASE a = 0
      BY <1>1, <3>1
    <3>2. CASE a # 0
      <4>1. a - 1 \in 0..m - 1 /\ (a - 1) + 1 = a
        BY <3>2
      <4>2. p[a] = PathTurn(p[a - 1])
        BY <1>2, <4>1 DEF Next0
      <4> QED BY <2>1, <4>2 DEF PathTurn, Chase
    <3> QED BY <3>1, <3>2
  <2> QED BY <2>1 DEF Met
<1> QED BY <1>1, <1>2, <1>3

(* A path that has ended stays ended.                                      *)
LEMMA PathEnds ==
  ASSUME NEW m \in Nat, NEW p, Next0(p, m), NEW b \in 0..m, p[b] = 0
  PROVE \A a \in b..m : p[a] = 0
<1> DEFINE S == {k \in Nat : b + k <= m => p[b + k] = 0}
<1>1. 0 \in S
  OBVIOUS
<1>2. ASSUME NEW k \in Nat, k \in S PROVE k + 1 \in S
  <2>1. SUFFICES ASSUME b + (k + 1) <= m PROVE p[b + (k + 1)] = 0
    OBVIOUS
  <2>2. b + k \in 0..m - 1 /\ (b + k) + 1 = b + (k + 1) /\ b + k <= m
    BY <2>1
  <2>3. p[b + k] = 0
    BY <1>2, <2>2
  <2> QED BY <2>2, <2>3 DEF Next0, PathTurn
<1> HIDE DEF S
<1>3. \A k \in Nat : k \in S
  BY <1>1, <1>2, SetInduction
<1>4. ASSUME NEW a \in b..m PROVE p[a] = 0
  <2>1. a - b \in Nat /\ b + (a - b) = a /\ b + (a - b) <= m
    OBVIOUS
  <2> QED BY <1>3, <2>1 DEF S
<1> QED BY <1>4

(* Two places of a path with the same slot go on alike.                    *)
LEMMA PathRepeats ==
  ASSUME NEW m \in Nat, NEW p, Next0(p, m),
         NEW a \in 0..m, NEW b \in a + 1..m, p[a] = p[b]
  PROVE \A c \in b..m : p[a + (c - b)] = p[c]
<1> DEFINE S == {k \in Nat : b + k <= m => p[a + k] = p[b + k]}
<1>1. 0 \in S
  OBVIOUS
<1>2. ASSUME NEW k \in Nat, k \in S PROVE k + 1 \in S
  <2>1. SUFFICES ASSUME b + (k + 1) <= m PROVE p[a + (k + 1)] = p[b + (k + 1)]
    OBVIOUS
  <2>2. /\ b + k \in 0..m - 1 /\ (b + k) + 1 = b + (k + 1) /\ b + k <= m
        /\ a + k \in 0..m - 1 /\ (a + k) + 1 = a + (k + 1)
    BY <2>1
  <2>3. p[a + k] = p[b + k]
    BY <1>2, <2>2
  <2> QED BY <2>2, <2>3 DEF Next0
<1> HIDE DEF S
<1>3. \A k \in Nat : k \in S
  BY <1>1, <1>2, SetInduction
<1>4. ASSUME NEW c \in b..m PROVE p[a + (c - b)] = p[c]
  <2>1. c - b \in Nat /\ b + (c - b) = c /\ b + (c - b) <= m
    OBVIOUS
  <2> QED BY <1>3, <2>1 DEF S
<1> QED BY <1>4

(* Where a walk stands after i turns: on its way, at the end of the links, *)
(* at a slot that it remembers, or at a slot that is not in use.           *)
Short(i) == IF i < VisitCache THEN i ELSE VisitCache
Dist(p, m) == \A b \in 0..m - 1 : \A a \in 0..b - 1 : a < VisitCache => p[a] # p[b]
Present(p, m) == \A a \in 0..m - 1 : p[a] # 0
Recalled(p, seen, i) ==
  /\ \A x : x \in seen <=> \E a \in 0..Short(i) - 1 : x = p[a]
  /\ IsFiniteSet(seen) /\ Cardinality(seen) = Short(i)
OnWay(p, w, i) ==
  /\ w.err = "OK" /\ w.end = FALSE /\ w.done = i
  /\ w.at # 0 /\ p[i] = IF d.slot[w.at].status = "USED" THEN w.at ELSE 0
  /\ Present(p, i) /\ Dist(p, i) /\ Recalled(p, w.seen, i)
AtEnd(p, w, i) ==
  /\ w.err = "OK" /\ w.end = TRUE /\ w.done \in 1..i
  /\ w.at = p[w.done - 1] /\ d.slot[w.at].next = 0
  /\ Present(p, w.done) /\ Dist(p, w.done)
InCycle(p, w, i) ==
  /\ w.err = "CHASE_CYCLE"
  /\ \E b \in 0..i - 1 : \E a \in 0..b - 1 : p[a] = p[b] /\ p[a] # 0
AtFree(p, w, i) ==
  w.err = "SLOT_FREE" /\ \E b \in 0..i - 1 : p[b] = 0 /\ Dist(p, b)
Stands(p, w, i) ==
  /\ DOMAIN w = HopFields /\ (w.end = TRUE \/ w.end = FALSE)
  /\ OnWay(p, w, i) \/ AtEnd(p, w, i) \/ InCycle(p, w, i) \/ AtFree(p, w, i)

(* The cache of visited slots: it holds the first slots of the path.       *)
LEMMA RecallGrows ==
  ASSUME NEW i \in Nat, NEW p, NEW seen, Recalled(p, seen, i), p[i] \notin seen,
         NEW r, r = Remember(seen, p[i])
  PROVE Recalled(p, r, i + 1)
<1>0. VisitCache \in Nat
  BY BlobAssumption
<1>1. CASE i < VisitCache
  <2>1. Short(i) = i /\ Short(i + 1) = i + 1
    BY <1>0, <1>1 DEF Short
  <2>2. r = seen \cup {p[i]}
    BY <1>1, <2>1 DEF Recalled, Remember
  <2>3. IsFiniteSet(r) /\ Cardinality(r) = i + 1
    BY <2>1, <2>2, FS_AddElement DEF Recalled
  <2>4. ASSUME NEW x PROVE x \in r <=> \E a \in 0..(i + 1) - 1 : x = p[a]
    <3>1. x \in seen <=> \E a \in 0..i - 1 : x = p[a]
      BY <2>1 DEF Recalled
    <3>2. \A a \in 0..(i + 1) - 1 : a \in 0..i - 1 \/ a = i
      OBVIOUS
    <3>3. i \in 0..(i + 1) - 1 /\ \A a \in 0..i - 1 : a \in 0..(i + 1) - 1
      OBVIOUS
    <3> QED BY <2>2, <3>1, <3>2, <3>3
  <2> QED BY <2>1, <2>3, <2>4 DEF Recalled
<1>2. CASE ~(i < VisitCache)
  <2>1. Short(i) = VisitCache /\ Short(i + 1) = VisitCache
    BY <1>0, <1>2 DEF Short
  <2>2. r = seen
    BY <1>0, <2>1 DEF Recalled, Remember
  <2> QED BY <2>1, <2>2 DEF Recalled
<1> QED BY <1>1, <1>2

(* A slot that the walk does not remember is none of those that it met     *)
(* while the cache had room.                                               *)
LEMMA DistGrows ==
  ASSUME NEW i \in Nat, NEW p, NEW seen, Recalled(p, seen, i), p[i] \notin seen, Dist(p, i)
  PROVE Dist(p, i + 1)
<1>0. VisitCache \in Nat
  BY BlobAssumption
<1>1. ASSUME NEW b \in 0..(i + 1) - 1, NEW a \in 0..b - 1, a < VisitCache PROVE p[a] # p[b]
  <2>1. CASE b = i
    <3>1. a \in 0..Short(i) - 1
      BY <1>0, <1>1, <2>1 DEF Short
    <3>2. p[a] \in seen
      BY <3>1 DEF Recalled
    <3> QED BY <2>1, <3>2
  <2>2. CASE b # i
    <3>1. b \in 0..i - 1
      BY <2>2
    <3> QED BY <1>1, <3>1 DEF Dist
  <2> QED BY <2>1, <2>2
<1> QED BY <1>1 DEF Dist

LEMMA TurnStands ==
  ASSUME NEW m \in Nat, NEW p, Met(p, m), Next0(p, m),
         NEW i \in 0..m - 1, NEW w, Stands(p, w, i),
         NEW r, r = HopTurn(w, i + 1)
  PROVE Stands(p, r, i + 1)
<1>1. HopDone(w, r, i + 1) /\ DOMAIN r = HopFields
  BY HopIs DEF Stands
<1>2. \A b \in 0..i - 1 : b \in 0..(i + 1) - 1
  OBVIOUS
<1>3. i \in 0..(i + 1) - 1 /\ i + 1 \in 1..i + 1 /\ (i + 1) - 1 = i
  OBVIOUS
<1>4. CASE AtEnd(p, w, i)
  <2>1. r = w
    BY <1>1, <1>4 DEF HopDone, AtEnd
  <2>2. w.done \in 1..i + 1
    BY <1>4 DEF AtEnd
  <2> QED BY <1>1, <1>4, <2>1, <2>2 DEF AtEnd, Stands
<1>5. CASE InCycle(p, w, i)
  <2>1. r = w
    BY <1>1, <1>5 DEF HopDone, InCycle
  <2>2. InCycle(p, r, i + 1)
    BY <1>2, <1>5, <2>1 DEF InCycle
  <2> QED BY <1>1, <2>1, <2>2 DEF Stands
<1>6. CASE AtFree(p, w, i)
  <2>1. r = w
    BY <1>1, <1>6 DEF HopDone, AtFree
  <2>2. AtFree(p, r, i + 1)
    BY <1>2, <1>6, <2>1 DEF AtFree
  <2> QED BY <1>1, <2>1, <2>2 DEF Stands
<1>7. CASE OnWay(p, w, i)
  <2>0. w.err = "OK" /\ w.end = FALSE
    BY <1>7 DEF OnWay
  <2>1. CASE w.at \in w.seen
    <3>1. r.err = "CHASE_CYCLE" /\ r.end = FALSE
      BY <1>1, <2>0, <2>1 DEF HopDone
    <3>2. PICK a \in 0..Short(i) - 1 : w.at = p[a]
      BY <1>7, <2>1 DEF OnWay, Recalled
    <3>3. a \in 0..i - 1 /\ a \in 0..m
      BY BlobAssumption DEF Short
    <3>4. p[a] # 0
      BY <1>7, <3>3 DEF OnWay, Present
    <3>5. d.slot[w.at].status = "USED"
      BY <3>2, <3>3, <3>4 DEF Met
    <3>6. p[i] = p[a]
      BY <1>7, <3>2, <3>5 DEF OnWay
    <3>7. InCycle(p, r, i + 1)
      BY <1>3, <3>1, <3>3, <3>4, <3>6 DEF InCycle
    <3> QED BY <1>1, <3>1, <3>7 DEF Stands
  <2>2. CASE w.at \notin w.seen /\ d.slot[w.at].status # "USED"
    <3>1. r.err = "SLOT_FREE" /\ r.end = FALSE
      BY <1>1, <2>0, <2>2 DEF HopDone
    <3>2. p[i] = 0 /\ Dist(p, i)
      BY <1>7, <2>2 DEF OnWay
    <3>3. AtFree(p, r, i + 1)
      BY <1>3, <3>1, <3>2 DEF AtFree
    <3> QED BY <1>1, <3>1, <3>3 DEF Stands
  <2>3. CASE w.at \notin w.seen /\ d.slot[w.at].status = "USED"
    <3>1. p[i] = w.at /\ p[i] # 0 /\ p[i] \notin w.seen
      BY <1>7, <2>3 DEF OnWay
    <3>2. Dist(p, i + 1)
      <4>1. Dist(p, i) /\ Recalled(p, w.seen, i) /\ i \in Nat
        BY <1>7 DEF OnWay
      <4> QED BY <3>1, <4>1, DistGrows
    <3>3. Present(p, i + 1)
      <4>1. \A a \in 0..(i + 1) - 1 : a \in 0..i - 1 \/ a = i
        OBVIOUS
      <4> QED BY <1>7, <3>1, <4>1 DEF OnWay, Present
    <3>4. CASE d.slot[w.at].next = 0
      <4>1. r.err = "OK" /\ r.end = TRUE /\ r.done = i + 1 /\ r.at = w.at
        BY <1>1, <2>0, <2>3, <3>4 DEF HopDone
      <4>2. AtEnd(p, r, i + 1)
        BY <1>3, <3>1, <3>2, <3>3, <3>4, <4>1 DEF AtEnd
      <4> QED BY <1>1, <4>1, <4>2 DEF Stands
    <3>5. CASE d.slot[w.at].next # 0
      <4>1. /\ r.err = "OK" /\ r.end = FALSE /\ r.done = i + 1
            /\ r.at = d.slot[w.at].next /\ r.seen = Remember(w.seen, w.at)
        BY <1>1, <2>0, <2>3, <3>5 DEF HopDone
      <4>2. Recalled(p, r.seen, i + 1)
        <5>1. Recalled(p, w.seen, i) /\ i \in Nat /\ r.seen = Remember(w.seen, p[i])
          BY <1>7, <3>1, <4>1 DEF OnWay
        <5> QED BY <3>1, <5>1, RecallGrows
      <4>3. p[i + 1] = IF d.slot[r.at].status = "USED" THEN r.at ELSE 0
        <5>1. p[i + 1] = PathTurn(p[i])
          BY DEF Next0
        <5> QED BY <3>1, <3>5, <4>1, <5>1 DEF PathTurn, Chase
      <4>4. OnWay(p, r, i + 1)
        BY <3>2, <3>3, <3>5, <4>1, <4>2, <4>3 DEF OnWay
      <4> QED BY <1>1, <4>1, <4>4 DEF Stands
    <3> QED BY <3>4, <3>5
  <2> QED BY <2>1, <2>2, <2>3
<1> QED BY <1>4, <1>5, <1>6, <1>7 DEF Stands

(* The walk of ef_chase_n stands on the path after every turn.             *)
LEMMA WalkStands ==
  ASSUME NEW s, s # 0, d.slot[s].status = "USED", NEW m \in Nat, NEW p, IsPath(p, s, m),
         NEW n \in 0..m, NEW v, IsHops(v, s, n)
  PROVE Stands(p, v[n], n)
<1>0. p[0] = s /\ Met(p, m) /\ Next0(p, m)
  BY PathFacts
<1> DEFINE S == {k \in Nat : k <= n => Stands(p, v[k], k)}
<1>1. 0 \in S
  <2>1. v[0] = HopStart(s)
    BY DEF IsHops
  <2> DEFINE w == v[0]
  <2>2. /\ DOMAIN w = HopFields /\ w.err = "OK" /\ w.end = FALSE /\ w.done = 0
        /\ w.at = s /\ w.seen = {}
    BY <2>1 DEF HopStart, HopFields
  <2> HIDE DEF w
  <2>3. Short(0) = 0
    BY BlobAssumption DEF Short
  <2>4. Recalled(p, w.seen, 0)
    BY <2>2, <2>3, FS_EmptySet DEF Recalled
  <2>5. Present(p, 0) /\ Dist(p, 0)
    BY DEF Present, Dist
  <2>6. OnWay(p, w, 0)
    BY <1>0, <2>2, <2>4, <2>5 DEF OnWay
  <2>7. Stands(p, w, 0)
    BY <2>2, <2>6 DEF Stands
  <2> QED BY <2>7 DEF w
<1>2. ASSUME NEW k \in Nat, k \in S PROVE k + 1 \in S
  <2>1. SUFFICES ASSUME k + 1 <= n PROVE Stands(p, v[k + 1], k + 1)
    OBVIOUS
  <2>2. k + 1 \in 0..n /\ k + 1 # 0 /\ (k + 1) - 1 = k /\ k \in 0..m - 1 /\ k <= n
    BY <2>1
  <2>3. v[k + 1] = HopTurn(v[k], k + 1)
    BY <2>2 DEF IsHops
  <2>4. Stands(p, v[k], k)
    BY <1>2, <2>2
  <2> QED BY <1>0, <2>2, <2>3, <2>4, TurnStands
<1> HIDE DEF S
<1>3. \A k \in Nat : k \in S
  BY <1>1, <1>2, SetInduction
<1> QED BY <1>3 DEF S

(* ef_chase_n of at most MaxDepth hops, and of more.                       *)
LEMMA ChaseStands ==
  ASSUME NEW s, s # 0, d.slot[s].status = "USED", NEW p, IsPath(p, s, MaxDepth),
         NEW hops \in Nat, NEW r, r = ChaseN(s, hops)
  PROVE /\ hops <= MaxDepth => Stands(p, r, hops)
        /\ hops > MaxDepth => r.err # "OK" \/ AtEnd(p, r, MaxDepth)
<1>0. MaxDepth \in Nat
  BY BlobAssumption
<1>1. PICK v : IsHops(v, s, Limit(hops)) /\ r = Ending(v[Limit(hops)], hops)
  BY ChaseIs
<1>2. Limit(hops) \in 0..MaxDepth
  BY <1>0 DEF Limit
<1> DEFINE n == Limit(hops)
           w == v[n]
<1>3. Stands(p, w, n)
  BY <1>0, <1>1, <1>2, WalkStands
<1> HIDE DEF w
<1>4. ASSUME hops <= MaxDepth PROVE Stands(p, r, hops)
  <2>1. n = hops /\ ~(hops > MaxDepth)
    BY <1>0, <1>4 DEF Limit
  <2>2. r = w
    BY <1>1, <2>1 DEF Ending, w
  <2> QED BY <1>3, <2>1, <2>2
<1>5. ASSUME hops > MaxDepth PROVE r.err # "OK" \/ AtEnd(p, r, MaxDepth)
  <2>1. n = MaxDepth
    BY <1>0, <1>5 DEF Limit
  <2>2. r = Ending(w, hops)
    BY <1>1 DEF w
  <2>3. Stands(p, w, MaxDepth)
    BY <1>3, <2>1
  <2>4. CASE AtEnd(p, w, MaxDepth)
    <3>1. r = w
      BY <2>2, <2>4 DEF Ending, AtEnd
    <3> QED BY <2>4, <3>1
  <2>5. CASE OnWay(p, w, MaxDepth)
    <3>1. r = [w EXCEPT !.err = "CHASE_DEPTH"]
      BY <1>5, <2>2, <2>5 DEF Ending, OnWay
    <3>2. r.err = "CHASE_DEPTH"
      BY <2>3, <3>1 DEF Stands, HopFields
    <3> QED BY <3>2
  <2>6. CASE InCycle(p, w, MaxDepth) \/ AtFree(p, w, MaxDepth)
    <3>1. w.err # "OK"
      BY <2>6 DEF InCycle, AtFree
    <3>2. r = w
      BY <2>2, <3>1 DEF Ending
    <3> QED BY <3>1, <3>2
  <2> QED BY <2>3, <2>4, <2>5, <2>6 DEF Stands
<1> QED BY <1>4, <1>5

(* After the end of the links the path is over.                            *)
LEMMA OverAfterEnd ==
  ASSUME NEW m \in Nat, NEW p, Next0(p, m), NEW i \in 0..m, NEW w, AtEnd(p, w, i)
  PROVE \A a \in w.done..m : p[a] = 0
<1> DEFINE e == w.done
<1>1. e \in 1..i /\ w.at = p[e - 1] /\ d.slot[w.at].next = 0
  BY DEF AtEnd
<1> HIDE DEF e
<1>2. e - 1 \in 0..m - 1 /\ (e - 1) + 1 = e /\ e \in 0..m
  BY <1>1
<1>3. p[e] = PathTurn(p[e - 1])
  BY <1>2 DEF Next0
<1>4. p[e] = 0
  BY <1>1, <1>3 DEF PathTurn, Chase
<1>5. \A a \in e..m : p[a] = 0
  BY <1>2, <1>4, PathEnds
<1> QED BY <1>5 DEF e

Repeats(p, m, n) == \E i \in 0..m : p[i] # 0 /\ \E j \in i + 1..n : p[i] = p[j]

(* A walk that came to the end of the links is on a path without a cycle.  *)
LEMMA NoCycleAtEnd ==
  ASSUME NEW m \in Nat, NEW p, Next0(p, m), NEW w, AtEnd(p, w, m)
  PROVE ~Repeats(p, m, m)
<1> SUFFICES ASSUME NEW a \in 0..m, p[a] # 0, NEW b \in a + 1..m, p[a] = p[b] PROVE FALSE
  BY DEF Repeats
<1> DEFINE e == w.done
<1>1. e \in 1..m /\ w.at = p[e - 1] /\ d.slot[w.at].next = 0 /\ Present(p, e)
  BY DEF AtEnd
<1>2. \A c \in e..m : p[c] = 0
  BY OverAfterEnd, m \in 0..m
<1> HIDE DEF e
<1>3. b \in 0..e - 1
  BY <1>1, <1>2
<1> DEFINE x == a + ((e - 1) - b)
<1>4. e - 1 \in b..m /\ x \in 0..m - 1 /\ x + 1 \in 0..e - 1
  BY <1>1, <1>3
<1>5. p[x] = p[e - 1]
  BY <1>4, PathRepeats
<1> HIDE DEF x
<1>6. p[x + 1] = PathTurn(p[x])
  BY <1>4 DEF Next0
<1>7. p[x + 1] = 0
  BY <1>1, <1>5, <1>6 DEF PathTurn, Chase
<1> QED BY <1>1, <1>4, <1>7 DEF Present

(* What ef_chase_n of at most MaxDepth hops says of the path.              *)
Agrees(p, hops, r) ==
  /\ r.err = "CHASE_CYCLE" => Repeats(p, hops, hops)
  /\ Repeats(p, VisitCache - 1, hops - 1) => r.err = "CHASE_CYCLE"
  /\ p[hops] # 0 /\ ~Repeats(p, hops, hops) =>
       r.err = "OK" /\ r.at = p[hops] /\ r.done = hops
  /\ r.err = "OK" /\ r.end => d.slot[r.at].next = 0 /\ r.at = p[r.done - 1]

LEMMA StandsAgrees ==
  ASSUME NEW m \in Nat, NEW p, Next0(p, m), NEW hops \in 1..m, NEW r, Stands(p, r, hops)
  PROVE Agrees(p, hops, r)
<1>0. VisitCache \in Nat
  BY BlobAssumption
<1>1. r.err = "CHASE_CYCLE" => Repeats(p, hops, hops)
  <2> SUFFICES ASSUME r.err = "CHASE_CYCLE" PROVE Repeats(p, hops, hops)
    OBVIOUS
  <2>1. InCycle(p, r, hops)
    BY DEF Stands, OnWay, AtEnd, AtFree
  <2>2. PICK b \in 0..hops - 1 : \E a \in 0..b - 1 : p[a] = p[b] /\ p[a] # 0
    BY <2>1 DEF InCycle
  <2>3. PICK a \in 0..b - 1 : p[a] = p[b] /\ p[a] # 0
    BY <2>2
  <2>4. a \in 0..hops /\ b \in a + 1..hops
    OBVIOUS
  <2> QED BY <2>3, <2>4 DEF Repeats
<1>2. Repeats(p, VisitCache - 1, hops - 1) => r.err = "CHASE_CYCLE"
  <2> SUFFICES ASSUME NEW a \in 0..VisitCache - 1, p[a] # 0,
                      NEW b \in a + 1..hops - 1, p[a] = p[b]
               PROVE r.err = "CHASE_CYCLE"
    BY DEF Repeats
  <2>1. ASSUME NEW c \in 0..hops, Dist(p, c), \A x \in c..m : p[x] = 0 \/ c = hops PROVE FALSE
    <3>1. CASE b < c
      <4>1. b \in 0..c - 1 /\ a \in 0..b - 1 /\ a < VisitCache
        BY <1>0, <3>1
      <4> QED BY <2>1, <4>1 DEF Dist
    <3>2. CASE ~(b < c)
      <4>1. b \in c..m /\ c # hops
        BY <3>2
      <4> QED BY <2>1, <4>1
    <3> QED BY <3>1, <3>2
  <2>2. ~OnWay(p, r, hops)
    <3> SUFFICES ASSUME OnWay(p, r, hops) PROVE FALSE
      OBVIOUS
    <3>1. Dist(p, hops) /\ hops \in 0..hops
      BY DEF OnWay
    <3> QED BY <2>1, <3>1
  <2>3. ~AtEnd(p, r, hops)
    <3> SUFFICES ASSUME AtEnd(p, r, hops) PROVE FALSE
      OBVIOUS
    <3>1. Dist(p, r.done) /\ r.done \in 0..hops /\ hops \in 0..m
      BY DEF AtEnd
    <3>2. \A x \in r.done..m : p[x] = 0
      BY <3>1, OverAfterEnd
    <3> QED BY <2>1, <3>1, <3>2
  <2>4. ~AtFree(p, r, hops)
    <3> SUFFICES ASSUME NEW c \in 0..hops - 1, p[c] = 0, Dist(p, c) PROVE FALSE
      BY DEF AtFree
    <3>1. c \in 0..hops /\ c \in 0..m
      OBVIOUS
    <3>2. \A x \in c..m : p[x] = 0
      BY <3>1, PathEnds
    <3> QED BY <2>1, <3>1, <3>2
  <2> QED BY <2>2, <2>3, <2>4 DEF Stands, InCycle
<1>3. ASSUME p[hops] # 0, ~Repeats(p, hops, hops)
      PROVE r.err = "OK" /\ r.at = p[hops] /\ r.done = hops
  <2>1. ~InCycle(p, r, hops)
    <3> SUFFICES ASSUME NEW b \in 0..hops - 1, NEW a \in 0..b - 1, p[a] = p[b], p[a] # 0
                 PROVE FALSE
      BY DEF InCycle
    <3>1. a \in 0..hops /\ b \in a + 1..hops
      OBVIOUS
    <3> QED BY <1>3, <3>1 DEF Repeats
  <2>2. ~AtFree(p, r, hops)
    <3> SUFFICES ASSUME NEW c \in 0..hops - 1, p[c] = 0 PROVE FALSE
      BY DEF AtFree
    <3>1. c \in 0..m /\ hops \in c..m
      OBVIOUS
    <3> QED BY <1>3, <3>1, PathEnds
  <2>3. ~AtEnd(p, r, hops)
    <3> SUFFICES ASSUME AtEnd(p, r, hops) PROVE FALSE
      OBVIOUS
    <3>1. hops \in 0..m /\ hops \in r.done..m
      BY DEF AtEnd
    <3> QED BY <1>3, <3>1, OverAfterEnd
  <2>4. OnWay(p, r, hops)
    BY <2>1, <2>2, <2>3 DEF Stands
  <2> QED BY <1>3, <2>4 DEF OnWay
<1>4. ASSUME r.err = "OK", r.end PROVE d.slot[r.at].next = 0 /\ r.at = p[r.done - 1]
  <2>1. AtEnd(p, r, hops)
    BY <1>4 DEF Stands, OnWay, InCycle, AtFree
  <2> QED BY <2>1 DEF AtEnd
<1> QED BY <1>1, <1>2, <1>3, <1>4 DEF Agrees

(* ef_chase_n and ef_chase agree (endfields.c:1302-1419): a cycle is       *)
(* reported only where the path of single hops has one, and is reported    *)
(* while the cache holds its first slot; without a cycle the walk comes to *)
(* the slot of as many single hops; a walk that ended early stands on the  *)
(* last slot of the links.  It holds of any links, so of every state.      *)
THEOREM ChaseTheorem == Spec => []ChaseAgrees
<1>1. ChaseAgrees
  <2>1. ASSUME NEW s \in Heads, NEW p, IsPath(p, s, MaxDepth)
        PROVE /\ Repeats(p, MaxDepth, MaxDepth) => ChaseN(s, MaxDepth + 1).err # "OK"
              /\ \A hops \in 1..MaxDepth : Agrees(p, hops, ChaseN(s, hops))
    <3>0. MaxDepth \in Nat /\ s # 0 /\ d.slot[s].status = "USED"
      BY BlobAssumption DEF Heads, Slots
    <3>1. Next0(p, MaxDepth)
      BY <2>1, <3>0, PathFacts
    <3>2. ASSUME Repeats(p, MaxDepth, MaxDepth) PROVE ChaseN(s, MaxDepth + 1).err # "OK"
      <4> DEFINE h == MaxDepth + 1
                 r == ChaseN(s, h)
      <4>1. h \in Nat /\ h > MaxDepth
        BY <3>0
      <4> HIDE DEF h
      <4>2. r = ChaseN(s, h)
        OBVIOUS
      <4> HIDE DEF r
      <4>3. r.err # "OK" \/ AtEnd(p, r, MaxDepth)
        BY <2>1, <3>0, <4>1, <4>2, ChaseStands
      <4>4. r.err # "OK"
        BY <3>0, <3>1, <3>2, <4>3, NoCycleAtEnd
      <4> QED BY <4>4 DEF r, h
    <3>3. ASSUME NEW hops \in 1..MaxDepth PROVE Agrees(p, hops, ChaseN(s, hops))
      <4> DEFINE r == ChaseN(s, hops)
      <4>1. hops \in Nat /\ hops <= MaxDepth
        BY <3>0
      <4>2. r = ChaseN(s, hops)
        OBVIOUS
      <4> HIDE DEF r
      <4>3. Stands(p, r, hops)
        BY <2>1, <3>0, <4>1, <4>2, ChaseStands
      <4>4. Agrees(p, hops, r)
        BY <3>0, <3>1, <4>3, StandsAgrees
      <4> QED BY <4>4 DEF r
    <3> QED BY <3>2, <3>3
  <2>2. ASSUME NEW s \in Heads
        PROVE LET path == CHOOSE p : IsPath(p, s, MaxDepth) IN
              /\ Repeats(path, MaxDepth, MaxDepth) => ChaseN(s, MaxDepth + 1).err # "OK"
              /\ \A hops \in 1..MaxDepth : Agrees(path, hops, ChaseN(s, hops))
    <3> DEFINE path == CHOOSE p : IsPath(p, s, MaxDepth)
    <3>1. IsPath(path, s, MaxDepth)
      BY BlobAssumption, PathExists
    <3> HIDE DEF path
    <3>2. /\ Repeats(path, MaxDepth, MaxDepth) => ChaseN(s, MaxDepth + 1).err # "OK"
          /\ \A hops \in 1..MaxDepth : Agrees(path, hops, ChaseN(s, hops))
      BY <2>1, <3>1
    <3> QED BY <3>2 DEF path
  <2> QED BY <2>2 DEF ChaseAgrees, IsPath, PathTurn, Repeats, Agrees
<1> QED BY <1>1, PTL
=============================================================================
