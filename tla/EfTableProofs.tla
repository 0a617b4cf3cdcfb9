--------------------------- MODULE EfTableProofs ---------------------------
(***************************************************************************)
(* Proofs about EfHashTable, for tables of every capacity, keys and slots: *)
(* what ef_index_put_entry, ef_index_remove_by_hash and the loop that      *)
(* refills a table in ef_index_rehash_to make of a table.                  *)
(***************************************************************************)
EXTENDS EfHashTable, FiniteSetTheorems, WellFoundedInduction, TLAPS

LOCAL INSTANCE FiniteSetsExt    \* Min

-----------------------------------------------------------------------------
(* Induction over the natural numbers, in the form used here: about sets,  *)
(* from the fact that every set of natural numbers that is not empty has a *)
(* least element.                                                          *)

(* Every set of natural numbers that is not empty has a least element; the *)
(* loops over slots and entries in src/src stop at the first one.          *)
LEMMA LeastNat ==
  ASSUME NEW T, T \subseteq Nat, T # {}
  PROVE \E n \in T : \A m \in T : n <= m
<1> DEFINE R == {ss \in Nat \X Nat : ss[1] < ss[2]}
<1>1. IsWellFoundedOn(R, Nat)
  BY NatLessThanWellFounded DEF OpToRel
<1>2. \A m, n \in Nat : m < n => <<m, n>> \in R
  OBVIOUS
<1> HIDE DEF R
<1>3. PICK x \in T : \A y \in T : ~(<<y, x>> \in R)
  BY <1>1, WFMin
<1>4. \A y \in T : y \in Nat
  OBVIOUS
<1>5. \A y \in T : x <= y
  <2>1. TAKE y \in T
  <2>2. x \in Nat /\ y \in Nat
    BY <1>4
  <2>3. ~(<<y, x>> \in R)
    BY <1>3
  <2>4. ~(y < x)
    BY <2>2, <2>3, <1>2
  <2> QED BY <2>2, <2>4
<1> QED BY <1>5

(* A set with 0 and with the successor of each of its numbers holds every  *)
(* natural number: what a loop of src/src keeps in each turn, it keeps.    *)
LEMMA SetInduction ==
  ASSUME NEW S, 0 \in S, \A n \in Nat : n \in S => n + 1 \in S
  PROVE \A n \in Nat : n \in S
<1>1. SUFFICES ASSUME NEW n \in Nat, n \notin S PROVE FALSE
  OBVIOUS
<1>2. PICK m \in {k \in Nat : k \notin S} : \A k \in {j \in Nat : j \notin S} : m <= k
  BY <1>1, LeastNat
<1>3. m # 0 /\ m \in Nat /\ m - 1 \in Nat /\ m - 1 \in S
  BY <1>2
<1> QED BY <1>2, <1>3

(* The same up to a bound: a loop of n turns.                              *)
LEMMA BoundedInduction ==
  ASSUME NEW n \in Nat, NEW S, 0 \in S, \A k \in 1..n : k - 1 \in S => k \in S
  PROVE n \in S
<1> DEFINE T == {k \in Nat : k <= n => k \in S}
<1>1. 0 \in T
  OBVIOUS
<1>2. ASSUME NEW k \in Nat, k \in T PROVE k + 1 \in T
  <2>1. CASE k + 1 <= n
    <3>1. k \in S /\ k + 1 \in 1..n /\ (k + 1) - 1 = k
      BY <1>2, <2>1
    <3>2. k + 1 \in S
      BY <3>1
    <3> QED BY <3>2
  <2>2. CASE ~(k + 1 <= n)
    BY <2>2
  <2> QED BY <2>1, <2>2
<1> HIDE DEF T
<1>3. n \in T
  BY <1>1, <1>2, SetInduction
<1> QED BY <1>3 DEF T

(* A function on 1..n is a sequence of length n.                           *)
LEMMA LenOfFunction ==
  ASSUME NEW n \in Nat, NEW S, NEW q \in [1..n -> S]
  PROVE q \in Seq(S) /\ Len(q) = n
OBVIOUS

-----------------------------------------------------------------------------
(* Positions and distances.                                                *)

Dist(c, k, p) == ProbeDist(c, Home(c, k), p)
Succ(c, p) == IF p = c - 1 THEN 0 ELSE p + 1
Pred(c, p) == IF p = 0 THEN c - 1 ELSE p - 1
Probe(c, k, n) == (Home(c, k) + n) % c

(* The least element of a set of natural numbers.                          *)
LEMMA LeastOf ==
  ASSUME NEW S, S \subseteq Nat, S # {}
  PROVE Min(S) \in S /\ \A y \in S : Min(S) <= y
BY LeastNat DEF Min

(* The remainder of a number below three times the capacity, as far as the *)
(* loop variable of ef_index_put_entry goes.                               *)
LEMMA SmallMod ==
  ASSUME NEW c \in Nat, c # 0, NEW x \in Nat
  PROVE /\ x % c \in 0..(c - 1)
        /\ x < c => x % c = x
        /\ x >= c /\ x < 2 * c => x % c = x - c
        /\ x >= 2 * c /\ x < 3 * c => x % c = x - 2 * c
<1>1. x % c \in 0..(c - 1)
  OBVIOUS
<1>2. ASSUME x < c PROVE x % c = x
  BY <1>2
<1>3. ASSUME x >= c, x < 2 * c PROVE x % c = x - c
  BY <1>3
<1>4. ASSUME x >= 2 * c, x < 3 * c PROVE x % c = x - 2 * c
  BY <1>4
<1> QED BY <1>1, <1>2, <1>3, <1>4

(* The loop goes from a position to the next one.                          *)
LEMMA NextPos ==
  ASSUME NEW c \in Nat, c # 0, NEW n \in Nat, n + 1 < 3 * c
  PROVE n % c \in 0..(c - 1) /\ (n + 1) % c = Succ(c, n % c)
<1> DEFINE y == n + 1
           a == n % c
           b == y % c
<1>1. y \in Nat /\ y = n + 1
  OBVIOUS
<1>2. /\ a \in 0..(c - 1)
      /\ n < c => a = n
      /\ n >= c /\ n < 2 * c => a = n - c
      /\ n >= 2 * c /\ n < 3 * c => a = n - 2 * c
  BY SmallMod
<1> HIDE DEF y
<1>3. /\ b \in 0..(c - 1)
      /\ y < c => b = y
      /\ y >= c /\ y < 2 * c => b = y - c
      /\ y >= 2 * c /\ y < 3 * c => b = y - 2 * c
  BY <1>1, SmallMod
<1> HIDE DEF a, b
<1>4. b = Succ(c, a)
  BY <1>1, <1>2, <1>3 DEF Succ
<1> QED BY <1>2, <1>4 DEF a, b, y

(* The distance from one position to another.                              *)
LEMMA DistOf ==
  ASSUME NEW c \in Nat, c # 0, NEW h \in 0..(c - 1), NEW p \in 0..(c - 1)
  PROVE ProbeDist(c, h, p) = IF p >= h THEN p - h ELSE p + c - h
<1> DEFINE y == p + c - h
           a == y % c
<1>1. y \in Nat /\ y = p + c - h
  OBVIOUS
<1> HIDE DEF y
<1>2. /\ y < c => a = y
      /\ y >= c /\ y < 2 * c => a = y - c
  BY <1>1, SmallMod
<1> HIDE DEF a
<1>3. a = IF p >= h THEN p - h ELSE p + c - h
  BY <1>1, <1>2
<1> QED BY <1>3 DEF a, y, ProbeDist

(* It is less than the capacity, grows by one from each position to the    *)
(* next, and tells positions apart.                                        *)
LEMMA GapFacts ==
  ASSUME NEW c \in Nat, c # 0, NEW h \in 0..(c - 1)
  PROVE /\ \A p \in 0..(c - 1) : ProbeDist(c, h, p) \in 0..(c - 1)
        /\ \A p \in 0..(c - 1) : Succ(c, p) \in 0..(c - 1) /\ Pred(c, p) \in 0..(c - 1)
        /\ \A p \in 0..(c - 1) : Pred(c, Succ(c, p)) = p /\ Succ(c, Pred(c, p)) = p
        /\ \A p \in 0..(c - 1) :
             ProbeDist(c, h, Succ(c, p)) =
               IF ProbeDist(c, h, p) = c - 1 THEN 0 ELSE ProbeDist(c, h, p) + 1
        /\ \A p \in 0..(c - 1) :
             ProbeDist(c, h, p) > 0 => ProbeDist(c, h, Pred(c, p)) = ProbeDist(c, h, p) - 1
        /\ \A p, q \in 0..(c - 1) : ProbeDist(c, h, p) = ProbeDist(c, h, q) => p = q
        /\ \A p \in 0..(c - 1) : ProbeDist(c, h, p) = 0 <=> p = h
<1>1. \A p \in 0..(c - 1) : ProbeDist(c, h, p) = IF p >= h THEN p - h ELSE p + c - h
  BY DistOf
<1>2. \A p \in 0..(c - 1) : Succ(c, p) \in 0..(c - 1) /\ Pred(c, p) \in 0..(c - 1)
  BY DEF Succ, Pred
<1>3. \A p \in 0..(c - 1) : Pred(c, Succ(c, p)) = p /\ Succ(c, Pred(c, p)) = p
  BY DEF Succ, Pred
<1>4. \A p \in 0..(c - 1) : ProbeDist(c, h, p) \in 0..(c - 1)
  BY <1>1
<1>5. \A p \in 0..(c - 1) :
        ProbeDist(c, h, Succ(c, p)) =
          IF ProbeDist(c, h, p) = c - 1 THEN 0 ELSE ProbeDist(c, h, p) + 1
  BY <1>1, <1>2 DEF Succ
<1>6. \A p \in 0..(c - 1) :
        ProbeDist(c, h, p) > 0 => ProbeDist(c, h, Pred(c, p)) = ProbeDist(c, h, p) - 1
  BY <1>1, <1>2 DEF Pred
<1>7. \A p, q \in 0..(c - 1) : ProbeDist(c, h, p) = ProbeDist(c, h, q) => p = q
  BY <1>1
<1>8. \A p \in 0..(c - 1) : ProbeDist(c, h, p) = 0 <=> p = h
  BY <1>1
<1> QED BY <1>2, <1>3, <1>4, <1>5, <1>6, <1>7, <1>8

(* The same from the home of a key, and the position at each distance.     *)
LEMMA DistFacts ==
  ASSUME NEW c \in Nat, c # 0, NEW k \in Nat
  PROVE /\ Home(c, k) \in 0..(c - 1)
        /\ \A p \in 0..(c - 1) : Dist(c, k, p) \in 0..(c - 1)
        /\ \A p \in 0..(c - 1) :
             Dist(c, k, Succ(c, p)) = IF Dist(c, k, p) = c - 1 THEN 0 ELSE Dist(c, k, p) + 1
        /\ \A p \in 0..(c - 1) : Dist(c, k, p) > 0 => Dist(c, k, Pred(c, p)) = Dist(c, k, p) - 1
        /\ \A p, q \in 0..(c - 1) : Dist(c, k, p) = Dist(c, k, q) => p = q
        /\ \A p \in 0..(c - 1) : Dist(c, k, p) = 0 <=> p = Home(c, k)
<1>1. Home(c, k) \in 0..(c - 1)
  BY SmallMod DEF Home
<1> QED BY <1>1, GapFacts DEF Dist

(* The position that a lookup tries after n others.                        *)
LEMMA ProbeFacts ==
  ASSUME NEW c \in Nat, c # 0, NEW k \in Nat, NEW n \in 0..(c - 1)
  PROVE Probe(c, k, n) \in 0..(c - 1) /\ Dist(c, k, Probe(c, k, n)) = n
<1> DEFINE h == Home(c, k)
           y == h + n
           q == y % c
<1>1. h \in 0..(c - 1)
  BY DistFacts
<1> HIDE DEF h
<1>2. y \in Nat /\ y < 2 * c /\ y = h + n
  BY <1>1
<1> HIDE DEF y
<1>3. q \in 0..(c - 1) /\ (y < c => q = y) /\ (y >= c /\ y < 2 * c => q = y - c)
  BY <1>2, SmallMod
<1> HIDE DEF q
<1>4. ProbeDist(c, h, q) = IF q >= h THEN q - h ELSE q + c - h
  BY <1>1, <1>3, DistOf
<1>5. ProbeDist(c, h, q) = n
  BY <1>1, <1>2, <1>3, <1>4
<1>6. Probe(c, k, n) = q
  BY DEF Probe, q, y, h
<1> QED BY <1>3, <1>5, <1>6 DEF Dist, h

(* Every position is tried, at its distance.                               *)
LEMMA ProbeAt ==
  ASSUME NEW c \in Nat, c # 0, NEW k \in Nat, NEW p \in 0..(c - 1)
  PROVE Probe(c, k, Dist(c, k, p)) = p
<1>1. Dist(c, k, p) \in 0..(c - 1)
  BY DistFacts
<1>2. Probe(c, k, Dist(c, k, p)) \in 0..(c - 1)
      /\ Dist(c, k, Probe(c, k, Dist(c, k, p))) = Dist(c, k, p)
  BY <1>1, ProbeFacts
<1> QED BY <1>2, DistFacts

-----------------------------------------------------------------------------
(* The order of a Robin Hood table: an entry that is not at home follows   *)
(* one that is at most by one nearer to its own home.  Around the end of   *)
(* the table this holds as everywhere else.                                *)
Cells(S) == [key : Nat, off : S]
Tables(c, S) == [0..(c - 1) -> Cells(S)]
Occ(T, p) == T[p].off # 0
Own(c, T, p) == Dist(c, T[p].key, p)

Ordered(c, T) ==
  \A p \in 0..(c - 1) :
    Occ(T, p) /\ Own(c, T, p) > 0 =>
      Occ(T, Pred(c, p)) /\ Own(c, T, Pred(c, p)) >= Own(c, T, p) - 1

(* No key is stored twice.                                                 *)
Distinct(c, T) ==
  \A p, q \in 0..(c - 1) : Occ(T, p) /\ Occ(T, q) /\ T[p].key = T[q].key => p = q

Sound(c, T) == Ordered(c, T) /\ Distinct(c, T)

NoKey(c, T, k) == \A p \in 0..(c - 1) : Occ(T, p) => T[p].key # k
In(c, T, e) == \E p \in 0..(c - 1) : Occ(T, p) /\ T[p] = e

(* The number of positions is the capacity.                                *)
LEMMA CapacityIs ==
  ASSUME NEW c \in Nat, c # 0, NEW T, DOMAIN T = 0..(c - 1)
  PROVE Capacity(T) = c
<1>1. Cardinality(0..(c - 1)) = IF 0 > c - 1 THEN 0 ELSE (c - 1) - 0 + 1
  BY FS_Interval
<1> QED BY <1>1 DEF Capacity

(* Cells have a key and distances.                                         *)
LEMMA OwnType ==
  ASSUME NEW c \in Nat, c # 0, NEW S, NEW T \in Tables(c, S), NEW p \in 0..(c - 1)
  PROVE T[p].key \in Nat /\ T[p].off \in S /\ Own(c, T, p) \in 0..(c - 1)
<1>1. T[p] \in Cells(S)
  BY DEF Tables
<1>2. T[p].key \in Nat /\ T[p].off \in S
  BY <1>1 DEF Cells
<1> QED BY <1>2, DistFacts DEF Own

(* From the home of a key to the position where it is there is no gap, and *)
(* none of the entries in between is nearer to its home than the key would *)
(* be there: neither lookups nor ef_index_put_entry can stop before.       *)
LEMMA Chain ==
  ASSUME NEW c \in Nat, c # 0, NEW S, NEW T \in Tables(c, S), Ordered(c, T),
         NEW p \in 0..(c - 1), Occ(T, p), NEW k, k = T[p].key
  PROVE \A q \in 0..(c - 1) :
          Dist(c, k, q) <= Dist(c, k, p) => Occ(T, q) /\ Own(c, T, q) >= Dist(c, k, q)
<1>1. k \in Nat
  BY OwnType
<1>7. \A q, r \in 0..(c - 1) : Dist(c, k, q) = Dist(c, k, r) => q = r
  BY <1>1, DistFacts
<1>8. \A q \in 0..(c - 1) : Dist(c, k, q) \in 0..(c - 1)
  BY <1>1, DistFacts
<1>9. \A q \in 0..(c - 1) :
        Dist(c, k, Succ(c, q)) = IF Dist(c, k, q) = c - 1 THEN 0 ELSE Dist(c, k, q) + 1
  BY <1>1, DistFacts
<1> DEFINE D == Dist(c, k, p)
           A == {m \in 0..D : \A q \in 0..(c - 1) :
                   Dist(c, k, q) = D - m => Occ(T, q) /\ Own(c, T, q) >= Dist(c, k, q)}
<1>2. D \in 0..(c - 1)
  BY <1>8
<1>3. 0 \in A
  <2>1. ASSUME NEW q \in 0..(c - 1), Dist(c, k, q) = D - 0
        PROVE Occ(T, q) /\ Own(c, T, q) >= Dist(c, k, q)
    <3>1. Dist(c, k, q) = Dist(c, k, p)
      BY <1>2, <2>1
    <3>2. q = p
      BY <1>7, <3>1
    <3> QED BY <1>2, <2>1, <3>2 DEF Own
  <2> QED BY <1>2, <2>1
<1> HIDE DEF D
<1>4. ASSUME NEW m \in 1..D, m - 1 \in A PROVE m \in A
  <2>1. ASSUME NEW q \in 0..(c - 1), Dist(c, k, q) = D - m
        PROVE Occ(T, q) /\ Own(c, T, q) >= Dist(c, k, q)
    <3>1. Succ(c, q) \in 0..(c - 1) /\ Pred(c, Succ(c, q)) = q
      BY <1>1, DistFacts, GapFacts
    <3>2. Dist(c, k, Succ(c, q)) = D - (m - 1)
      <4>1. Dist(c, k, q) # c - 1
        BY <1>2, <2>1
      <4>2. Dist(c, k, Succ(c, q)) = Dist(c, k, q) + 1
        BY <1>9, <4>1
      <4> QED BY <1>2, <2>1, <4>2
    <3>3. Occ(T, Succ(c, q)) /\ Own(c, T, Succ(c, q)) >= D - (m - 1)
      BY <1>4, <3>1, <3>2
    <3>4. Own(c, T, Succ(c, q)) \in Int /\ Own(c, T, q) \in Int
      BY <3>1, OwnType
    <3>5. Own(c, T, Succ(c, q)) > 0
      BY <1>2, <3>3, <3>4
    <3>6. Occ(T, q) /\ Own(c, T, q) >= Own(c, T, Succ(c, q)) - 1
      BY <3>1, <3>3, <3>5 DEF Ordered
    <3> QED BY <1>2, <2>1, <3>3, <3>4, <3>6
  <2> QED BY <1>2, <2>1
<1> HIDE DEF A
<1>5. ASSUME NEW m \in 0..D PROVE m \in A
  <2>1. m \in Nat /\ \A j \in 1..m : j - 1 \in A => j \in A
    BY <1>2, <1>4
  <2> QED BY <1>3, <2>1, BoundedInduction
<1>6. ASSUME NEW q \in 0..(c - 1), Dist(c, k, q) <= D
      PROVE Occ(T, q) /\ Own(c, T, q) >= Dist(c, k, q)
  <2>1. Dist(c, k, q) \in 0..(c - 1)
    BY <1>1, DistFacts
  <2>2. D - Dist(c, k, q) \in 0..D /\ D - (D - Dist(c, k, q)) = Dist(c, k, q)
    BY <1>2, <1>6, <2>1
  <2>3. D - Dist(c, k, q) \in A
    BY <1>5, <2>2
  <2> QED BY <2>2, <2>3 DEF A
<1> QED BY <1>6 DEF D

-----------------------------------------------------------------------------
(* The loop of ef_index_put_entry, which puts k with s into T: W is the    *)
(* table so far, x the entry that looks for a place, n the loop variable.  *)
Cell(k, s) == [key |-> k, off |-> s]

(* x is not ahead of the entry behind it.                                  *)
Behind(c, W, x, p) ==
  Dist(c, x.key, p) > 0 =>
    Occ(W, Pred(c, p)) /\ Own(c, W, Pred(c, p)) >= Dist(c, x.key, p) - 1

(* Only k itself can be in the table already, and then it is ahead.        *)
Ahead(c, W, x, k, n) ==
  \A p \in 0..(c - 1) :
    Occ(W, p) /\ W[p].key = x.key => x.key = k /\ n <= Home(c, k) + Dist(c, k, p)

(* As long as k looks for a place, nothing has changed.                    *)
First(T, k, s, W, x) == x.key = k => W = T /\ x = Cell(k, s)

(* Once it has one, k was not there before, and the loop is on its way     *)
(* from there to whatever position is free.                                *)
Later(c, T, k, W, x, pos) ==
  x.key # k =>
    /\ NoKey(c, T, k)
    /\ \A p, f \in 0..(c - 1) : Occ(W, p) /\ W[p].key = k /\ ~Occ(T, f) =>
         1 <= ProbeDist(c, p, pos) /\ ProbeDist(c, p, pos) <= ProbeDist(c, p, f)

SameOcc(c, T, W) == \A p \in 0..(c - 1) : Occ(W, p) <=> Occ(T, p)

(* No entry has been lost or made up.                                      *)
Kept(c, T, k, s, W, x) ==
  \A e : (In(c, W, e) \/ e = x) <=> (In(c, T, e) \/ e = Cell(k, s))

PutLoop(c, T, k, s, W, x, n) ==
  /\ Sound(c, W)
  /\ x.off # 0
  /\ Behind(c, W, x, n % c)
  /\ Ahead(c, W, x, k, n)
  /\ First(T, k, s, W, x)
  /\ Later(c, T, k, W, x, n % c)
  /\ SameOcc(c, T, W)
  /\ Kept(c, T, k, s, W, x)

(* The results: k took a free position, or the place of the entry it had,  *)
(* or the loop gave up and the entry it was left with is not in the table. *)
PutAdded(c, T, k, s, V) ==
  /\ Sound(c, V) /\ NoKey(c, T, k)
  /\ \E f \in 0..(c - 1) : /\ ~Occ(T, f) /\ Occ(V, f)
                           /\ \A p \in 0..(c - 1) : p # f => (Occ(V, p) <=> Occ(T, p))
  /\ \A e : In(c, V, e) <=> In(c, T, e) \/ e = Cell(k, s)

PutReplaced(c, T, k, s, V) ==
  /\ Sound(c, V) /\ SameOcc(c, T, V)
  /\ \A e : In(c, V, e) => In(c, T, e) \/ e = Cell(k, s)
  /\ (\E f \in 0..(c - 1) : ~Occ(T, f)) \/ ~NoKey(c, T, k) =>
       \E p \in 0..(c - 1) : Occ(T, p) /\ T[p].key = k /\ V = [T EXCEPT ![p] = Cell(k, s)]

PutFull(c, T, k, s, V) ==
  /\ Sound(c, V) /\ SameOcc(c, T, V) /\ NoKey(c, T, k)
  /\ \/ V = T
     \/ \E x : /\ In(c, T, x) /\ x.key # k /\ NoKey(c, V, x.key)
               /\ \A e : (In(c, V, e) \/ e = x) <=> (In(c, T, e) \/ e = Cell(k, s))

(* While the loop goes from the home of k once around, it is at the        *)
(* position that lies as far from there as it has come.                    *)
LEMMA LoopDist ==
  ASSUME NEW c \in Nat, c # 0, NEW k \in Nat, NEW n \in Nat,
         Home(c, k) <= n, n < Home(c, k) + c
  PROVE Dist(c, k, n % c) = n - Home(c, k)
<1> DEFINE m == n - Home(c, k)
<1>1. Home(c, k) \in 0..(c - 1)
  BY DistFacts
<1>2. m \in 0..(c - 1) /\ Home(c, k) + m = n
  BY <1>1
<1> HIDE DEF m
<1>3. Dist(c, k, Probe(c, k, m)) = m
  BY <1>2, ProbeFacts
<1>4. Probe(c, k, m) = n % c
  BY <1>2 DEF Probe
<1> QED BY <1>3, <1>4 DEF m

(* Where the loop stores an entry, no other has its key: a key further on  *)
(* would have no gap before it and no entry that gives way.                *)
LEMMA NoneAhead ==
  ASSUME NEW c \in Nat, c # 0, NEW S, NEW W \in Tables(c, S), Sound(c, W),
         NEW x \in Cells(S), NEW k \in Nat, NEW n \in Nat, Home(c, k) <= n,
         Ahead(c, W, x, k, n),
         Occ(W, n % c) => Dist(c, x.key, n % c) > Own(c, W, n % c)
  PROVE NoKey(c, W, x.key)
<1> DEFINE pos == n % c
<1>1. SUFFICES ASSUME NEW p \in 0..(c - 1), Occ(W, p), W[p].key = x.key PROVE FALSE
  BY DEF NoKey
<1>2. x.key = k /\ n <= Home(c, k) + Dist(c, k, p)
  BY <1>1 DEF Ahead
<1>3. pos \in 0..(c - 1)
  BY SmallMod
<1>4. Dist(c, k, p) \in 0..(c - 1) /\ Home(c, k) \in 0..(c - 1)
  BY DistFacts
<1>5. n < Home(c, k) + c
  BY <1>2, <1>4
<1>6. Dist(c, k, pos) = n - Home(c, k)
  BY <1>5, LoopDist
<1> HIDE DEF pos
<1>7. Dist(c, k, pos) <= Dist(c, k, p)
  BY <1>2, <1>4, <1>6
<1>8. Occ(W, pos) /\ Own(c, W, pos) >= Dist(c, k, pos)
  BY <1>1, <1>2, <1>3, <1>7, Chain DEF Sound
<1>9. Dist(c, k, pos) > Own(c, W, pos)
  BY <1>2, <1>8 DEF pos
<1>10. Own(c, W, pos) \in Int /\ Dist(c, k, pos) \in Int
  BY <1>3, <1>4, <1>6, OwnType
<1> QED BY <1>8, <1>9, <1>10

(* A store at a free position, or over an entry that is nearer to its      *)
(* home, keeps the table in order.                                         *)
LEMMA StoreSound ==
  ASSUME NEW c \in Nat, c # 0, NEW S, NEW W \in Tables(c, S), Sound(c, W),
         NEW x \in Cells(S), x.off # 0, NoKey(c, W, x.key), NEW pos \in 0..(c - 1),
         Behind(c, W, x, pos),
         Occ(W, pos) => Dist(c, x.key, pos) > Own(c, W, pos)
  PROVE Sound(c, [W EXCEPT ![pos] = x])
<1> DEFINE V == [W EXCEPT ![pos] = x]
<1>1. V \in Tables(c, S) /\ V[pos] = x /\ \A p \in 0..(c - 1) : p # pos => V[p] = W[p]
  BY DEF Tables
<1> HIDE DEF V
<1>2. Own(c, V, pos) = Dist(c, x.key, pos) /\ Occ(V, pos)
      /\ \A p \in 0..(c - 1) : p # pos => Own(c, V, p) = Own(c, W, p) /\ (Occ(V, p) <=> Occ(W, p))
  BY <1>1 DEF Own, Occ
<1>3. ASSUME NEW p \in 0..(c - 1), Occ(V, p), Own(c, V, p) > 0
      PROVE Occ(V, Pred(c, p)) /\ Own(c, V, Pred(c, p)) >= Own(c, V, p) - 1
  <2>1. Pred(c, p) \in 0..(c - 1) /\ Pred(c, pos) \in 0..(c - 1)
    BY DEF Pred
  <2>2. Own(c, V, p) \in 0..(c - 1) /\ Own(c, W, pos) \in Int
    BY <1>1, OwnType
  <2>3. c # 1
    BY <1>3, <2>2
  <2>4. Pred(c, p) # p
    BY <2>3 DEF Pred
  <2>5. CASE p = pos
    <3>1. Occ(W, Pred(c, pos)) /\ Own(c, W, Pred(c, pos)) >= Dist(c, x.key, pos) - 1
      BY <1>2, <1>3, <2>5 DEF Behind
    <3> QED BY <1>2, <2>1, <2>4, <2>5, <3>1
  <2>6. CASE p # pos
    <3>1. Occ(W, p) /\ Own(c, W, p) > 0 /\ Own(c, V, p) = Own(c, W, p)
      BY <1>2, <1>3, <2>6
    <3>2. Occ(W, Pred(c, p)) /\ Own(c, W, Pred(c, p)) >= Own(c, W, p) - 1
      BY <3>1 DEF Sound, Ordered
    <3>3. CASE Pred(c, p) # pos
      BY <1>2, <2>1, <3>1, <3>2, <3>3
    <3>4. CASE Pred(c, p) = pos
      <4>1. Own(c, V, pos) > Own(c, W, pos)
        BY <1>2, <3>2, <3>4
      <4>2. Own(c, V, pos) \in Int
        BY <1>1, OwnType
      <4> QED BY <1>2, <2>2, <3>1, <3>2, <3>4, <4>1, <4>2
    <3> QED BY <3>3, <3>4
  <2> QED BY <2>5, <2>6
<1>4. ASSUME NEW p \in 0..(c - 1), NEW q \in 0..(c - 1), Occ(V, p), Occ(V, q), V[p].key = V[q].key
      PROVE p = q
  <2>1. CASE p # pos /\ q # pos
    BY <1>1, <1>2, <1>4, <2>1 DEF Sound, Distinct
  <2>2. CASE p # pos /\ q = pos
    BY <1>1, <1>2, <1>4, <2>2 DEF NoKey
  <2>3. CASE p = pos /\ q # pos
    BY <1>1, <1>2, <1>4, <2>3 DEF NoKey
  <2> QED BY <2>1, <2>2, <2>3
<1> QED BY <1>3, <1>4 DEF Sound, Ordered, Distinct, V

(* What a store at pos does to the set of entries.                         *)
LEMMA StoreIn ==
  ASSUME NEW c \in Nat, c # 0, NEW S, NEW W \in Tables(c, S), NEW x \in Cells(S), x.off # 0,
         NEW pos \in 0..(c - 1)
  PROVE LET V == [W EXCEPT ![pos] = x] IN
        /\ V \in Tables(c, S)
        /\ \A e : In(c, V, e) => In(c, W, e) \/ e = x
        /\ \A e : In(c, W, e) \/ e = x => In(c, V, e) \/ (Occ(W, pos) /\ e = W[pos])
        /\ In(c, V, x)
<1> DEFINE V == [W EXCEPT ![pos] = x]
<1>1. V \in Tables(c, S) /\ V[pos] = x /\ \A p \in 0..(c - 1) : p # pos => V[p] = W[p]
  BY DEF Tables
<1> HIDE DEF V
<1>2. Occ(V, pos) /\ \A p \in 0..(c - 1) : p # pos => (Occ(V, p) <=> Occ(W, p))
  BY <1>1 DEF Occ
<1>3. \A e : In(c, V, e) => In(c, W, e) \/ e = x
  BY <1>1, <1>2 DEF In
<1>4. In(c, V, x)
  BY <1>1, <1>2 DEF In
<1>5. \A e : In(c, W, e) => In(c, V, e) \/ (Occ(W, pos) /\ e = W[pos])
  BY <1>1, <1>2 DEF In
<1> QED BY <1>1, <1>3, <1>4, <1>5 DEF V

(* The loop has gone around, or meets an entry whose home it has passed.   *)
LEMMA PutGivesUp ==
  ASSUME NEW c \in Nat, c # 0, NEW S, NEW T \in Tables(c, S), NEW k \in Nat, NEW s,
         NEW W \in Tables(c, S), NEW x \in Cells(S), NEW n \in Nat,
         PutLoop(c, T, k, s, W, x, n), n >= Home(c, x.key) + c
  PROVE PutFull(c, T, k, s, W)
<1>1. Sound(c, W) /\ SameOcc(c, T, W)
  BY DEF PutLoop
<1>2. CASE x.key = k
  <2>1. W = T
    BY <1>2 DEF PutLoop, First
  <2>2. ASSUME NEW p \in 0..(c - 1), Occ(W, p), W[p].key = k PROVE FALSE
    <3>1. n <= Home(c, k) + Dist(c, k, p)
      BY <1>2, <2>2 DEF PutLoop, Ahead
    <3>2. Dist(c, k, p) \in 0..(c - 1) /\ Home(c, k) \in 0..(c - 1)
      BY DistFacts
    <3> QED BY <1>2, <3>1, <3>2
  <2> QED BY <1>1, <2>1, <2>2 DEF PutFull, NoKey
<1>3. CASE x.key # k
  <2>1. NoKey(c, T, k)
    BY <1>3 DEF PutLoop, Later
  <2>2. NoKey(c, W, x.key)
    BY <1>3 DEF PutLoop, Ahead, NoKey
  <2>3. \A e : (In(c, W, e) \/ e = x) <=> (In(c, T, e) \/ e = Cell(k, s))
    BY DEF PutLoop, Kept
  <2>4. In(c, T, x)
    BY <1>3, <2>3 DEF Cell
  <2> QED BY <1>1, <1>3, <2>1, <2>2, <2>3, <2>4 DEF PutFull
<1> QED BY <1>2, <1>3

(* The loop arrives at an empty position.                                  *)
LEMMA PutAdds ==
  ASSUME NEW c \in Nat, c # 0, NEW S, NEW T \in Tables(c, S), NEW k \in Nat, NEW s,
         NEW W \in Tables(c, S), NEW x \in Cells(S), NEW n \in Nat, Home(c, k) <= n,
         PutLoop(c, T, k, s, W, x, n), ~Occ(W, n % c)
  PROVE PutAdded(c, T, k, s, [W EXCEPT ![n % c] = x])
<1> DEFINE pos == n % c
           V == [W EXCEPT ![pos] = x]
<1>1. pos \in 0..(c - 1)
  BY SmallMod
<1>2. NoKey(c, W, x.key)
  BY NoneAhead DEF PutLoop
<1>3. Behind(c, W, x, pos) /\ ~Occ(W, pos) /\ Sound(c, W) /\ x.off # 0
  BY DEF PutLoop
<1> HIDE DEF pos
<1>4. Sound(c, V)
  BY <1>1, <1>2, <1>3, StoreSound
<1>5. V[pos] = x /\ \A p \in 0..(c - 1) : p # pos => V[p] = W[p]
  BY <1>1 DEF Tables
<1>6. \A e : In(c, V, e) <=> In(c, W, e) \/ e = x
  BY <1>1, <1>3, StoreIn
<1> HIDE DEF V
<1>7. Occ(V, pos) /\ \A p \in 0..(c - 1) : p # pos => (Occ(V, p) <=> Occ(W, p))
  BY <1>3, <1>5 DEF Occ
<1>8. SameOcc(c, T, W) /\ Kept(c, T, k, s, W, x)
  BY DEF PutLoop
<1>9. ~Occ(T, pos) /\ \A p \in 0..(c - 1) : p # pos => (Occ(V, p) <=> Occ(T, p))
  BY <1>1, <1>3, <1>7, <1>8 DEF SameOcc
<1>10. \A e : In(c, V, e) <=> In(c, T, e) \/ e = Cell(k, s)
  BY <1>6, <1>8 DEF Kept
<1>11. NoKey(c, T, k)
  <2>1. CASE x.key = k
    BY <1>2, <2>1 DEF PutLoop, First
  <2>2. CASE x.key # k
    BY <2>2 DEF PutLoop, Later
  <2> QED BY <2>1, <2>2
<1>12. PutAdded(c, T, k, s, V)
  BY <1>1, <1>4, <1>7, <1>9, <1>10, <1>11 DEF PutAdded
<1> QED BY <1>12 DEF V, pos

(* The loop meets the key.                                                 *)
LEMMA PutReplaces ==
  ASSUME NEW c \in Nat, c # 0, NEW S, NEW T \in Tables(c, S), NEW k \in Nat, NEW s, s # 0,
         Cell(k, s) \in Cells(S),
         NEW W \in Tables(c, S), NEW x \in Cells(S), NEW n \in Nat,
         PutLoop(c, T, k, s, W, x, n), Occ(W, n % c), W[n % c].key = k
  PROVE PutReplaced(c, T, k, s, [W EXCEPT ![n % c] = Cell(k, s)])
<1> DEFINE pos == n % c
           V == [W EXCEPT ![pos] = Cell(k, s)]
<1>1. pos \in 0..(c - 1)
  BY SmallMod
<1>2. Sound(c, W) /\ SameOcc(c, T, W) /\ Kept(c, T, k, s, W, x) /\ First(T, k, s, W, x)
      /\ Later(c, T, k, W, x, pos) /\ Occ(W, pos) /\ W[pos].key = k
  BY DEF PutLoop
<1> HIDE DEF pos
<1>3. Cell(k, s).key = k /\ Cell(k, s).off = s
  BY DEF Cell
<1>4. V[pos] = Cell(k, s) /\ \A p \in 0..(c - 1) : p # pos => V[p] = W[p]
  BY <1>1 DEF Tables
<1>5. \A e : In(c, V, e) => In(c, W, e) \/ e = Cell(k, s)
  BY <1>1, <1>3, StoreIn
<1>6. x.key = k => V = [T EXCEPT ![pos] = Cell(k, s)]
  BY <1>2 DEF First
<1> HIDE DEF V
<1>7. \A p \in 0..(c - 1) : V[p].key = W[p].key /\ (Occ(V, p) <=> Occ(W, p))
  BY <1>2, <1>3, <1>4 DEF Occ
<1>8. \A p \in 0..(c - 1) : Own(c, V, p) = Own(c, W, p) /\ Pred(c, p) \in 0..(c - 1)
  BY <1>7 DEF Own, Pred
<1>9. Ordered(c, V)
  BY <1>2, <1>7, <1>8 DEF Sound, Ordered
<1>10. Distinct(c, V)
  BY <1>2, <1>7 DEF Sound, Distinct
<1>11. SameOcc(c, T, V)
  BY <1>2, <1>7 DEF SameOcc
<1>12. \A e : In(c, V, e) => In(c, T, e) \/ e = Cell(k, s)
  BY <1>2, <1>5 DEF Kept
<1>13. ASSUME (\E f \in 0..(c - 1) : ~Occ(T, f)) \/ ~NoKey(c, T, k)
       PROVE Occ(T, pos) /\ T[pos].key = k /\ V = [T EXCEPT ![pos] = Cell(k, s)]
  <2>1. ProbeDist(c, pos, pos) = 0
    BY <1>1, GapFacts
  <2>2. x.key = k
    BY <1>1, <1>2, <1>13, <2>1 DEF Later
  <2>3. W = T
    BY <1>2, <2>2 DEF First
  <2> QED BY <1>2, <1>6, <2>2, <2>3
<1>14. PutReplaced(c, T, k, s, V)
  BY <1>1, <1>9, <1>10, <1>11, <1>12, <1>13 DEF PutReplaced, Sound
<1> QED BY <1>14 DEF V, pos

(* Of two positions that the loop comes to, the first one first.           *)
LEMMA GapGrows ==
  ASSUME NEW c \in Nat, c # 0, NEW p \in 0..(c - 1), NEW f \in 0..(c - 1), NEW pos \in 0..(c - 1),
         pos # f, ProbeDist(c, p, pos) <= ProbeDist(c, p, f)
  PROVE 1 <= ProbeDist(c, p, Succ(c, pos)) /\ ProbeDist(c, p, Succ(c, pos)) <= ProbeDist(c, p, f)
<1>1. ProbeDist(c, p, pos) \in 0..(c - 1) /\ ProbeDist(c, p, f) \in 0..(c - 1)
  BY GapFacts
<1>2. ProbeDist(c, p, pos) # ProbeDist(c, p, f)
  BY GapFacts
<1>3. ProbeDist(c, p, Succ(c, pos)) = IF ProbeDist(c, p, pos) = c - 1 THEN 0 ELSE ProbeDist(c, p, pos) + 1
  BY GapFacts
<1> QED BY <1>1, <1>2, <1>3

(* The loop displaces an entry that is nearer to its home.                 *)
LEMMA PutDisplaces ==
  ASSUME NEW c \in Nat, c # 0, NEW S, NEW T \in Tables(c, S), NEW k \in Nat, NEW s,
         NEW W \in Tables(c, S), NEW x \in Cells(S), NEW n \in Nat, Home(c, k) <= n,
         n + 1 < 3 * c,
         PutLoop(c, T, k, s, W, x, n), Occ(W, n % c), W[n % c].key # k,
         Dist(c, x.key, n % c) > Own(c, W, n % c)
  PROVE PutLoop(c, T, k, s, [W EXCEPT ![n % c] = x], W[n % c], n + 1)
<1> DEFINE pos == n % c
           next == (n + 1) % c
           V == [W EXCEPT ![pos] = x]
           y == W[pos]
<1>1. pos \in 0..(c - 1) /\ next = Succ(c, pos)
  BY NextPos
<1>2. NoKey(c, W, x.key)
  BY NoneAhead DEF PutLoop
<1>3. /\ Behind(c, W, x, pos) /\ Occ(W, pos) /\ Sound(c, W) /\ x.off # 0
      /\ SameOcc(c, T, W) /\ Kept(c, T, k, s, W, x) /\ First(T, k, s, W, x)
      /\ Later(c, T, k, W, x, pos) /\ y.key # k /\ Dist(c, x.key, pos) > Own(c, W, pos)
  BY DEF PutLoop
<1> HIDE DEF pos, next
<1>4. Sound(c, V)
  BY <1>1, <1>2, <1>3, StoreSound
<1>5. V[pos] = x /\ \A p \in 0..(c - 1) : p # pos => V[p] = W[p]
  BY <1>1 DEF Tables
<1>6. /\ \A e : In(c, V, e) => In(c, W, e) \/ e = x
      /\ \A e : In(c, W, e) \/ e = x => In(c, V, e) \/ e = y
  <2>1. \A e : In(c, V, e) => In(c, W, e) \/ e = x
    BY <1>1, <1>3, StoreIn
  <2>2. \A e : In(c, W, e) \/ e = x => In(c, V, e) \/ (Occ(W, pos) /\ e = W[pos])
    BY <1>1, <1>3, StoreIn
  <2> HIDE DEF V
  <2> QED BY <2>1, <2>2
<1>7. In(c, W, y)
  BY <1>1, <1>3 DEF In
<1> HIDE DEF V, y
<1>8. \A p \in 0..(c - 1) : Occ(V, p) <=> Occ(W, p)
  BY <1>3, <1>5 DEF Occ
<1>9. y.off # 0
  BY <1>3 DEF Occ, y
<1>10. Behind(c, V, y, next)
  <2>1. y.key \in Nat /\ Own(c, W, pos) = Dist(c, y.key, pos) /\ Own(c, W, pos) \in 0..(c - 1)
    BY <1>1, OwnType DEF y, Own
  <2>2. Dist(c, y.key, next) = IF Dist(c, y.key, pos) = c - 1 THEN 0 ELSE Dist(c, y.key, pos) + 1
    <3>1. \A q \in 0..(c - 1) :
            Dist(c, y.key, Succ(c, q)) = IF Dist(c, y.key, q) = c - 1 THEN 0 ELSE Dist(c, y.key, q) + 1
      BY <2>1, DistFacts
    <3> QED BY <1>1, <3>1
  <2>3. Pred(c, next) = pos
    BY <1>1, GapFacts
  <2>4. Own(c, V, pos) = Dist(c, x.key, pos) /\ Occ(V, pos)
    BY <1>1, <1>3, <1>5, <1>8 DEF Own
  <2>5. x.key \in Nat
    BY DEF Cells
  <2>6. Dist(c, x.key, pos) \in 0..(c - 1)
    BY <1>1, <2>5, DistFacts
  <2>7. Dist(c, y.key, next) > 0 => Own(c, V, pos) >= Dist(c, y.key, next) - 1
    BY <1>3, <2>1, <2>2, <2>4, <2>6
  <2> QED BY <2>3, <2>4, <2>7 DEF Behind
<1>11. Ahead(c, V, y, k, n + 1)
  <2>1. ASSUME NEW p \in 0..(c - 1), Occ(V, p), V[p].key = y.key PROVE FALSE
    <3>1. CASE p = pos
      BY <1>1, <1>2, <1>3, <1>5, <2>1, <3>1 DEF NoKey, y
    <3>2. CASE p # pos
      BY <1>1, <1>3, <1>5, <1>8, <2>1, <3>2 DEF Sound, Distinct, y
    <3> QED BY <3>1, <3>2
  <2> QED BY <2>1 DEF Ahead
<1>12. First(T, k, s, V, y)
  BY <1>3 DEF First
<1>13. NoKey(c, T, k)
  <2>1. CASE x.key = k
    BY <1>2, <1>3, <2>1 DEF First
  <2>2. CASE x.key # k
    BY <1>3, <2>2 DEF Later
  <2> QED BY <2>1, <2>2
<1>14. ASSUME NEW p \in 0..(c - 1), NEW f \in 0..(c - 1), Occ(V, p), V[p].key = k, ~Occ(T, f)
       PROVE 1 <= ProbeDist(c, p, next) /\ ProbeDist(c, p, next) <= ProbeDist(c, p, f)
  <2>1. pos # f
    BY <1>1, <1>3, <1>14 DEF SameOcc
  <2>2. ProbeDist(c, p, pos) <= ProbeDist(c, p, f)
    <3>1. CASE p = pos
      <4>1. ProbeDist(c, p, p) = 0
        BY GapFacts
      <4>2. ProbeDist(c, p, f) \in 0..(c - 1)
        BY GapFacts
      <4> QED BY <3>1, <4>1, <4>2
    <3>2. CASE p # pos
      <4>1. Occ(W, p) /\ W[p].key = k
        BY <1>5, <1>8, <1>14, <3>2
      <4>2. x.key # k
        BY <1>2, <4>1 DEF NoKey
      <4> QED BY <1>3, <1>14, <4>1, <4>2 DEF Later
    <3> QED BY <3>1, <3>2
  <2> QED BY <1>1, <2>1, <2>2, GapGrows
<1>15. Later(c, T, k, V, y, next)
  BY <1>13, <1>14 DEF Later
<1>16. SameOcc(c, T, V)
  BY <1>3, <1>8 DEF SameOcc
<1>17. \A e : (In(c, V, e) \/ e = y) <=> (In(c, W, e) \/ e = x)
  BY <1>6, <1>7
<1>18. Kept(c, T, k, s, V, y)
  BY <1>3, <1>17 DEF Kept
<1>19. PutLoop(c, T, k, s, V, y, n + 1)
  BY <1>4, <1>9, <1>10, <1>11, <1>12, <1>15, <1>16, <1>18 DEF PutLoop, next
<1> QED BY <1>19 DEF V, y, pos

(* The loop passes an entry that is at least as far from its home.         *)
LEMMA PutPasses ==
  ASSUME NEW c \in Nat, c # 0, NEW S, NEW T \in Tables(c, S), NEW k \in Nat, NEW s,
         NEW W \in Tables(c, S), NEW x \in Cells(S), NEW n \in Nat, Home(c, k) <= n,
         n + 1 < 3 * c,
         PutLoop(c, T, k, s, W, x, n), Occ(W, n % c), W[n % c].key # k,
         ~(Dist(c, x.key, n % c) > Own(c, W, n % c))
  PROVE PutLoop(c, T, k, s, W, x, n + 1)
<1> DEFINE pos == n % c
           next == (n + 1) % c
<1>1. pos \in 0..(c - 1) /\ next = Succ(c, pos)
  BY NextPos
<1>2. /\ Ahead(c, W, x, k, n) /\ Occ(W, pos) /\ W[pos].key # k
      /\ SameOcc(c, T, W) /\ Later(c, T, k, W, x, pos) /\ ~(Dist(c, x.key, pos) > Own(c, W, pos))
  BY DEF PutLoop
<1>3. x.key \in Nat
  BY DEF Cells
<1>4. \A p \in 0..(c - 1) : n = Home(c, k) + Dist(c, k, p) => p = pos
  <2>1. ASSUME NEW p \in 0..(c - 1), n = Home(c, k) + Dist(c, k, p) PROVE p = pos
    <3>1. Dist(c, k, p) \in 0..(c - 1)
      BY DistFacts
    <3>2. Probe(c, k, Dist(c, k, p)) = p
      BY ProbeAt
    <3> QED BY <2>1, <3>2 DEF Probe
  <2> QED BY <2>1
<1> HIDE DEF pos, next
<1>5. Behind(c, W, x, next)
  <2>1. Own(c, W, pos) \in 0..(c - 1)
    BY <1>1, OwnType
  <2>2. Dist(c, x.key, pos) \in 0..(c - 1)
        /\ Dist(c, x.key, next) = IF Dist(c, x.key, pos) = c - 1 THEN 0 ELSE Dist(c, x.key, pos) + 1
    <3>1. \A q \in 0..(c - 1) :
            Dist(c, x.key, Succ(c, q)) = IF Dist(c, x.key, q) = c - 1 THEN 0 ELSE Dist(c, x.key, q) + 1
      BY <1>3, DistFacts
    <3>2. \A q \in 0..(c - 1) : Dist(c, x.key, q) \in 0..(c - 1)
      BY <1>3, DistFacts
    <3> QED BY <1>1, <3>1, <3>2
  <2>3. Pred(c, next) = pos
    BY <1>1, GapFacts
  <2>4. Dist(c, x.key, next) > 0 => Own(c, W, pos) >= Dist(c, x.key, next) - 1
    BY <1>2, <2>1, <2>2
  <2> QED BY <1>2, <2>3, <2>4 DEF Behind
<1>6. Ahead(c, W, x, k, n + 1)
  <2>1. ASSUME NEW p \in 0..(c - 1), Occ(W, p), W[p].key = x.key
        PROVE x.key = k /\ n + 1 <= Home(c, k) + Dist(c, k, p)
    <3>1. x.key = k /\ n <= Home(c, k) + Dist(c, k, p)
      BY <1>2, <2>1 DEF Ahead
    <3>2. p # pos
      BY <1>2, <2>1, <3>1
    <3>3. n # Home(c, k) + Dist(c, k, p)
      BY <1>4, <3>2
    <3>4. Home(c, k) \in 0..(c - 1) /\ Dist(c, k, p) \in 0..(c - 1)
      BY DistFacts
    <3> QED BY <3>1, <3>3, <3>4
  <2> QED BY <2>1 DEF Ahead
<1>7. Later(c, T, k, W, x, next)
  <2>1. ASSUME x.key # k, NEW p \in 0..(c - 1), NEW f \in 0..(c - 1),
               Occ(W, p), W[p].key = k, ~Occ(T, f)
        PROVE 1 <= ProbeDist(c, p, next) /\ ProbeDist(c, p, next) <= ProbeDist(c, p, f)
    <3>1. pos # f
      BY <1>1, <1>2, <2>1 DEF SameOcc
    <3>2. ProbeDist(c, p, pos) <= ProbeDist(c, p, f)
      BY <1>2, <2>1 DEF Later
    <3> QED BY <1>1, <3>1, <3>2, GapGrows
  <2> QED BY <1>2, <2>1 DEF Later
<1> QED BY <1>5, <1>6, <1>7 DEF PutLoop, next

PutStates(c, S) ==
  [table : Tables(c, S), incoming : Cells(S), home : 0..(c - 1), added : BOOLEAN,
   err : {"LOOP", "OK", "INDEX_FULL"}]

PutDone(c, T, k, s, st) ==
  \/ st.err = "OK" /\ st.added /\ PutAdded(c, T, k, s, st.table)
  \/ st.err = "OK" /\ ~st.added /\ PutReplaced(c, T, k, s, st.table)
  \/ st.err = "INDEX_FULL" /\ ~st.added /\ PutFull(c, T, k, s, st.table)

PutGood(c, T, k, s, st, n) ==
  \/ /\ st.err = "LOOP" /\ ~st.added /\ st.home = Home(c, st.incoming.key)
     /\ PutLoop(c, T, k, s, st.table, st.incoming, n)
  \/ PutDone(c, T, k, s, st)

(* A turn of the loop of ef_index_put_entry.                               *)
LEMMA PutStepGood ==
  ASSUME NEW c \in Nat, c # 0, NEW S, NEW T \in Tables(c, S), NEW k \in Nat, NEW s, s # 0,
         Cell(k, s) \in Cells(S), NEW st \in PutStates(c, S), NEW n \in Nat,
         Home(c, k) <= n, n + 1 < 3 * c, PutGood(c, T, k, s, st, n)
  PROVE /\ PutStep(k, s, st, n) \in PutStates(c, S)
        /\ PutGood(c, T, k, s, PutStep(k, s, st, n), n + 1)
        /\ n >= 2 * c - 1 => PutDone(c, T, k, s, PutStep(k, s, st, n))
<1> DEFINE pos == n % c
           W == st.table
           x == st.incoming
           y == W[pos]
           r1 == [st EXCEPT !.err = "INDEX_FULL"]
           r2 == [st EXCEPT !.table[pos] = x, !.added = TRUE, !.err = "OK"]
           r3 == [st EXCEPT !.table[pos] = [key |-> k, off |-> s], !.err = "OK"]
           r4 == [st EXCEPT !.table[pos] = x, !.incoming = y, !.home = Home(c, y.key)]
           r == PutStep(k, s, st, n)
<1>1. W \in Tables(c, S) /\ x \in Cells(S) /\ st.home \in 0..(c - 1) /\ st.added \in BOOLEAN
  BY DEF PutStates
<1>2. Capacity(W) = c
  BY <1>1, CapacityIs DEF Tables
<1>3. pos \in 0..(c - 1)
  BY SmallMod
<1>4. CASE st.err # "LOOP"
  <2>1. r = st
    BY <1>4 DEF PutStep
  <2>2. PutDone(c, T, k, s, st)
    BY <1>4 DEF PutGood
  <2> HIDE DEF r
  <2> QED BY <2>1, <2>2 DEF PutGood, r
<1>5. CASE st.err = "LOOP"
  <2>1. ~st.added /\ st.home = Home(c, x.key) /\ PutLoop(c, T, k, s, W, x, n)
    BY <1>5 DEF PutGood, PutDone
  <2>2. y.key \in Nat /\ y \in Cells(S) /\ Own(c, W, pos) = Dist(c, y.key, pos)
    BY <1>1, <1>3, OwnType DEF Own, Tables
  <2>3. Home(c, y.key) \in 0..(c - 1)
    BY <2>2, DistFacts
  <2>4. r = IF n >= st.home + c THEN r1
            ELSE IF ~Occ(W, pos) THEN r2
            ELSE IF y.key = k THEN r3
            ELSE IF Dist(c, x.key, pos) > Own(c, W, pos) THEN r4
            ELSE st
    BY <1>2, <1>5, <2>1, <2>2 DEF PutStep, Occ, Dist
  <2>5. r1 \in PutStates(c, S) /\ r1.table = W /\ r1.err = "INDEX_FULL" /\ r1.added = st.added
    BY DEF PutStates
  <2>6. /\ r2 \in PutStates(c, S) /\ r2.table = [W EXCEPT ![pos] = x]
        /\ r2.err = "OK" /\ r2.added = TRUE
    BY <1>1, <1>3 DEF PutStates, Tables
  <2>7. /\ r3 \in PutStates(c, S) /\ r3.table = [W EXCEPT ![pos] = Cell(k, s)]
        /\ r3.err = "OK" /\ r3.added = st.added
    BY <1>1, <1>3 DEF PutStates, Tables, Cell
  <2>8. /\ r4 \in PutStates(c, S) /\ r4.table = [W EXCEPT ![pos] = x] /\ r4.incoming = y
        /\ r4.home = Home(c, y.key) /\ r4.err = st.err /\ r4.added = st.added
    BY <1>1, <1>3, <2>2, <2>3 DEF PutStates, Tables
  <2> HIDE DEF r, r1, r2, r3, r4
  <2>9. CASE n >= st.home + c
    <3>1. PutFull(c, T, k, s, W)
      BY <1>1, <2>1, <2>9, PutGivesUp
    <3>2. r = r1
      BY <2>4, <2>9
    <3>3. PutDone(c, T, k, s, r)
      BY <2>1, <2>5, <3>1, <3>2 DEF PutDone
    <3> QED BY <2>5, <3>2, <3>3 DEF PutGood, r
  <2>10. CASE ~(n >= st.home + c) /\ ~Occ(W, pos)
    <3>1. PutAdded(c, T, k, s, [W EXCEPT ![pos] = x])
      BY <1>1, <2>1, <2>10, PutAdds
    <3>2. r = r2
      BY <2>4, <2>10
    <3>3. PutDone(c, T, k, s, r)
      BY <2>6, <3>1, <3>2 DEF PutDone
    <3> QED BY <2>6, <3>2, <3>3 DEF PutGood, r
  <2>11. CASE ~(n >= st.home + c) /\ Occ(W, pos) /\ y.key = k
    <3>1. PutReplaced(c, T, k, s, [W EXCEPT ![pos] = Cell(k, s)])
      BY <1>1, <2>1, <2>11, PutReplaces
    <3>2. r = r3
      BY <2>4, <2>11
    <3>3. PutDone(c, T, k, s, r)
      BY <2>1, <2>7, <3>1, <3>2 DEF PutDone
    <3> QED BY <2>7, <3>2, <3>3 DEF PutGood, r
  <2>12. n >= 2 * c - 1 => n >= st.home + c
    BY <1>1
  <2>13. CASE ~(n >= st.home + c) /\ Occ(W, pos) /\ y.key # k /\ Dist(c, x.key, pos) > Own(c, W, pos)
    <3>1. PutLoop(c, T, k, s, [W EXCEPT ![pos] = x], y, n + 1)
      BY <1>1, <2>1, <2>13, PutDisplaces
    <3>2. r = r4
      BY <2>4, <2>13
    <3>3. PutGood(c, T, k, s, r, n + 1)
      BY <1>5, <2>1, <2>8, <3>1, <3>2 DEF PutGood
    <3> QED BY <2>8, <2>12, <2>13, <3>2, <3>3 DEF r
  <2>14. CASE ~(n >= st.home + c) /\ Occ(W, pos) /\ y.key # k /\ ~(Dist(c, x.key, pos) > Own(c, W, pos))
    <3>1. PutLoop(c, T, k, s, W, x, n + 1)
      BY <1>1, <2>1, <2>14, PutPasses
    <3>2. r = st
      BY <2>4, <2>14
    <3>3. PutGood(c, T, k, s, r, n + 1)
      BY <1>5, <2>1, <3>1, <3>2 DEF PutGood
    <3> QED BY <2>12, <2>14, <3>2, <3>3 DEF r
  <2> QED BY <2>9, <2>10, <2>11, <2>13, <2>14
<1> QED BY <1>4, <1>5

(* The loop before its first turn.                                         *)
LEMMA PutStartGood ==
  ASSUME NEW c \in Nat, c # 0, NEW S, NEW T \in Tables(c, S), Sound(c, T),
         NEW k \in Nat, NEW s, s # 0, Cell(k, s) \in Cells(S)
  PROVE /\ PutStart(T, k, s) \in PutStates(c, S)
        /\ PutGood(c, T, k, s, PutStart(T, k, s), Home(c, k))
<1> DEFINE st == PutStart(T, k, s)
           x == Cell(k, s)
           h == Home(c, k)
<1>1. Capacity(T) = c
  BY CapacityIs DEF Tables
<1>2. h \in 0..(c - 1)
  BY DistFacts
<1>3. x.key = k /\ x.off = s
  BY DEF Cell
<1>4. st = [table |-> T, incoming |-> x, home |-> h, added |-> FALSE, err |-> "LOOP"]
  BY <1>1 DEF PutStart, Cell
<1>5. h % c = h
  BY <1>2, SmallMod
<1> HIDE DEF x, h, st
<1>6. st \in PutStates(c, S) /\ st.table = T /\ st.incoming = x /\ st.home = h /\ ~st.added
      /\ st.err = "LOOP"
  BY <1>2, <1>4 DEF PutStates, x
<1>7. Behind(c, T, x, h)
  <2>1. Dist(c, k, h) = 0
    BY <1>2, DistFacts DEF h
  <2> QED BY <1>3, <2>1 DEF Behind
<1>8. Ahead(c, T, x, k, h)
  <2>1. \A p \in 0..(c - 1) : Dist(c, k, p) \in 0..(c - 1)
    BY DistFacts
  <2>2. \A p \in 0..(c - 1) : h <= Home(c, k) + Dist(c, k, p)
    BY <1>2, <2>1 DEF h
  <2> QED BY <1>3, <2>2 DEF Ahead
<1>9. First(T, k, s, T, x) /\ Later(c, T, k, T, x, h) /\ SameOcc(c, T, T) /\ Kept(c, T, k, s, T, x)
  BY <1>3 DEF First, Later, SameOcc, Kept, x
<1>10. PutLoop(c, T, k, s, T, x, h)
  BY <1>3, <1>5, <1>7, <1>8, <1>9 DEF PutLoop
<1>11. PutGood(c, T, k, s, st, h)
  BY <1>3, <1>6, <1>10 DEF PutGood, h
<1> QED BY <1>6, <1>11 DEF st, h

-----------------------------------------------------------------------------
(* The loops.  A recursive function on 0..n is what its turns make of it,  *)
(* and what each turn keeps, the loop keeps.                               *)

(* The turns of ef_index_put_entry.                                        *)
IsPut(f, T, k, s, n) ==
  f = [m \in 0..n |->
         IF m = 0 THEN PutStart(T, k, s)
         ELSE PutStep(k, s, f[m - 1], Home(Capacity(T), k) + m - 1)]

(* There is such a function.                                               *)
LEMMA PutExists ==
  ASSUME NEW T, NEW k, NEW s
  PROVE \A n \in Nat : \E f : IsPut(f, T, k, s, n)
<1> DEFINE S == {n \in Nat : \E f : IsPut(f, T, k, s, n)}
           h == Home(Capacity(T), k)
<1>1. 0 \in S
  <2> DEFINE f == [m \in 0..0 |-> PutStart(T, k, s)]
  <2>1. f = [m \in 0..0 |-> IF m = 0 THEN PutStart(T, k, s) ELSE PutStep(k, s, f[m - 1], h + m - 1)]
    OBVIOUS
  <2> QED BY <2>1 DEF IsPut
<1>2. ASSUME NEW n \in Nat, n \in S PROVE n + 1 \in S
  <2>1. PICK f : IsPut(f, T, k, s, n)
    BY <1>2
  <2> DEFINE g == [m \in 0..n + 1 |->
                     IF m = 0 THEN PutStart(T, k, s) ELSE PutStep(k, s, f[m - 1], h + m - 1)]
  <2>2. \A m \in 0..n : g[m] = f[m]
    BY <2>1 DEF IsPut
  <2>3. \A m \in 0..n + 1 : m # 0 => m - 1 \in 0..n
    OBVIOUS
  <2>4. g = [m \in 0..n + 1 |->
               IF m = 0 THEN PutStart(T, k, s) ELSE PutStep(k, s, g[m - 1], h + m - 1)]
    BY <2>2, <2>3
  <2>5. IsPut(g, T, k, s, n + 1)
    BY <2>4 DEF IsPut
  <2> HIDE DEF g
  <2> QED BY <2>5
<1> HIDE DEF S
<1>3. \A n \in Nat : n \in S
  BY <1>1, <1>2, SetInduction
<1> QED BY <1>3 DEF S

(* ef_index_put_entry: it ends, and in one of the three ways.              *)
LEMMA PutEntryGood ==
  ASSUME NEW c \in Nat, c # 0, NEW S, NEW T \in Tables(c, S), Sound(c, T),
         NEW k \in Nat, NEW s, s # 0, Cell(k, s) \in Cells(S)
  PROVE PutEntry(T, k, s) \in PutStates(c, S) /\ PutDone(c, T, k, s, PutEntry(T, k, s))
<1> DEFINE f == CHOOSE g : IsPut(g, T, k, s, 2 * c)
           h == Home(c, k)
           A == {m \in 0..(2 * c) : /\ f[m] \in PutStates(c, S)
                                    /\ PutGood(c, T, k, s, f[m], h + m)
                                    /\ m = 2 * c => PutDone(c, T, k, s, f[m])}
<1>1. Capacity(T) = c
  BY CapacityIs DEF Tables
<1>2. PutEntry(T, k, s) = f[2 * c]
  BY <1>1 DEF PutEntry, IsPut
<1>3. 2 * c \in Nat /\ 2 * c # 0
  OBVIOUS
<1>4. IsPut(f, T, k, s, 2 * c)
  BY <1>3, PutExists
<1> HIDE DEF f
<1>5. h \in 0..(c - 1)
  BY DistFacts
<1>6. 0 \in A
  <2>1. f[0] = PutStart(T, k, s)
    BY <1>4 DEF IsPut
  <2>2. h + 0 = h /\ 0 \in 0..(2 * c) /\ 0 # 2 * c
    BY <1>3, <1>5
  <2>3. f[0] \in PutStates(c, S) /\ PutGood(c, T, k, s, f[0], h)
    BY <2>1, PutStartGood
  <2> HIDE DEF h
  <2> QED BY <2>2, <2>3
<1>7. ASSUME NEW m \in 1..(2 * c), m - 1 \in A PROVE m \in A
  <2> DEFINE n == h + (m - 1)
  <2>1. f[m] = PutStep(k, s, f[m - 1], Home(c, k) + m - 1)
    BY <1>1, <1>4 DEF IsPut
  <2>2. n \in Nat /\ h <= n /\ n + 1 < 3 * c /\ n = Home(c, k) + m - 1 /\ n + 1 = h + m
    BY <1>5
  <2>3. m = 2 * c => n >= 2 * c - 1
    BY <1>5
  <2>4. f[m - 1] \in PutStates(c, S) /\ PutGood(c, T, k, s, f[m - 1], n)
    BY <1>7
  <2> HIDE DEF n
  <2>5. f[m] = PutStep(k, s, f[m - 1], n)
    BY <2>1, <2>2
  <2>6. f[m] \in PutStates(c, S) /\ PutGood(c, T, k, s, f[m], n + 1)
        /\ (n >= 2 * c - 1 => PutDone(c, T, k, s, f[m]))
    BY <2>2, <2>4, <2>5, PutStepGood
  <2> HIDE DEF h
  <2> QED BY <2>2, <2>3, <2>6
<1> HIDE DEF A
<1>8. 2 * c \in A
  BY <1>3, <1>6, <1>7, BoundedInduction
<1> QED BY <1>2, <1>3, <1>8 DEF A

-----------------------------------------------------------------------------
(* Lookups.                                                                *)

(* What a lookup finds is an entry of the table with the key.              *)
LEMMA FoundIs ==
  ASSUME NEW c \in Nat, c # 0, NEW T, DOMAIN T = 0..(c - 1), NEW k \in Nat, Found(T, k)
  PROVE /\ FindPos(T, k) \in 0..(c - 1)
        /\ Find(T, k) = T[FindPos(T, k)]
        /\ Occ(T, FindPos(T, k)) /\ T[FindPos(T, k)].key = k
<1> DEFINE stops == {m \in 0..(c - 1) : T[Probe(c, k, m)].off = 0 \/ T[Probe(c, k, m)].key = k}
<1>1. Capacity(T) = c
  BY CapacityIs
<1>2. FindPos(T, k) = IF stops = {} THEN -1 ELSE Probe(c, k, Min(stops))
  BY <1>1 DEF FindPos, Probe
<1>3. FindPos(T, k) # -1
  BY DEF Found, Find, Empty
<1>4. stops # {} /\ stops \subseteq Nat
  BY <1>2, <1>3
<1>5. \A m \in stops : m \in 0..(c - 1) /\ (T[Probe(c, k, m)].off = 0 \/ T[Probe(c, k, m)].key = k)
  OBVIOUS
<1> HIDE DEF stops
<1>6. Min(stops) \in stops
  BY <1>4, LeastOf
<1>7. FindPos(T, k) = Probe(c, k, Min(stops))
  BY <1>2, <1>4
<1>8. Probe(c, k, Min(stops)) \in 0..(c - 1)
  BY <1>5, <1>6, ProbeFacts
<1>9. Find(T, k) = T[FindPos(T, k)]
  BY <1>3 DEF Find
<1>10. T[FindPos(T, k)].off # 0
  BY <1>9 DEF Found
<1>11. T[FindPos(T, k)].key = k
  BY <1>5, <1>6, <1>7, <1>10
<1> QED BY <1>7, <1>8, <1>9, <1>10, <1>11 DEF Occ

(* Every entry of a table in order is the one that a lookup of its key     *)
(* arrives at.                                                             *)
LEMMA SoundFinds ==
  ASSUME NEW c \in Nat, c # 0, NEW S, NEW T \in Tables(c, S), Sound(c, T),
         NEW p \in 0..(c - 1), Occ(T, p)
  PROVE FindPos(T, T[p].key) = p /\ Find(T, T[p].key) = T[p]
<1> DEFINE k == T[p].key
           D == Dist(c, k, p)
           stops == {m \in 0..(c - 1) : T[Probe(c, k, m)].off = 0 \/ T[Probe(c, k, m)].key = k}
<1>1. Capacity(T) = c /\ k \in Nat
  BY CapacityIs, OwnType DEF Tables
<1>2. FindPos(T, k) = IF stops = {} THEN -1 ELSE Probe(c, k, Min(stops))
  BY <1>1 DEF FindPos, Probe
<1>3. \A q \in 0..(c - 1) : Dist(c, k, q) <= D => Occ(T, q)
  BY Chain DEF Sound
<1> HIDE DEF k
<1>4. D \in 0..(c - 1) /\ Probe(c, k, D) = p
  BY <1>1, DistFacts, ProbeAt
<1> HIDE DEF D
<1>5. D \in stops
  BY <1>4 DEF k
<1>6. ASSUME NEW m \in stops, m < D PROVE FALSE
  <2>1. m \in 0..(c - 1)
    OBVIOUS
  <2>2. Probe(c, k, m) \in 0..(c - 1) /\ Dist(c, k, Probe(c, k, m)) = m
    BY <1>1, <2>1, ProbeFacts
  <2>3. Occ(T, Probe(c, k, m))
    BY <1>3, <1>4, <1>6, <2>1, <2>2
  <2>4. T[Probe(c, k, m)].key = k
    BY <2>3 DEF Occ
  <2>5. Probe(c, k, m) = p
    BY <2>2, <2>3, <2>4 DEF Sound, Distinct, k
  <2> QED BY <1>6, <2>1, <2>2, <2>5 DEF D
<1>7. stops \subseteq Nat /\ stops # {}
  BY <1>5
<1> HIDE DEF stops
<1>8. Min(stops) \in stops /\ Min(stops) <= D
  BY <1>5, <1>7, LeastOf
<1>9. Min(stops) = D
  <2>1. ~(Min(stops) < D)
    BY <1>6, <1>8
  <2>2. Min(stops) \in Nat
    BY <1>7, <1>8
  <2> QED BY <1>4, <1>8, <2>1, <2>2
<1>10. FindPos(T, k) = p /\ p # -1
  <2>1. FindPos(T, k) = Probe(c, k, Min(stops))
    BY <1>2, <1>7
  <2> QED BY <1>4, <1>9, <2>1
<1>11. Find(T, k) = T[p]
  BY <1>10 DEF Find
<1> QED BY <1>10, <1>11 DEF k

(* A key that no entry has is not found.                                   *)
LEMMA NoKeyFinds ==
  ASSUME NEW c \in Nat, c # 0, NEW T, DOMAIN T = 0..(c - 1), NEW k \in Nat, NoKey(c, T, k)
  PROVE ~Found(T, k) /\ Find(T, k).off = 0
BY FoundIs DEF NoKey, Found

(* The entry that a lookup finds, in terms of the set of entries.          *)
LEMMA FindIn ==
  ASSUME NEW c \in Nat, c # 0, NEW S, NEW T \in Tables(c, S), Sound(c, T), NEW k \in Nat
  PROVE /\ \A e : In(c, T, e) /\ e.key = k => Find(T, k) = e /\ Found(T, k)
        /\ (\A e : In(c, T, e) => e.key # k) => Find(T, k).off = 0 /\ NoKey(c, T, k)
        /\ Found(T, k) => In(c, T, Find(T, k)) /\ Find(T, k).key = k
<1>1. ASSUME NEW e, In(c, T, e), e.key = k PROVE Find(T, k) = e /\ Found(T, k)
  <2>1. PICK p \in 0..(c - 1) : Occ(T, p) /\ T[p] = e
    BY <1>1 DEF In
  <2> QED BY <1>1, <2>1, SoundFinds DEF Found, Occ
<1>2. ASSUME \A e : In(c, T, e) => e.key # k PROVE Find(T, k).off = 0 /\ NoKey(c, T, k)
  <2>1. NoKey(c, T, k)
    BY <1>2 DEF In, NoKey
  <2> QED BY <2>1, NoKeyFinds DEF Tables
<1>3. ASSUME Found(T, k) PROVE In(c, T, Find(T, k)) /\ Find(T, k).key = k
  <2>1. DOMAIN T = 0..(c - 1)
    BY DEF Tables
  <2> QED BY <1>3, <2>1, FoundIs DEF In
<1> QED BY <1>1, <1>2, <1>3

-----------------------------------------------------------------------------
(* ef_index_remove_by_hash.                                                *)

(* The loop stops before an entry that is at home, or an empty position.   *)
Ends(c, T, q) == ~Occ(T, q) \/ Own(c, T, q) = 0

(* The loop that takes the entry at p out of T, while it goes on: W is the *)
(* table so far, and the cell at q, of which there is a copy or which is   *)
(* the entry to remove, is the gap.  The order holds across the gap too.   *)
GapOrder(c, W, q) ==
  /\ \A x \in 0..(c - 1) :
       x # q /\ x # Succ(c, q) /\ Occ(W, x) /\ Own(c, W, x) > 0 =>
         Occ(W, Pred(c, x)) /\ Own(c, W, Pred(c, x)) >= Own(c, W, x) - 1
  /\ Occ(W, Succ(c, q)) /\ Own(c, W, Succ(c, q)) > 1 =>
       Occ(W, Pred(c, q)) /\ Own(c, W, Pred(c, q)) >= Own(c, W, Succ(c, q)) - 2

GapDistinct(c, W, q) ==
  \A x, y \in 0..(c - 1) :
    x # q /\ y # q /\ Occ(W, x) /\ Occ(W, y) /\ W[x].key = W[y].key => x = y

(* But for the gap, the table has the entries that are to stay.            *)
GapKept(c, T, p, W, q) ==
  \A e : (\E x \in 0..(c - 1) : x # q /\ Occ(W, x) /\ W[x] = e) <=> (In(c, T, e) /\ e # T[p])

ShiftLoop(c, T, p, W, q) ==
  /\ SameOcc(c, T, W) /\ Occ(W, q)
  /\ GapOrder(c, W, q)
  /\ GapDistinct(c, W, q)
  /\ GapKept(c, T, p, W, q)

(* The result: one entry less, and the table in order.                     *)
ShiftDone(c, T, p, V) ==
  /\ Sound(c, V)
  /\ \A e : In(c, V, e) <=> In(c, T, e) /\ e # T[p]
  /\ \E f \in 0..(c - 1) : /\ Occ(T, f) /\ ~Occ(V, f)
                           /\ \A q \in 0..(c - 1) : q # f => (Occ(V, q) <=> Occ(T, q))

(* Before the first turn.                                                  *)
LEMMA ShiftStartGood ==
  ASSUME NEW c \in Nat, c # 0, NEW S, NEW T \in Tables(c, S), Sound(c, T),
         NEW p \in 0..(c - 1), Occ(T, p)
  PROVE ShiftLoop(c, T, p, T, p)
<1>1. \A q \in 0..(c - 1) : Pred(c, q) \in 0..(c - 1) /\ Succ(c, q) \in 0..(c - 1)
        /\ Succ(c, Pred(c, q)) = q /\ Pred(c, Succ(c, q)) = q
  BY GapFacts
<1>2. \A q \in 0..(c - 1) : Own(c, T, q) \in 0..(c - 1)
  BY OwnType
<1>3. ASSUME Occ(T, Succ(c, p)), Own(c, T, Succ(c, p)) > 1
      PROVE Occ(T, Pred(c, p)) /\ Own(c, T, Pred(c, p)) >= Own(c, T, Succ(c, p)) - 2
  <2>1. Own(c, T, Succ(c, p)) > 0
    BY <1>1, <1>2, <1>3
  <2>2. Own(c, T, p) >= Own(c, T, Succ(c, p)) - 1
    BY <1>1, <1>3, <2>1 DEF Sound, Ordered
  <2>3. Own(c, T, p) > 0
    BY <1>1, <1>2, <1>3, <2>2
  <2>4. Occ(T, Pred(c, p)) /\ Own(c, T, Pred(c, p)) >= Own(c, T, p) - 1
    BY <2>3 DEF Sound, Ordered
  <2> QED BY <1>1, <1>2, <2>2, <2>4
<1>4. GapOrder(c, T, p)
  BY <1>3 DEF GapOrder, Sound, Ordered
<1>5. GapDistinct(c, T, p)
  BY DEF GapDistinct, Sound, Distinct
<1>6. GapKept(c, T, p, T, p)
  <2>1. \A x \in 0..(c - 1) : x # p /\ Occ(T, x) => T[x] # T[p]
    BY DEF Sound, Distinct
  <2> QED BY <2>1 DEF GapKept, In
<1> QED BY <1>4, <1>5, <1>6 DEF ShiftLoop, SameOcc

(* An entry moves into the gap.                                            *)
LEMMA ShiftMoves ==
  ASSUME NEW c \in Nat, c # 0, NEW S, NEW T \in Tables(c, S), NEW p \in 0..(c - 1),
         NEW W \in Tables(c, S), NEW q \in 0..(c - 1), ShiftLoop(c, T, p, W, q),
         NEW r, r = Succ(c, q), ~Ends(c, W, r),
         NEW V, V = [W EXCEPT ![q] = W[r]]
  PROVE /\ V \in Tables(c, S) /\ ShiftLoop(c, T, p, V, r)
        /\ r # q /\ Own(c, V, q) = Own(c, W, r) - 1
        /\ \A x \in 0..(c - 1) : x # q => V[x] = W[x]
<1>1. \A x \in 0..(c - 1) : Pred(c, x) \in 0..(c - 1) /\ Succ(c, x) \in 0..(c - 1)
        /\ Succ(c, Pred(c, x)) = x /\ Pred(c, Succ(c, x)) = x
  BY GapFacts
<1>2. \A x \in 0..(c - 1) : Own(c, W, x) \in 0..(c - 1)
  BY OwnType
<1>3. r \in 0..(c - 1) /\ Pred(c, r) = q /\ Occ(W, r) /\ Own(c, W, r) > 0
  BY <1>1, <1>2 DEF Ends
<1>4. c > 1 /\ r # q
  BY <1>2, <1>3 DEF Succ
<1>5. V[q] = W[r] /\ \A x \in 0..(c - 1) : x # q => V[x] = W[x]
  BY DEF Tables
<1>6. V \in Tables(c, S)
  BY <1>3 DEF Tables
<1>7. Own(c, V, q) = Own(c, W, r) - 1
  <2>1. W[r].key \in Nat
    BY <1>3, OwnType
  <2>3. Dist(c, W[r].key, r) > 0
    BY <1>3 DEF Own
  <2> DEFINE k == W[r].key
  <2> HIDE DEF k
  <2>4. Dist(c, k, r) > 0 => Dist(c, k, Pred(c, r)) = Dist(c, k, r) - 1
    BY <1>3, <2>1, DistFacts DEF k
  <2>2. Dist(c, W[r].key, Pred(c, r)) = Dist(c, W[r].key, r) - 1
    BY <2>3, <2>4 DEF k
  <2> QED BY <1>3, <1>5, <2>2 DEF Own
<1>8. \A x \in 0..(c - 1) : x # q => (Occ(V, x) <=> Occ(W, x)) /\ Own(c, V, x) = Own(c, W, x)
  BY <1>5 DEF Occ, Own
<1>9. Occ(V, q) /\ Occ(V, r) /\ Occ(W, q)
  BY <1>3, <1>4, <1>5 DEF Occ, ShiftLoop
<1>10. SameOcc(c, T, V)
  BY <1>8, <1>9 DEF ShiftLoop, SameOcc
<1>11. ASSUME NEW x \in 0..(c - 1), x # r, x # Succ(c, r), Occ(V, x), Own(c, V, x) > 0
       PROVE Occ(V, Pred(c, x)) /\ Own(c, V, Pred(c, x)) >= Own(c, V, x) - 1
  <2>1. CASE x = q
    <3>1. Own(c, W, r) > 1
      BY <1>2, <1>3, <1>7, <1>11, <2>1
    <3>2. Occ(W, Pred(c, q)) /\ Own(c, W, Pred(c, q)) >= Own(c, W, r) - 2
      BY <1>3, <3>1 DEF ShiftLoop, GapOrder
    <3>3. Pred(c, q) # q
      BY <1>4 DEF Pred
    <3>4. Own(c, V, Pred(c, q)) = Own(c, W, Pred(c, q)) /\ Occ(V, Pred(c, q))
      BY <1>1, <1>8, <3>2, <3>3
    <3> QED BY <1>1, <1>2, <1>3, <1>7, <2>1, <3>2, <3>4
  <2>2. CASE x # q
    <3>1. Occ(W, x) /\ Own(c, W, x) > 0 /\ Own(c, V, x) = Own(c, W, x)
      BY <1>8, <1>11, <2>2
    <3>2. Occ(W, Pred(c, x)) /\ Own(c, W, Pred(c, x)) >= Own(c, W, x) - 1
      BY <1>11, <2>2, <3>1 DEF ShiftLoop, GapOrder
    <3>3. Pred(c, x) # q
      BY <1>1, <1>11
    <3> QED BY <1>1, <1>8, <3>1, <3>2, <3>3
  <2> QED BY <2>1, <2>2
<1>12. ASSUME Occ(V, Succ(c, r)), Own(c, V, Succ(c, r)) > 1
       PROVE Occ(V, Pred(c, r)) /\ Own(c, V, Pred(c, r)) >= Own(c, V, Succ(c, r)) - 2
  <2> DEFINE s == Succ(c, r)
  <2>1. s \in 0..(c - 1) /\ s # r /\ Pred(c, s) = r
    BY <1>1, <1>3, <1>4 DEF Succ
  <2> HIDE DEF s
  <2>2. s # q
    <3>1. SUFFICES ASSUME s = q PROVE FALSE
      OBVIOUS
    <3>2. c = 2
      BY <1>3, <1>4, <3>1 DEF Succ, s
    <3>3. Own(c, V, s) = Own(c, W, r) - 1
      BY <1>7, <3>1
    <3> QED BY <1>2, <1>3, <1>12, <3>2, <3>3 DEF s
  <2>3. Occ(W, s) /\ Own(c, V, s) = Own(c, W, s) /\ Own(c, W, s) > 1
    BY <1>8, <1>12, <2>1, <2>2 DEF s
  <2>4. Own(c, W, s) > 0
    BY <1>2, <2>1, <2>3
  <2>5. Own(c, W, r) >= Own(c, W, s) - 1
    BY <2>1, <2>2, <2>3, <2>4 DEF ShiftLoop, GapOrder
  <2>6. Own(c, V, q) >= Own(c, V, s) - 2
    BY <1>2, <1>3, <1>7, <2>1, <2>3, <2>5
  <2> QED BY <1>3, <1>9, <2>6 DEF s
<1>13. GapOrder(c, V, r)
  BY <1>11, <1>12 DEF GapOrder
<1>14. GapDistinct(c, V, r)
  <2>1. SUFFICES ASSUME NEW x \in 0..(c - 1), NEW y \in 0..(c - 1), x # r, y # r,
                        Occ(V, x), Occ(V, y), V[x].key = V[y].key
                 PROVE x = y
    BY DEF GapDistinct
  <2>2. GapDistinct(c, W, q)
    BY DEF ShiftLoop
  <2>3. CASE x # q /\ y # q
    BY <1>5, <1>8, <2>1, <2>2, <2>3 DEF GapDistinct
  <2>4. CASE x = q /\ y # q
    BY <1>3, <1>4, <1>5, <1>8, <2>1, <2>2, <2>4 DEF GapDistinct
  <2>5. CASE x # q /\ y = q
    BY <1>3, <1>4, <1>5, <1>8, <2>1, <2>2, <2>5 DEF GapDistinct
  <2> QED BY <2>3, <2>4, <2>5
<1>15. GapKept(c, T, p, V, r)
  <2>1. SUFFICES ASSUME NEW e
                 PROVE (\E x \in 0..(c - 1) : x # r /\ Occ(V, x) /\ V[x] = e)
                         <=> (\E x \in 0..(c - 1) : x # q /\ Occ(W, x) /\ W[x] = e)
    BY DEF ShiftLoop, GapKept
  <2>2. ASSUME NEW x \in 0..(c - 1), x # r, Occ(V, x), V[x] = e
        PROVE \E y \in 0..(c - 1) : y # q /\ Occ(W, y) /\ W[y] = e
    <3>1. CASE x = q
      BY <1>3, <1>4, <1>5, <2>2, <3>1
    <3>2. CASE x # q
      BY <1>5, <1>8, <2>2, <3>2
    <3> QED BY <3>1, <3>2
  <2>3. ASSUME NEW x \in 0..(c - 1), x # q, Occ(W, x), W[x] = e
        PROVE \E y \in 0..(c - 1) : y # r /\ Occ(V, y) /\ V[y] = e
    <3>1. CASE x = r
      BY <1>4, <1>5, <1>9, <2>3, <3>1
    <3>2. CASE x # r
      BY <1>5, <1>8, <2>3, <3>2
    <3> QED BY <3>1, <3>2
  <2> QED BY <2>2, <2>3
<1>16. ShiftLoop(c, T, p, V, r)
  BY <1>9, <1>10, <1>13, <1>14, <1>15 DEF ShiftLoop
<1> QED BY <1>4, <1>5, <1>6, <1>7, <1>16

(* The gap is cleared.                                                     *)
LEMMA ShiftStops ==
  ASSUME NEW c \in Nat, c # 0, NEW S, 0 \in S, NEW T \in Tables(c, S), NEW p \in 0..(c - 1),
         NEW W \in Tables(c, S), NEW q \in 0..(c - 1), ShiftLoop(c, T, p, W, q),
         Ends(c, W, Succ(c, q)), NEW V, V = [W EXCEPT ![q] = Empty]
  PROVE V \in Tables(c, S) /\ ShiftDone(c, T, p, V)
<1>1. \A x \in 0..(c - 1) : Pred(c, x) \in 0..(c - 1) /\ Succ(c, Pred(c, x)) = x
  BY GapFacts
<1>2. V[q] = Empty /\ \A x \in 0..(c - 1) : x # q => V[x] = W[x]
  BY DEF Tables
<1>3. V \in Tables(c, S)
  BY DEF Tables, Cells, Empty
<1>4. ~Occ(V, q)
  BY <1>2 DEF Occ, Empty
<1>5. \A x \in 0..(c - 1) : x # q => (Occ(V, x) <=> Occ(W, x)) /\ Own(c, V, x) = Own(c, W, x)
  BY <1>2 DEF Occ, Own
<1>6. \A x \in 0..(c - 1) : Own(c, W, x) \in 0..(c - 1)
  BY OwnType
<1>7. Ordered(c, V)
  <2>1. SUFFICES ASSUME NEW x \in 0..(c - 1), Occ(V, x), Own(c, V, x) > 0
                 PROVE Occ(V, Pred(c, x)) /\ Own(c, V, Pred(c, x)) >= Own(c, V, x) - 1
    BY DEF Ordered
  <2>2. x # q /\ Occ(W, x) /\ Own(c, W, x) > 0 /\ Own(c, V, x) = Own(c, W, x)
    BY <1>4, <1>5, <2>1
  <2>3. x # Succ(c, q)
    BY <1>6, <2>2 DEF Ends
  <2>4. Occ(W, Pred(c, x)) /\ Own(c, W, Pred(c, x)) >= Own(c, W, x) - 1
    BY <2>2, <2>3 DEF ShiftLoop, GapOrder
  <2>5. Pred(c, x) # q
    BY <1>1, <2>3
  <2> QED BY <1>1, <1>5, <2>2, <2>4, <2>5
<1>8. Distinct(c, V)
  <2>1. GapDistinct(c, W, q)
    BY DEF ShiftLoop
  <2> QED BY <1>2, <1>4, <1>5, <2>1 DEF Distinct, GapDistinct
<1>9. ASSUME NEW e PROVE In(c, V, e) <=> In(c, T, e) /\ e # T[p]
  <2>1. In(c, V, e) <=> \E x \in 0..(c - 1) : x # q /\ Occ(W, x) /\ W[x] = e
    BY <1>2, <1>4, <1>5 DEF In
  <2> QED BY <2>1 DEF ShiftLoop, GapKept
<1>10. Occ(T, q) /\ \A x \in 0..(c - 1) : x # q => (Occ(V, x) <=> Occ(T, x))
  BY <1>5 DEF ShiftLoop, SameOcc
<1> QED BY <1>3, <1>4, <1>7, <1>8, <1>9, <1>10 DEF ShiftDone, Sound

(* How long the loop may still go on after n turns: an entry comes nearer  *)
(* to its home by one each time the gap comes round to it, and when one    *)
(* has come home the loop ends there.                                      *)
Left(c, W, q, n) ==
  \E y \in 0..(c - 1) :
    /\ y # q \/ c = 1
    /\ Own(c, W, y) * (c - 1) + ProbeDist(c, Succ(c, q), y) + n <= (c - 1) * (c - 1)

(* Before the first turn, for the entry behind the gap.                    *)
LEMMA LeftStart ==
  ASSUME NEW c \in Nat, c # 0, NEW S, NEW W \in Tables(c, S), NEW q \in 0..(c - 1)
  PROVE Left(c, W, q, 0)
<1> DEFINE y == Succ(c, q)
           d == Own(c, W, y)
<1>1. y \in 0..(c - 1) /\ (y # q \/ c = 1)
  BY DEF Succ
<1> HIDE DEF y
<1>2. d \in 0..(c - 1)
  BY <1>1, OwnType
<1>3. ProbeDist(c, y, y) = 0
  BY <1>1, GapFacts
<1> HIDE DEF d
<1>4. d * (c - 1) <= (c - 1) * (c - 1)
  <2> DEFINE a == c - 1
             b == a - d
  <2>1. a \in Nat /\ b \in Nat /\ d = a - b
    BY <1>2
  <2> HIDE DEF a, b
  <2>2. b * a >= 0 /\ (a - b) * a = a * a - b * a
    BY <2>1
  <2>3. d * a <= a * a
    BY <2>1, <2>2
  <2> QED BY <2>3 DEF a
<1>5. d * (c - 1) + 0 + 0 <= (c - 1) * (c - 1)
  BY <1>2, <1>4
<1> QED BY <1>1, <1>3, <1>5 DEF Left, y, d

(* A turn brings the end nearer.                                           *)
LEMMA LeftMoves ==
  ASSUME NEW c \in Nat, c # 0, NEW S, NEW W \in Tables(c, S), NEW q \in 0..(c - 1),
         NEW n \in Nat, Left(c, W, q, n), NEW r, r = Succ(c, q), r # q,
         NEW V, Own(c, V, q) = Own(c, W, r) - 1, Own(c, W, r) > 0,
         \A x \in 0..(c - 1) : x # q => V[x] = W[x]
  PROVE Left(c, V, r, n + 1)
<1>1. PICK y \in 0..(c - 1) :
        /\ y # q \/ c = 1
        /\ Own(c, W, y) * (c - 1) + ProbeDist(c, Succ(c, q), y) + n <= (c - 1) * (c - 1)
  BY DEF Left
<1>2. r \in 0..(c - 1) /\ c > 1 /\ y # q
  BY <1>1 DEF Succ
<1> DEFINE a == c - 1
           m == ProbeDist(c, r, y)
           t == Succ(c, r)
           d == Own(c, W, y)
<1>3. t \in 0..(c - 1) /\ m \in 0..(c - 1) /\ a \in Nat /\ d \in 0..(c - 1)
  <2>1. t \in 0..(c - 1)
    BY <1>2 DEF Succ
  <2>2. m \in 0..(c - 1)
    BY <1>2, GapFacts
  <2>3. d \in 0..(c - 1)
    BY OwnType
  <2> QED BY <2>1, <2>2, <2>3
<1>4. d * a + m + n <= a * a
  BY <1>1
<1>5. CASE y = r
  <2>1. m = 0
    BY <1>2, <1>5, GapFacts
  <2>2. ProbeDist(c, t, q) = c - 2
    <3>1. t = IF r = c - 1 THEN 0 ELSE r + 1
      BY DEF Succ
    <3>2. r = IF q = c - 1 THEN 0 ELSE q + 1
      BY DEF Succ
    <3>3. ProbeDist(c, t, q) = IF q >= t THEN q - t ELSE q + c - t
      BY <1>3, DistOf
    <3> HIDE DEF t
    <3> QED BY <1>2, <1>3, <3>1, <3>2, <3>3
  <2>3. Own(c, V, q) = d - 1 /\ d > 0
    BY <1>5
  <2> HIDE DEF m, d, a
  <2>4. (d - 1) * a = d * a - a
    BY <1>3
  <2>5. d * a \in Int /\ a * a \in Int
    BY <1>3
  <2>6. c - 2 = a - 1
    BY DEF a
  <2>7. (d - 1) * a + (c - 2) + (n + 1) <= a * a
    BY <1>3, <1>4, <2>1, <2>4, <2>5, <2>6
  <2>8. Own(c, V, q) * (c - 1) + ProbeDist(c, Succ(c, r), q) + (n + 1) <= (c - 1) * (c - 1)
    BY <2>2, <2>3, <2>7 DEF a, t
  <2> QED BY <1>2, <2>8 DEF Left
<1>6. CASE y # r
  <2>1. Own(c, V, y) = d
    BY <1>2 DEF Own
  <2>2. m # 0
    BY <1>2, <1>6, GapFacts
  <2>3. ProbeDist(c, t, y) = m - 1
    <3>1. t = IF r = c - 1 THEN 0 ELSE r + 1
      BY DEF Succ
    <3>2. ProbeDist(c, t, y) = IF y >= t THEN y - t ELSE y + c - t
      BY <1>3, DistOf
    <3>3. m = IF y >= r THEN y - r ELSE y + c - r
      BY <1>2, DistOf
    <3> HIDE DEF t, m
    <3> QED BY <1>2, <1>3, <1>6, <3>1, <3>2, <3>3
  <2> HIDE DEF m, d, a
  <2>4. d * a \in Int /\ a * a \in Int
    BY <1>3
  <2>5. d * a + (m - 1) + (n + 1) <= a * a
    BY <1>3, <1>4, <2>4
  <2>6. Own(c, V, y) * (c - 1) + ProbeDist(c, Succ(c, r), y) + (n + 1) <= (c - 1) * (c - 1)
    BY <2>1, <2>3, <2>5 DEF a, t
  <2> QED BY <1>6, <2>6 DEF Left
<1> QED BY <1>5, <1>6

(* In the end there is nothing left.                                       *)
LEMMA LeftEnds ==
  ASSUME NEW c \in Nat, c # 0, NEW S, NEW W \in Tables(c, S), NEW q \in 0..(c - 1), NEW n,
         n = c * c
  PROVE ~Left(c, W, q, n)
<1>1. SUFFICES ASSUME NEW y \in 0..(c - 1),
                      Own(c, W, y) * (c - 1) + ProbeDist(c, Succ(c, q), y) + n <= (c - 1) * (c - 1)
               PROVE FALSE
  BY DEF Left
<1> DEFINE a == c - 1
           d == Own(c, W, y)
           m == ProbeDist(c, Succ(c, q), y)
<1>2. a \in Nat /\ d \in Nat
  BY OwnType
<1>3. m \in Nat
  BY GapFacts
<1>4. d * a + m + n <= a * a
  BY <1>1
<1>5. c = a + 1
  OBVIOUS
<1> HIDE DEF a, d, m
<1>6. d * a >= 0 /\ d * a \in Int /\ a * a \in Int
  BY <1>2
<1>7. n = a * a + a + a + 1
  BY <1>2, <1>5
<1> QED BY <1>2, <1>3, <1>4, <1>6, <1>7

-----------------------------------------------------------------------------
(* The turns of the loop of ef_index_remove_by_hash.                       *)
ShiftStates(c, S) == [table : Tables(c, S), hole : 0..(c - 1), done : BOOLEAN]

ShiftGood(c, T, p, st, n) ==
  IF st.done = TRUE THEN ShiftDone(c, T, p, st.table)
  ELSE ShiftLoop(c, T, p, st.table, st.hole) /\ Left(c, st.table, st.hole, n)

(* What a turn does, by what it finds behind the gap.                      *)
LEMMA ShiftStepIs ==
  ASSUME NEW c \in Nat, c # 0, NEW S, NEW st \in ShiftStates(c, S)
  PROVE LET W == st.table
            q == st.hole
            r == Succ(c, q) IN
        /\ st.done = TRUE => ShiftStep(st) = st
        /\ st.done = FALSE /\ Ends(c, W, r) =>
             ShiftStep(st) = [table |-> [W EXCEPT ![q] = Empty], hole |-> q, done |-> TRUE]
        /\ st.done = FALSE /\ ~Ends(c, W, r) =>
             ShiftStep(st) = [table |-> [W EXCEPT ![q] = W[r]], hole |-> r, done |-> FALSE]
<1> DEFINE W == st.table
           q == st.hole
           r == Succ(c, q)
<1>1. W \in Tables(c, S) /\ q \in 0..(c - 1) /\ st.done \in BOOLEAN
  BY DEF ShiftStates
<1>2. st = [table |-> W, hole |-> q, done |-> st.done]
  BY DEF ShiftStates
<1>3. Capacity(W) = c
  BY <1>1, CapacityIs DEF Tables
<1>4. (q + 1) % c = r
  <2> HIDE DEF q
  <2>1. q \in Nat /\ q + 1 < 3 * c /\ q < c
    BY <1>1
  <2>2. q % c = q
    BY <2>1, SmallMod
  <2> QED BY <2>1, <2>2, NextPos DEF r
<1>5. r \in 0..(c - 1)
  BY <1>1 DEF Succ
<1>6. (W[r].off = 0 \/ ProbeDist(c, Home(c, W[r].key), r) = 0) <=> Ends(c, W, r)
  BY DEF Ends, Occ, Own, Dist
<1>7. st.done = TRUE => ShiftStep(st) = st
  BY DEF ShiftStep
<1>8. ASSUME st.done = FALSE, Ends(c, W, r)
      PROVE ShiftStep(st) = [table |-> [W EXCEPT ![q] = Empty], hole |-> q, done |-> TRUE]
  <2>1. ShiftStep(st) = [st EXCEPT !.table[q] = Empty, !.done = TRUE]
    BY <1>3, <1>4, <1>6, <1>8 DEF ShiftStep
  <2> QED BY <1>2, <2>1
<1>9. ASSUME st.done = FALSE, ~Ends(c, W, r)
      PROVE ShiftStep(st) = [table |-> [W EXCEPT ![q] = W[r]], hole |-> r, done |-> FALSE]
  <2>1. ShiftStep(st) = [st EXCEPT !.table[q] = W[r], !.hole = r]
    BY <1>3, <1>4, <1>6, <1>9 DEF ShiftStep
  <2> QED BY <1>2, <1>9, <2>1
<1> QED BY <1>7, <1>8, <1>9

(* A turn keeps what the loop relies on.                                   *)
LEMMA ShiftStepGood ==
  ASSUME NEW c \in Nat, c # 0, NEW S, 0 \in S, NEW T \in Tables(c, S), NEW p \in 0..(c - 1),
         NEW st \in ShiftStates(c, S), NEW n \in Nat, ShiftGood(c, T, p, st, n)
  PROVE ShiftStep(st) \in ShiftStates(c, S) /\ ShiftGood(c, T, p, ShiftStep(st), n + 1)
<1> DEFINE W == st.table
           q == st.hole
           r == Succ(c, q)
           new == ShiftStep(st)
<1>1. W \in Tables(c, S) /\ q \in 0..(c - 1) /\ st.done \in BOOLEAN
  BY DEF ShiftStates
<1>2. /\ st.done = TRUE => new = st
      /\ st.done = FALSE /\ Ends(c, W, r) =>
           new = [table |-> [W EXCEPT ![q] = Empty], hole |-> q, done |-> TRUE]
      /\ st.done = FALSE /\ ~Ends(c, W, r) =>
           new = [table |-> [W EXCEPT ![q] = W[r]], hole |-> r, done |-> FALSE]
  BY ShiftStepIs
<1>3. r \in 0..(c - 1)
  BY <1>1 DEF Succ
<1> HIDE DEF new
<1>4. CASE st.done = TRUE
  <2>1. new = st
    BY <1>2, <1>4
  <2> QED BY <1>4, <2>1 DEF ShiftGood, new
<1>5. CASE st.done = FALSE /\ Ends(c, W, r)
  <2> DEFINE V == [W EXCEPT ![q] = Empty]
  <2>1. ShiftLoop(c, T, p, W, q)
    BY <1>5 DEF ShiftGood
  <2>2. V \in Tables(c, S) /\ ShiftDone(c, T, p, V)
    BY <1>1, <1>5, <2>1, ShiftStops
  <2>3. new = [table |-> V, hole |-> q, done |-> TRUE]
    BY <1>2, <1>5
  <2> HIDE DEF V
  <2> QED BY <1>1, <2>2, <2>3 DEF ShiftStates, ShiftGood, new
<1>6. CASE st.done = FALSE /\ ~Ends(c, W, r)
  <2> DEFINE V == [W EXCEPT ![q] = W[r]]
  <2>1. ShiftLoop(c, T, p, W, q) /\ Left(c, W, q, n)
    BY <1>6 DEF ShiftGood
  <2>2. new = [table |-> V, hole |-> r, done |-> FALSE]
    BY <1>2, <1>6
  <2>3. /\ V \in Tables(c, S) /\ ShiftLoop(c, T, p, V, r)
        /\ r # q /\ Own(c, V, q) = Own(c, W, r) - 1
        /\ \A x \in 0..(c - 1) : x # q => V[x] = W[x]
    BY <1>1, <1>6, <2>1, ShiftMoves
  <2> HIDE DEF V
  <2>4. Own(c, W, r) > 0
    <3>1. Own(c, W, r) \in 0..(c - 1)
      BY <1>1, <1>3, OwnType
    <3> QED BY <1>6, <3>1 DEF Ends
  <2> HIDE DEF W, q
  <2>5. Left(c, V, r, n + 1)
    BY <1>1, <2>1, <2>3, <2>4, LeftMoves
  <2> HIDE DEF r
  <2> QED BY <1>3, <2>2, <2>3, <2>5 DEF ShiftStates, ShiftGood, new
<1> QED BY <1>1, <1>4, <1>5, <1>6

(* The loop as a function of its turns.                                    *)
IsShift(f, T, p, n) ==
  f = [m \in 0..n |-> IF m = 0 THEN ShiftStart(T, p) ELSE ShiftStep(f[m - 1])]

(* There is such a function.                                               *)
LEMMA ShiftExists ==
  ASSUME NEW T, NEW p
  PROVE \A n \in Nat : \E f : IsShift(f, T, p, n)
<1> DEFINE S == {n \in Nat : \E f : IsShift(f, T, p, n)}
<1>1. 0 \in S
  <2> DEFINE f == [m \in 0..0 |-> ShiftStart(T, p)]
  <2>1. f = [m \in 0..0 |-> IF m = 0 THEN ShiftStart(T, p) ELSE ShiftStep(f[m - 1])]
    OBVIOUS
  <2> QED BY <2>1 DEF IsShift
<1>2. ASSUME NEW n \in Nat, n \in S PROVE n + 1 \in S
  <2>1. PICK f : IsShift(f, T, p, n)
    BY <1>2
  <2> DEFINE g == [m \in 0..n + 1 |-> IF m = 0 THEN ShiftStart(T, p) ELSE ShiftStep(f[m - 1])]
  <2>2. \A m \in 0..n : g[m] = f[m]
    BY <2>1 DEF IsShift
  <2>3. \A m \in 0..n + 1 : m # 0 => m - 1 \in 0..n
    OBVIOUS
  <2>4. g = [m \in 0..n + 1 |-> IF m = 0 THEN ShiftStart(T, p) ELSE ShiftStep(g[m - 1])]
    BY <2>2, <2>3
  <2>5. IsShift(g, T, p, n + 1)
    BY <2>4 DEF IsShift
  <2> HIDE DEF g
  <2> QED BY <2>5
<1> HIDE DEF S
<1>3. \A n \in Nat : n \in S
  BY <1>1, <1>2, SetInduction
<1> QED BY <1>3 DEF S

(* Every turn of the loop is good, and after the last one it is done.      *)
LEMMA ShiftTurns ==
  ASSUME NEW c \in Nat, c # 0, NEW S, 0 \in S, NEW T \in Tables(c, S), Sound(c, T),
         NEW p \in 0..(c - 1), Occ(T, p), NEW f, IsShift(f, T, p, c * c)
  PROVE /\ \A m \in 0..(c * c) : f[m] \in ShiftStates(c, S) /\ ShiftGood(c, T, p, f[m], m)
        /\ f[c * c].done = TRUE
<1> DEFINE N == c * c
           A == {m \in 0..N : f[m] \in ShiftStates(c, S) /\ ShiftGood(c, T, p, f[m], m)}
<1>1. N \in Nat
  OBVIOUS
<1> HIDE DEF N
<1>2. IsShift(f, T, p, N)
  BY DEF N
<1>3. 0 \in A
  <2> DEFINE st == ShiftStart(T, p)
             z == 0
  <2>1. f[z] = st
    BY <1>1, <1>2 DEF IsShift
  <2>2. st.table = T /\ st.hole = p /\ st.done = FALSE /\ st \in ShiftStates(c, S)
    BY DEF ShiftStart, ShiftStates
  <2>3. ShiftLoop(c, T, p, T, p)
    BY ShiftStartGood
  <2>4. Left(c, T, p, z)
    BY LeftStart
  <2> HIDE DEF st, z
  <2>5. ShiftGood(c, T, p, f[z], z)
    BY <2>1, <2>2, <2>3, <2>4 DEF ShiftGood
  <2>6. z \in 0..N
    BY <1>1 DEF z
  <2>7. z \in A
    BY <2>1, <2>2, <2>5, <2>6
  <2> QED BY <2>7 DEF z
<1>4. ASSUME NEW m \in 1..N, m - 1 \in A PROVE m \in A
  <2> DEFINE n == m - 1
             st == f[n]
  <2>1. n \in Nat /\ n + 1 = m /\ m \in 0..N /\ n \in 0..N
    BY <1>1
  <2>2. f[m] = ShiftStep(st)
    BY <1>1, <1>2 DEF IsShift
  <2>3. st \in ShiftStates(c, S) /\ ShiftGood(c, T, p, st, n)
    BY <1>4
  <2> HIDE DEF n, st
  <2>4. ShiftStep(st) \in ShiftStates(c, S) /\ ShiftGood(c, T, p, ShiftStep(st), n + 1)
    BY <2>1, <2>3, ShiftStepGood
  <2> QED BY <2>1, <2>2, <2>4
<1> HIDE DEF A
<1>5. ASSUME NEW m \in 0..N PROVE m \in A
  <2>1. m \in Nat /\ \A j \in 1..m : j - 1 \in A => j \in A
    BY <1>1, <1>4
  <2> QED BY <1>3, <2>1, BoundedInduction
<1>6. \A m \in 0..N : f[m] \in ShiftStates(c, S) /\ ShiftGood(c, T, p, f[m], m)
  BY <1>5 DEF A
<1>7. f[N].done = TRUE
  <2> DEFINE st == f[N]
             W == st.table
             q == st.hole
  <2>1. st \in ShiftStates(c, S) /\ ShiftGood(c, T, p, st, N)
    BY <1>1, <1>6
  <2> HIDE DEF st
  <2>2. W \in Tables(c, S) /\ q \in 0..(c - 1) /\ st.done \in BOOLEAN
    BY <2>1 DEF ShiftStates
  <2>3. ~Left(c, W, q, N)
    BY <2>2, LeftEnds DEF N
  <2> QED BY <2>1, <2>2, <2>3 DEF ShiftGood, st
<1> QED BY <1>6, <1>7 DEF N

(* The loop of ef_index_remove_by_hash, which has no bound in the code and *)
(* runs under the write lock, comes to an end in every table in order,     *)
(* also in a full one without an entry at home.                            *)
THEOREM RemovalEnds ==
  ASSUME NEW c \in Nat, c # 0, NEW S, 0 \in S, NEW T \in Tables(c, S), Sound(c, T),
         NEW p \in 0..(c - 1), Occ(T, p)
  PROVE \E f : IsShift(f, T, p, c * c) /\ f[c * c].done = TRUE
<1>1. PICK f : IsShift(f, T, p, c * c)
  BY ShiftExists
<1> QED BY <1>1, ShiftTurns

(* BackShift takes one entry out and leaves a table in order.              *)
LEMMA BackShiftGood ==
  ASSUME NEW c \in Nat, c # 0, NEW S, 0 \in S, NEW T \in Tables(c, S), Sound(c, T),
         NEW p \in 0..(c - 1), Occ(T, p)
  PROVE LET V == BackShift(T, p) IN
        /\ V \in Tables(c, S) /\ Sound(c, V)
        /\ \A e : In(c, V, e) <=> In(c, T, e) /\ e # T[p]
        /\ \E f \in 0..(c - 1) : /\ Occ(T, f) /\ ~Occ(V, f)
                                 /\ \A q \in 0..(c - 1) : q # f => (Occ(V, q) <=> Occ(T, q))
<1> DEFINE f == CHOOSE g : IsShift(g, T, p, c * c)
           V == BackShift(T, p)
<1>1. Capacity(T) = c
  BY CapacityIs DEF Tables
<1>2. V = f[c * c].table
  BY <1>1 DEF BackShift, IsShift
<1>3. IsShift(f, T, p, c * c)
  BY ShiftExists
<1> HIDE DEF f, V
<1>4. c * c \in 0..(c * c)
  OBVIOUS
<1>5. /\ f[c * c] \in ShiftStates(c, S) /\ ShiftGood(c, T, p, f[c * c], c * c)
      /\ f[c * c].done = TRUE
  BY <1>3, <1>4, ShiftTurns
<1>6. V \in Tables(c, S) /\ ShiftDone(c, T, p, V)
  BY <1>2, <1>5 DEF ShiftStates, ShiftGood
<1> QED BY <1>6 DEF ShiftDone, V

-----------------------------------------------------------------------------
(* The number of entries.                                                  *)

(* A set of positions is finite.                                           *)
LEMMA FinitePositions ==
  ASSUME NEW c \in Nat, NEW S \in SUBSET (0..(c - 1))
  PROVE IsFiniteSet(S)
<1>1. 0 \in Int /\ c - 1 \in Int
  OBVIOUS
<1>2. IsFiniteSet(0..(c - 1))
  BY <1>1, FS_Interval
<1> QED BY <1>2, FS_Subset

(* There are at most as many entries as positions, and with fewer of them  *)
(* a position is free.                                                     *)
LEMMA EntriesIs ==
  ASSUME NEW c \in Nat, c # 0, NEW S, NEW T \in Tables(c, S)
  PROVE /\ Occupied(T) = {p \in 0..(c - 1) : Occ(T, p)}
        /\ IsFiniteSet(Occupied(T))
        /\ Entries(T) \in Nat /\ Entries(T) <= c
        /\ Entries(T) < c => \E f \in 0..(c - 1) : ~Occ(T, f)
<1>1. Occupied(T) = {p \in 0..(c - 1) : Occ(T, p)}
  BY DEF Occupied, Occ, Tables
<1>2. Occupied(T) \in SUBSET (0..(c - 1))
  BY <1>1
<1>3. IsFiniteSet(Occupied(T)) /\ IsFiniteSet(0..(c - 1))
  BY <1>2, FinitePositions
<1>4. Cardinality(0..(c - 1)) = c
  BY CapacityIs DEF Capacity, Tables
<1>5. Entries(T) \in Nat /\ Entries(T) <= c
  BY <1>2, <1>3, <1>4, FS_CardinalityType, FS_Subset DEF Entries
<1>6. ASSUME \A f \in 0..(c - 1) : Occ(T, f) PROVE Entries(T) = c
  <2>1. Occupied(T) = 0..(c - 1)
    BY <1>1, <1>6
  <2> QED BY <1>4, <2>1 DEF Entries
<1> QED BY <1>1, <1>3, <1>5, <1>6

(* An entry more at a free position.                                       *)
LEMMA EntriesAdded ==
  ASSUME NEW c \in Nat, c # 0, NEW S, NEW T \in Tables(c, S), NEW V \in Tables(c, S),
         NEW f \in 0..(c - 1), ~Occ(T, f), Occ(V, f),
         \A p \in 0..(c - 1) : p # f => (Occ(V, p) <=> Occ(T, p))
  PROVE Entries(V) = Entries(T) + 1
<1>1. Occupied(T) = {p \in 0..(c - 1) : Occ(T, p)} /\ IsFiniteSet(Occupied(T))
  BY EntriesIs
<1>2. Occupied(V) = {p \in 0..(c - 1) : Occ(V, p)}
  BY EntriesIs
<1>3. Occupied(V) = Occupied(T) \cup {f} /\ f \notin Occupied(T)
  BY <1>1, <1>2
<1>4. Cardinality(Occupied(T) \cup {f}) = Cardinality(Occupied(T)) + 1
  BY <1>1, <1>3, FS_AddElement
<1> QED BY <1>3, <1>4 DEF Entries

(* The same positions.                                                     *)
LEMMA EntriesSame ==
  ASSUME NEW c \in Nat, c # 0, NEW S, NEW T \in Tables(c, S), NEW V \in Tables(c, S),
         SameOcc(c, T, V)
  PROVE Entries(V) = Entries(T)
<1>1. Occupied(T) = {p \in 0..(c - 1) : Occ(T, p)}
  BY EntriesIs
<1>2. Occupied(V) = {p \in 0..(c - 1) : Occ(V, p)}
  BY EntriesIs
<1> QED BY <1>1, <1>2 DEF Entries, SameOcc

(* An empty table.                                                         *)
LEMMA EmptyTableGood ==
  ASSUME NEW c \in Nat, c # 0, NEW S, 0 \in S
  PROVE /\ EmptyTable(c) \in Tables(c, S) /\ Sound(c, EmptyTable(c))
        /\ \A p \in 0..(c - 1) : ~Occ(EmptyTable(c), p)
        /\ Entries(EmptyTable(c)) = 0
        /\ \A e : ~In(c, EmptyTable(c), e)
<1> DEFINE T == EmptyTable(c)
<1>1. T \in Tables(c, S)
  BY DEF EmptyTable, Tables, Cells, Empty
<1>2. \A p \in 0..(c - 1) : ~Occ(T, p)
  BY DEF EmptyTable, Occ, Empty
<1> HIDE DEF T
<1>3. Sound(c, T) /\ \A e : ~In(c, T, e)
  BY <1>2 DEF Sound, Ordered, Distinct, In
<1>4. Occupied(T) = {}
  BY <1>1, <1>2, EntriesIs
<1>5. Entries(T) = 0
  BY <1>4, FS_EmptySet DEF Entries
<1> QED BY <1>1, <1>2, <1>3, <1>5 DEF T

-----------------------------------------------------------------------------
(* The copy of the entries that ef_index_rehash_to makes.                  *)

(* A set of positions that is not empty has a last one.                    *)
LEMMA LastPosition ==
  ASSUME NEW c \in Nat, NEW S, S \subseteq 0..(c - 1), S # {}
  PROVE \E p \in S : \A q \in S : q <= p
<1> DEFINE R == {c - p : p \in S}
<1>6. \A p \in S : c - p \in Nat
  OBVIOUS
<1>1. R \subseteq Nat /\ R # {}
  BY <1>6
<1>2. PICK n \in R : \A m \in R : n <= m
  BY <1>1, LeastNat
<1>3. PICK p \in S : n = c - p
  OBVIOUS
<1>4. \A q \in S : c - q \in R /\ q \in Int
  OBVIOUS
<1> HIDE DEF R
<1>5. \A q \in S : q <= p
  BY <1>2, <1>3, <1>4
<1> QED BY <1>5

Below(S, p) == {q \in S : q < p}

(* In a set of n positions there is one with i before it, for each i < n.  *)
LEMMA NthPosition ==
  ASSUME NEW c \in Nat
  PROVE \A n \in Nat : \A S \in SUBSET (0..(c - 1)) :
          Cardinality(S) = n => \A m \in 1..n : \E p \in S : Cardinality(Below(S, p)) = m - 1
<1> DEFINE Good(S, n) == \A m \in 1..n : \E p \in S : Cardinality(Below(S, p)) = m - 1
           A == {n \in Nat : \A S \in SUBSET (0..(c - 1)) : Cardinality(S) = n => Good(S, n)}
<1>1. 0 \in A
  OBVIOUS
<1>2. ASSUME NEW n \in Nat, n \in A PROVE n + 1 \in A
  <2> SUFFICES ASSUME NEW S \in SUBSET (0..(c - 1)), Cardinality(S) = n + 1 PROVE Good(S, n + 1)
    OBVIOUS
  <2>1. IsFiniteSet(S)
    BY FinitePositions
  <2>2. S # {}
    BY FS_EmptySet
  <2>3. PICK last \in S : \A q \in S : q <= last
    BY <2>2, LastPosition
  <2> DEFINE R == S \ {last}
  <2>4. Cardinality(R) = n /\ R \in SUBSET (0..(c - 1))
    <3>1. Cardinality(R) = IF last \in S THEN Cardinality(S) - 1 ELSE Cardinality(S)
      BY <2>1, FS_RemoveElement
    <3> QED BY <3>1
  <2>5. Good(R, n)
    BY <1>2, <2>4
  <2>6. Below(S, last) = R
    <3>1. \A q \in S : q \in Int
      OBVIOUS
    <3>2. \A q \in S : q < last <=> q # last
      BY <2>3, <3>1
    <3> QED BY <3>2 DEF Below
  <2>7. \A p \in R : Below(S, p) = Below(R, p)
    BY <2>3 DEF Below
  <2>8. \A p \in R : p \in S
    OBVIOUS
  <2> HIDE DEF R
  <2> SUFFICES ASSUME NEW m \in 1..(n + 1) PROVE \E p \in S : Cardinality(Below(S, p)) = m - 1
    OBVIOUS
  <2>9. CASE m = n + 1
    BY <2>4, <2>6, <2>9
  <2>10. CASE m # n + 1
    <3>1. m \in 1..n
      BY <2>10
    <3>2. PICK p \in R : Cardinality(Below(R, p)) = m - 1
      BY <2>5, <3>1
    <3>3. Cardinality(Below(S, p)) = m - 1 /\ p \in S
      BY <2>7, <2>8, <3>2
    <3> QED BY <3>3
  <2> QED BY <2>9, <2>10
<1> HIDE DEF A
<1>3. \A n \in Nat : n \in A
  BY <1>1, <1>2, SetInduction
<1> QED BY <1>3 DEF A

(* No two positions have as many before them, and all have fewer than n.   *)
LEMMA RankOnce ==
  ASSUME NEW c \in Nat, NEW S \in SUBSET (0..(c - 1))
  PROVE /\ Cardinality(S) \in Nat
        /\ \A p \in S : Cardinality(Below(S, p)) \in Nat /\ Cardinality(Below(S, p)) < Cardinality(S)
        /\ \A p, q \in S : p < q => Cardinality(Below(S, p)) < Cardinality(Below(S, q))
        /\ \A p, q \in S : Cardinality(Below(S, p)) = Cardinality(Below(S, q)) => p = q
<1>1. IsFiniteSet(S) /\ Cardinality(S) \in Nat
  BY FinitePositions, FS_CardinalityType
<1>2. ASSUME NEW p \in S PROVE IsFiniteSet(Below(S, p)) /\ Cardinality(Below(S, p)) \in Nat
  <2>1. Below(S, p) \in SUBSET (0..(c - 1))
    BY DEF Below
  <2> QED BY <2>1, FinitePositions, FS_CardinalityType
<1>3. ASSUME NEW p \in S, NEW R, R \subseteq S, Below(S, p) \subseteq R, p \in R
      PROVE Cardinality(Below(S, p)) < Cardinality(R)
  <2>1. p \notin Below(S, p)
    BY DEF Below
  <2>2. Cardinality(Below(S, p) \cup {p}) = Cardinality(Below(S, p)) + 1
    BY <1>2, <2>1, FS_AddElement
  <2>3. IsFiniteSet(R) /\ Below(S, p) \cup {p} \subseteq R
    BY <1>1, <1>3, FS_Subset
  <2>4. Cardinality(Below(S, p) \cup {p}) <= Cardinality(R) /\ Cardinality(R) \in Nat
    BY <2>3, FS_Subset, FS_CardinalityType
  <2> QED BY <1>2, <2>2, <2>4
<1>4. ASSUME NEW p \in S PROVE Cardinality(Below(S, p)) < Cardinality(S)
  <2>1. Below(S, p) \subseteq S
    BY DEF Below
  <2> QED BY <1>3, <2>1
<1>5. ASSUME NEW p \in S, NEW q \in S, p < q
      PROVE Cardinality(Below(S, p)) < Cardinality(Below(S, q))
  <2>1. Below(S, q) \subseteq S /\ p \in Below(S, q)
    BY <1>5 DEF Below
  <2>2. Below(S, p) \subseteq Below(S, q)
    <3>1. p \in Int /\ q \in Int /\ \A x \in S : x \in Int
      OBVIOUS
    <3>2. \A x \in S : x < p => x < q
      BY <1>5, <3>1
    <3> QED BY <3>2 DEF Below
  <2> QED BY <1>3, <2>1, <2>2
<1>6. ASSUME NEW p \in S, NEW q \in S, Cardinality(Below(S, p)) = Cardinality(Below(S, q))
      PROVE p = q
  <2>1. ~(p < q) /\ ~(q < p)
    BY <1>2, <1>5, <1>6
  <2> QED BY <2>1
<1> QED BY <1>1, <1>2, <1>4, <1>5, <1>6

(* The copy has every entry of the table, each once.                       *)
LEMMA BackupGood ==
  ASSUME NEW c \in Nat, c # 0, NEW S, NEW T \in Tables(c, S), Sound(c, T)
  PROVE /\ Entries(T) \in Nat /\ Len(Backup(T)) = Entries(T)
        /\ \A n \in 1..Entries(T) :
             In(c, T, Backup(T)[n]) /\ Backup(T)[n] \in Cells(S) /\ Backup(T)[n].off # 0
        /\ \A e : In(c, T, e) => \E n \in 1..Entries(T) : Backup(T)[n] = e
        /\ \A m, n \in 1..Entries(T) : Backup(T)[m].key = Backup(T)[n].key => m = n
<1> DEFINE P == Occupied(T)
           at(n) == CHOOSE p \in P : Cardinality(Below(P, p)) = n - 1
<1>1. P = {p \in 0..(c - 1) : Occ(T, p)} /\ Entries(T) \in Nat
  BY EntriesIs
<1>2. P \in SUBSET (0..(c - 1)) /\ Cardinality(P) = Entries(T)
  BY <1>1 DEF Entries
<1>4. Backup(T) = [n \in 1..Entries(T) |-> T[at(n)]]
  BY DEF Backup, Below
<1>5. Len(Backup(T)) = Entries(T)
  BY <1>1, <1>4
<1> HIDE DEF P
<1>3. /\ \A p \in P : Cardinality(Below(P, p)) \in Nat /\ Cardinality(Below(P, p)) < Entries(T)
      /\ \A p, q \in P : Cardinality(Below(P, p)) = Cardinality(Below(P, q)) => p = q
  <2>1. \A p \in P : Cardinality(Below(P, p)) \in Nat /\ Cardinality(Below(P, p)) < Cardinality(P)
    BY <1>2, RankOnce
  <2>2. \A p, q \in P : Cardinality(Below(P, p)) = Cardinality(Below(P, q)) => p = q
    BY <1>2, RankOnce
  <2> QED BY <1>2, <2>1, <2>2
<1>6. ASSUME NEW n \in 1..Entries(T) PROVE at(n) \in P /\ Cardinality(Below(P, at(n))) = n - 1
  <2>1. \E p \in P : Cardinality(Below(P, p)) = n - 1
    BY <1>1, <1>2, NthPosition
  <2> QED BY <2>1
<1>7. ASSUME NEW p \in P
      PROVE /\ Cardinality(Below(P, p)) + 1 \in 1..Entries(T)
            /\ at(Cardinality(Below(P, p)) + 1) = p
  <2> DEFINE n == Cardinality(Below(P, p)) + 1
  <2>1. n \in 1..Entries(T) /\ Cardinality(Below(P, p)) = n - 1
    BY <1>1, <1>3
  <2>2. at(n) \in P /\ Cardinality(Below(P, at(n))) = n - 1
    BY <1>6, <2>1
  <2> HIDE DEF n, at
  <2>3. at(n) = p
    BY <1>3, <2>1, <2>2
  <2> QED BY <2>1, <2>3 DEF n
<1> HIDE DEF at
<1>8. \A n \in 1..Entries(T) : Backup(T)[n] = T[at(n)] /\ at(n) \in 0..(c - 1) /\ Occ(T, at(n))
  BY <1>1, <1>4, <1>6
<1>9. ASSUME NEW n \in 1..Entries(T)
      PROVE In(c, T, Backup(T)[n]) /\ Backup(T)[n] \in Cells(S) /\ Backup(T)[n].off # 0
  <2>1. T[at(n)] \in Cells(S)
    BY <1>8 DEF Tables
  <2> QED BY <1>8, <2>1 DEF In, Occ
<1>10. ASSUME NEW e, In(c, T, e) PROVE \E n \in 1..Entries(T) : Backup(T)[n] = e
  <2>1. PICK p \in 0..(c - 1) : Occ(T, p) /\ T[p] = e
    BY <1>10 DEF In
  <2>2. p \in P
    BY <1>1, <2>1
  <2> QED BY <1>7, <1>8, <2>1, <2>2
<1>11. ASSUME NEW m \in 1..Entries(T), NEW n \in 1..Entries(T), Backup(T)[m].key = Backup(T)[n].key
       PROVE m = n
  <2>1. at(m) = at(n)
    BY <1>8, <1>11 DEF Sound, Distinct
  <2>2. m - 1 = n - 1
    BY <1>6, <2>1
  <2> QED BY <1>1, <2>2
<1> QED BY <1>1, <1>5, <1>9, <1>10, <1>11

-----------------------------------------------------------------------------
(* The loop of ef_index_rehash_to that fills the new table from a copy of  *)
(* entries with different keys.                                            *)
CopyOf(S, old, N) ==
  /\ \A n \in 1..N : old[n] \in Cells(S) /\ old[n].off # 0
  /\ \A m, n \in 1..N : old[m].key = old[n].key => m = n

(* After m turns: the table is in order and has entries of the copy only;  *)
(* if nothing failed and there are positions for all, it has the first m.  *)
FillGood(c, S, old, N, m, W, err) ==
  /\ W \in Tables(c, S) /\ Sound(c, W) /\ err \in {"OK", "INDEX_FULL"}
  /\ \A e : In(c, W, e) => \E j \in 1..m : old[j] = e
  /\ err = "OK" /\ N <= c => Entries(W) = m /\ \A j \in 1..m : In(c, W, old[j])

(* A turn of the loop.                                                     *)
LEMMA FillStepGood ==
  ASSUME NEW c \in Nat, c # 0, NEW S, NEW N \in Nat, NEW old, CopyOf(S, old, N),
         NEW m \in 1..N, NEW W, FillGood(c, S, old, N, m - 1, W, "OK")
  PROVE LET r == PutEntry(W, old[m].key, old[m].off) IN FillGood(c, S, old, N, m, r.table, r.err)
<1> DEFINE k == old[m].key
           s == old[m].off
           r == PutEntry(W, k, s)
           V == r.table
<1>1. /\ W \in Tables(c, S) /\ Sound(c, W)
      /\ \A e : In(c, W, e) => \E j \in 1..(m - 1) : old[j] = e
      /\ N <= c => Entries(W) = m - 1 /\ \A j \in 1..(m - 1) : In(c, W, old[j])
  BY DEF FillGood
<1>2. old[m] \in Cells(S) /\ s # 0
  BY DEF CopyOf
<1>3. k \in Nat /\ Cell(k, s) = old[m] /\ Cell(k, s) \in Cells(S)
  BY <1>2 DEF Cells, Cell
<1>4. NoKey(c, W, k)
  <2>1. SUFFICES ASSUME NEW p \in 0..(c - 1), Occ(W, p), W[p].key = k PROVE FALSE
    BY DEF NoKey
  <2>2. In(c, W, W[p])
    BY <2>1 DEF In
  <2>3. PICK j \in 1..(m - 1) : old[j] = W[p]
    BY <1>1, <2>2
  <2>4. j \in 1..N /\ j # m /\ old[j].key = old[m].key
    BY <2>1, <2>3
  <2> QED BY <2>4 DEF CopyOf
<1> HIDE DEF k, s
<1>5. r \in PutStates(c, S) /\ PutDone(c, W, k, s, r)
  BY <1>1, <1>2, <1>3, PutEntryGood
<1> HIDE DEF r
<1>6. V \in Tables(c, S) /\ r.added \in BOOLEAN
  BY <1>5 DEF PutStates
<1>7. \A j \in 1..(m - 1) : j \in 1..m
  OBVIOUS
<1>8. ASSUME \A e : In(c, V, e) => In(c, W, e) \/ e = Cell(k, s)
      PROVE \A e : In(c, V, e) => \E j \in 1..m : old[j] = e
  <2>1. SUFFICES ASSUME NEW e, In(c, V, e) PROVE \E j \in 1..m : old[j] = e
    OBVIOUS
  <2>2. CASE In(c, W, e)
    BY <1>1, <1>7, <2>2
  <2>3. CASE e = old[m]
    BY <2>3
  <2> QED BY <1>3, <1>8, <2>1, <2>2, <2>3
<1>9. CASE r.err = "OK" /\ PutAdded(c, W, k, s, V)
  <2>1. Sound(c, V) /\ \A e : In(c, V, e) <=> In(c, W, e) \/ e = Cell(k, s)
    BY <1>9 DEF PutAdded
  <2>2. \A e : In(c, V, e) => \E j \in 1..m : old[j] = e
    BY <1>8, <2>1
  <2>3. PICK f \in 0..(c - 1) : ~Occ(W, f) /\ Occ(V, f)
                                /\ \A p \in 0..(c - 1) : p # f => (Occ(V, p) <=> Occ(W, p))
    BY <1>9 DEF PutAdded
  <2>4. Entries(V) = Entries(W) + 1
    BY <1>1, <1>6, <2>3, EntriesAdded
  <2>5. ASSUME N <= c PROVE Entries(V) = m /\ \A j \in 1..m : In(c, V, old[j])
    <3>1. Entries(V) = m
      BY <1>1, <2>4, <2>5
    <3>2. \A j \in 1..m : j = m \/ j \in 1..(m - 1)
      OBVIOUS
    <3>3. In(c, V, old[m])
      BY <1>3, <2>1
    <3>4. \A j \in 1..(m - 1) : In(c, V, old[j])
      BY <1>1, <2>1, <2>5
    <3> QED BY <3>1, <3>2, <3>3, <3>4
  <2> QED BY <1>6, <1>9, <2>1, <2>2, <2>5 DEF FillGood, r, k, s
<1>10. CASE r.err = "OK" /\ PutReplaced(c, W, k, s, V)
  <2>1. Sound(c, V) /\ \A e : In(c, V, e) => In(c, W, e) \/ e = Cell(k, s)
    BY <1>10 DEF PutReplaced
  <2>2. \A e : In(c, V, e) => \E j \in 1..m : old[j] = e
    BY <1>8, <2>1
  <2>3. ~(N <= c)
    <3>1. SUFFICES ASSUME N <= c PROVE FALSE
      OBVIOUS
    <3>2. Entries(W) < c
      BY <1>1, <3>1
    <3>3. \E f \in 0..(c - 1) : ~Occ(W, f)
      BY <1>1, <3>2, EntriesIs
    <3>4. \E p \in 0..(c - 1) : Occ(W, p) /\ W[p].key = k
      BY <1>10, <3>3 DEF PutReplaced
    <3> QED BY <1>4, <3>4 DEF NoKey
  <2> QED BY <1>6, <1>10, <2>1, <2>2, <2>3 DEF FillGood, r, k, s
<1>11. CASE r.err = "INDEX_FULL" /\ PutFull(c, W, k, s, V)
  <2>1. Sound(c, V) /\ \A e : In(c, V, e) => In(c, W, e) \/ e = Cell(k, s)
    BY <1>11 DEF PutFull
  <2>2. \A e : In(c, V, e) => \E j \in 1..m : old[j] = e
    BY <1>8, <2>1
  <2> QED BY <1>6, <1>11, <2>1, <2>2 DEF FillGood, r, k, s
<1> QED BY <1>5, <1>9, <1>10, <1>11 DEF PutDone

(* What the loop keeps when it has failed.                                 *)
LEMMA FillFailed ==
  ASSUME NEW c, NEW S, NEW N, NEW old, NEW m \in Nat, m # 0, NEW W,
         NEW err, err # "OK", FillGood(c, S, old, N, m - 1, W, err)
  PROVE FillGood(c, S, old, N, m, W, err)
<1>1. \A j \in 1..(m - 1) : j \in 1..m
  OBVIOUS
<1> QED BY <1>1 DEF FillGood

(* Before the first turn.                                                  *)
LEMMA FillStart ==
  ASSUME NEW c \in Nat, c # 0, NEW S, 0 \in S, NEW N, NEW old
  PROVE FillGood(c, S, old, N, 0, EmptyTable(c), "OK")
BY EmptyTableGood DEF FillGood

(* The turns of the loop.                                                  *)
FillFirst(c) == [table |-> EmptyTable(c), err |-> "OK"]
FillTurn(st, e) ==
  LET r == PutEntry(st.table, e.key, e.off) IN
  IF st.err # "OK" THEN st ELSE [table |-> r.table, err |-> r.err]
IsFill(f, old, c, n) ==
  f = [m \in 0..n |-> IF m = 0 THEN FillFirst(c) ELSE FillTurn(f[m - 1], old[m])]

(* There is such a function.                                               *)
LEMMA FillExists ==
  ASSUME NEW old, NEW c
  PROVE \A n \in Nat : \E f : IsFill(f, old, c, n)
<1> DEFINE S == {n \in Nat : \E f : IsFill(f, old, c, n)}
<1>1. 0 \in S
  <2> DEFINE f == [m \in 0..0 |-> FillFirst(c)]
  <2>1. f = [m \in 0..0 |-> IF m = 0 THEN FillFirst(c) ELSE FillTurn(f[m - 1], old[m])]
    OBVIOUS
  <2> QED BY <2>1 DEF IsFill
<1>2. ASSUME NEW n \in Nat, n \in S PROVE n + 1 \in S
  <2>1. PICK f : IsFill(f, old, c, n)
    BY <1>2
  <2> DEFINE g == [m \in 0..n + 1 |-> IF m = 0 THEN FillFirst(c) ELSE FillTurn(f[m - 1], old[m])]
  <2>2. \A m \in 0..n : g[m] = f[m]
    BY <2>1 DEF IsFill
  <2>3. \A m \in 0..n + 1 : m # 0 => m - 1 \in 0..n
    OBVIOUS
  <2>4. g = [m \in 0..n + 1 |-> IF m = 0 THEN FillFirst(c) ELSE FillTurn(g[m - 1], old[m])]
    BY <2>2, <2>3
  <2>5. IsFill(g, old, c, n + 1)
    BY <2>4 DEF IsFill
  <2> HIDE DEF g
  <2> QED BY <2>5
<1> HIDE DEF S
<1>3. \A n \in Nat : n \in S
  BY <1>1, <1>2, SetInduction
<1> QED BY <1>3 DEF S

(* ef_index_rehash_to leaves a table in order, with entries of the old one *)
(* only; if it does not fail, and there are positions for all of them, it  *)
(* has them all.                                                           *)
LEMMA RefillGood ==
  ASSUME NEW c \in Nat, c # 0, NEW d \in Nat, d # 0, NEW S, 0 \in S,
         NEW T \in Tables(c, S), Sound(c, T)
  PROVE LET r == Refill(T, d) IN
        /\ r.table \in Tables(d, S) /\ Sound(d, r.table) /\ r.err \in {"OK", "INDEX_FULL"}
        /\ \A e : In(d, r.table, e) => In(c, T, e)
        /\ r.err = "OK" /\ Entries(T) <= d =>
             Entries(r.table) = Entries(T) /\ \A e : In(c, T, e) => In(d, r.table, e)
<1> DEFINE old == Backup(T)
           N == Entries(T)
           f == CHOOSE g : IsFill(g, old, d, N)
           A == {m \in 0..N : FillGood(d, S, old, N, m, f[m].table, f[m].err)}
<1>1. /\ N \in Nat /\ Len(old) = N
      /\ \A n \in 1..N : In(c, T, old[n]) /\ old[n] \in Cells(S) /\ old[n].off # 0
      /\ \A e : In(c, T, e) => \E n \in 1..N : old[n] = e
      /\ \A m, n \in 1..N : old[m].key = old[n].key => m = n
  BY BackupGood
<1>2. Refill(T, d) = f[N]
  BY <1>1 DEF Refill, IsFill, FillFirst, FillTurn
<1>3. IsFill(f, old, d, N)
  BY <1>1, FillExists
<1> HIDE DEF f, old, N
<1>4. CopyOf(S, old, N)
  BY <1>1 DEF CopyOf
<1>5. 0 \in A
  <2>1. f[0].table = EmptyTable(d) /\ f[0].err = "OK"
    BY <1>1, <1>3 DEF IsFill, FillFirst
  <2> QED BY <1>1, <2>1, FillStart
<1>6. ASSUME NEW m \in 1..N, m - 1 \in A PROVE m \in A
  <2>1. FillGood(d, S, old, N, m - 1, f[m - 1].table, f[m - 1].err)
    BY <1>6
  <2>2. f[m] = FillTurn(f[m - 1], old[m])
    BY <1>1, <1>3 DEF IsFill
  <2>3. CASE f[m - 1].err # "OK"
    <3>1. f[m] = f[m - 1]
      BY <2>2, <2>3 DEF FillTurn
    <3> DEFINE W == f[m - 1].table
               x == f[m - 1].err
    <3>3. m \in Nat /\ m # 0 /\ x # "OK" /\ FillGood(d, S, old, N, m - 1, W, x)
      BY <1>1, <2>1, <2>3
    <3> HIDE DEF W, x
    <3>4. FillGood(d, S, old, N, m, W, x)
      BY <3>3, FillFailed
    <3>2. FillGood(d, S, old, N, m, f[m - 1].table, f[m - 1].err)
      BY <3>4 DEF W, x
    <3> QED BY <1>1, <3>1, <3>2
  <2>4. CASE f[m - 1].err = "OK"
    <3> DEFINE W == f[m - 1].table
               r == PutEntry(W, old[m].key, old[m].off)
    <3>1. f[m].table = r.table /\ f[m].err = r.err
      BY <2>2, <2>4 DEF FillTurn
    <3>2. FillGood(d, S, old, N, m - 1, W, "OK")
      BY <2>1, <2>4
    <3> HIDE DEF W
    <3>3. FillGood(d, S, old, N, m, r.table, r.err)
      BY <1>1, <1>4, <3>2, FillStepGood
    <3> QED BY <1>1, <3>1, <3>3
  <2> QED BY <2>3, <2>4
<1> HIDE DEF A
<1>7. N \in A
  BY <1>1, <1>5, <1>6, BoundedInduction
<1>8. FillGood(d, S, old, N, N, f[N].table, f[N].err)
  BY <1>7 DEF A
<1> DEFINE r == Refill(T, d)
<1>9. /\ r.table \in Tables(d, S) /\ Sound(d, r.table) /\ r.err \in {"OK", "INDEX_FULL"}
      /\ \A e : In(d, r.table, e) => \E j \in 1..N : old[j] = e
      /\ r.err = "OK" /\ N <= d => Entries(r.table) = N /\ \A j \in 1..N : In(d, r.table, old[j])
  BY <1>2, <1>8 DEF FillGood
<1> HIDE DEF r
<1>10. \A e : In(d, r.table, e) => In(c, T, e)
  <2>1. \A n \in 1..N : In(c, T, old[n])
    BY <1>1
  <2>2. \A e : In(d, r.table, e) => \E j \in 1..N : old[j] = e
    BY <1>9
  <2> QED BY <2>1, <2>2
<1>11. ASSUME r.err = "OK", N <= d
       PROVE Entries(r.table) = N /\ \A e : In(c, T, e) => In(d, r.table, e)
  <2>1. Entries(r.table) = N /\ \A j \in 1..N : In(d, r.table, old[j])
    BY <1>9, <1>11
  <2>2. \A e : In(c, T, e) => \E n \in 1..N : old[n] = e
    BY <1>1
  <2> QED BY <2>1, <2>2
<1> QED BY <1>9, <1>10, <1>11 DEF r, N
=============================================================================
