--------------------------- MODULE Queries_proofs ---------------------------
(***************************************************************************)
(* Proofs about SignedMath, for every width of the integers, and about     *)
(* Queries, for every set of accounts and of transfers, every limit, page  *)
(* and clock: arithmetic first, then sums, then listings, then the theorems *)
(* about the clients.                                                      *)
(***************************************************************************)
EXTENDS Queries, FiniteSetTheorems, TLAPS

(* Wrapping adds a multiple of the modulus and ends in the range.            *)
LEMMA WrapCongruent ==
  ASSUME NEW n \in Int
  PROVE  /\ Wrapped(n) \in I64
         /\ \E q \in Int : n = Wrapped(n) + q * Modulus
<1> DEFINE m == n + MaxSigned + 1
<1>1. m \in Int /\ Modulus \in Nat /\ Modulus > 0 /\ MaxSigned \in Nat
  BY WidthAssumption DEF Modulus
<1>2. m % Modulus \in 0 .. (Modulus - 1) /\ m \div Modulus \in Int
      /\ m = Modulus * (m \div Modulus) + (m % Modulus)
  BY <1>1
<1>3. Wrapped(n) = (m % Modulus) - MaxSigned - 1
  BY DEF Wrapped
<1>4. Wrapped(n) \in I64
  BY <1>1, <1>2, <1>3 DEF I64, Modulus
<1>5. n = Wrapped(n) + (m \div Modulus) * Modulus
  BY <1>1, <1>2, <1>3
<1> QED
  BY <1>2, <1>4, <1>5

(* Two numbers of the range that differ by a multiple of the modulus are     *)
(* the same.                                                                 *)
LEMMA RangeApart ==
  ASSUME NEW x \in I64, NEW y \in I64, NEW q \in Int, x = y + q * Modulus
  PROVE  x = y
<1>1. Modulus \in Nat /\ x \in Int /\ y \in Int /\ x - y < Modulus /\ y - x < Modulus /\ Modulus > 0
  BY WidthAssumption DEF I64, Modulus
<1>2. q * Modulus < Modulus /\ -(q * Modulus) < Modulus
  BY <1>1
<1> HIDE DEF Modulus
<1>3. ~(q >= 1)
  <2> SUFFICES ASSUME q >= 1 PROVE FALSE
    OBVIOUS
  <2>1. q * Modulus = Modulus + (q - 1) * Modulus
    BY <1>1
  <2>2. (q - 1) * Modulus >= 0
    BY <1>1
  <2> QED
    BY <1>1, <1>2, <2>1, <2>2
<1>4. ~(q <= -1)
  <2> SUFFICES ASSUME q <= -1 PROVE FALSE
    OBVIOUS
  <2>1. -(q * Modulus) = Modulus + (-q - 1) * Modulus
    BY <1>1
  <2>2. (-q - 1) * Modulus >= 0
    BY <1>1
  <2> QED
    BY <1>1, <1>2, <2>1, <2>2
<1>5. q = 0
  BY <1>3, <1>4
<1> QED
  BY <1>1, <1>5

(* The one fact about products that the solver has to be told.               *)
LEMMA Distributes ==
  ASSUME NEW a \in Int, NEW b \in Int, NEW m \in Int
  PROVE  (a - b) * m = a * m - b * m /\ (a + b) * m = a * m + b * m
         /\ a * m \in Int /\ b * m \in Int
  OBVIOUS

(* What the casts of two sums and their subtraction lose is a multiple of    *)
(* the modulus.                                                              *)
LEMMA DifferenceCongruent ==
  ASSUME NEW cr \in Nat, NEW de \in Nat
  PROVE  /\ Difference(cr, de) \in I64
         /\ \E q \in Int : cr - de = Difference(cr, de) + q * Modulus
<1> DEFINE raw == Wrapped(cr) - Wrapped(de)
<1>1. Modulus \in Int /\ \A x \in I64 : x \in Int
  BY WidthAssumption DEF Modulus, I64
<1>2. PICK c \in Int : cr = Wrapped(cr) + c * Modulus
  BY WrapCongruent
<1>3. PICK d \in Int : de = Wrapped(de) + d * Modulus
  BY WrapCongruent
<1>4. Wrapped(cr) \in Int /\ Wrapped(de) \in Int /\ raw \in Int
  <2>1. Wrapped(cr) \in I64 /\ Wrapped(de) \in I64
    BY WrapCongruent
  <2>2. Wrapped(cr) \in Int /\ Wrapped(de) \in Int
    BY <1>1, <2>1
  <2> QED
    BY <2>2
<1>5. PICK r \in Int : raw = Wrapped(raw) + r * Modulus
  BY <1>4, WrapCongruent
<1>6. Wrapped(raw) \in I64 /\ Wrapped(raw) \in Int
  BY <1>1, <1>4, WrapCongruent
<1> HIDE DEF Modulus, raw
<1> DEFINE cm == c * Modulus
           dm == d * Modulus
           rm == r * Modulus
           cdm == (c - d) * Modulus
<1>7. /\ cm \in Int /\ dm \in Int /\ rm \in Int /\ cdm \in Int
      /\ cdm = cm - dm /\ (r + (c - d)) * Modulus = rm + cdm
  BY <1>1, Distributes
<1>8. cr - de = Wrapped(raw) + (rm + cdm)
  <2>1. cr = Wrapped(cr) + cm /\ de = Wrapped(de) + dm
        /\ raw = Wrapped(raw) + rm
    BY <1>2, <1>3, <1>5
  <2> HIDE DEF cm, dm, rm, cdm
  <2> QED
    BY <1>4, <1>6, <1>7, <2>1 DEF raw
<1>9. cr - de = Wrapped(raw) + (r + (c - d)) * Modulus /\ r + (c - d) \in Int
  BY <1>7, <1>8
<1> QED
  BY <1>6, <1>9 DEF Difference, RawDifference, raw

(* "credits_posted as i64 - debits_posted as i64" is exact whenever the      *)
(* balance fits an i64, however far beyond it the two sums are: what the     *)
(* casts lose, the subtraction gives back (handlers/user.rs).                *)
THEOREM DifferenceIsExact ==
  \A cr, de \in Nat :
    cr - de \in I64 => Difference(cr, de) = cr - de
<1> SUFFICES ASSUME NEW cr \in Nat, NEW de \in Nat, cr - de \in I64
             PROVE  Difference(cr, de) = cr - de
  OBVIOUS
<1>1. PICK q \in Int : cr - de = Difference(cr, de) + q * Modulus
  BY DifferenceCongruent
<1> QED
  BY <1>1, DifferenceCongruent, RangeApart

(* "credits_posted.saturating_sub(debits_posted) as i64" never shows more    *)
(* than there is, so the check of a priority refuses sooner than it is       *)
(* deceived (handlers/priority.rs).                                          *)
THEOREM AvailableIsCovered ==
  \A cr, de \in Nat :
    de <= cr => Available(cr, de) <= cr - de
<1> SUFFICES ASSUME NEW cr \in Nat, NEW de \in Nat, de <= cr
             PROVE  Available(cr, de) <= cr - de
  OBVIOUS
<1> DEFINE n == cr - de
<1>1. n \in Int /\ n >= 0 /\ Available(cr, de) = Wrapped(n)
  BY DEF Available
<1>2. Wrapped(n) \in I64 /\ \E q \in Int : n = Wrapped(n) + q * Modulus
  BY <1>1, WrapCongruent
<1>3. PICK q \in Int : n = Wrapped(n) + q * Modulus
  BY <1>2
<1>4. /\ Modulus \in Nat /\ MaxSigned \in Nat /\ MaxSigned < Modulus
      /\ Wrapped(n) \in Int /\ Wrapped(n) <= MaxSigned
  BY <1>2, WidthAssumption DEF Modulus, I64
<1> HIDE DEF Modulus, n
<1>5. CASE q >= 0
  <2>1. q * Modulus >= 0
    BY <1>4, <1>5
  <2> QED
    BY <1>1, <1>3, <1>4, <2>1 DEF n
<1>6. CASE q <= -1
  <2>1. q * Modulus = -Modulus + (q + 1) * Modulus /\ (q + 1) * Modulus <= 0
    BY <1>4, <1>6
  <2> QED
    BY <1>1, <1>3, <1>4, <2>1
<1> QED
  BY <1>5, <1>6

-----------------------------------------------------------------------------
(* Sums over finite sets.  The fold of the community module chooses a       *)
(* function that adds up (Adder); it is shown to exist and to be the only one. *)

Pick(s) == CHOOSE x \in s : TRUE

Adds(g, f, S) ==
  g = [u \in SUBSET S |-> IF u = {} THEN 0 ELSE f[Pick(u)] + g[u \ {Pick(u)}]]
Adder(f, S) == CHOOSE g : Adds(g, f, S)

(* A non-empty set of subsets of a finite set has a smallest member.  What   *)
(* holds for every sum is proved from it: of the sets for which it does not, *)
(* take a smallest one, and take one element from that.                      *)
LEMMA Smallest ==
  ASSUME NEW S, IsFiniteSet(S), NEW T, T \subseteq SUBSET S, T # {}
  PROVE  \E u \in T : \A v \in T : v \subseteq u => v = u
<1>1. IsWellFoundedOn(StrictSubsetOrdering(S), SUBSET S)
  BY FS_StrictSubsetOrderingWellFounded, FS_FiniteSubsetsOfFinite
<1>2. PICK u \in T : \A v \in T : ~(<<v, u>> \in StrictSubsetOrdering(S))
  BY <1>1, WFMin
<1>3. ASSUME NEW v \in T, v \subseteq u, v # u PROVE FALSE
  BY <1>2, <1>3 DEF StrictSubsetOrdering
<1> QED
  BY <1>3

(* The element that a fold takes first.                                      *)
LEMMA PickIn == ASSUME NEW u, u # {} PROVE Pick(u) \in u
  BY DEF Pick

(* At most one function adds f up over the subsets of a finite set.          *)
LEMMA AddsOnce ==
  ASSUME NEW f, NEW S, IsFiniteSet(S), NEW g, NEW h, Adds(g, f, S), Adds(h, f, S)
  PROVE  g = h
<1> DEFINE T == {u \in SUBSET S : g[u] # h[u]}
<1>0. /\ \A u \in SUBSET S : g[u] = IF u = {} THEN 0 ELSE f[Pick(u)] + g[u \ {Pick(u)}]
      /\ \A u \in SUBSET S : h[u] = IF u = {} THEN 0 ELSE f[Pick(u)] + h[u \ {Pick(u)}]
  BY DEF Adds
<1>1. T = {}
  <2> SUFFICES ASSUME T # {} PROVE FALSE
    OBVIOUS
  <2>0. T \subseteq SUBSET S
    OBVIOUS
  <2> HIDE DEF T
  <2>1. PICK u \in T : \A v \in T : v \subseteq u => v = u
    BY <2>0, Smallest
  <2> USE DEF T
  <2>2. u # {}
    BY <1>0
  <2>3. u \ {Pick(u)} \in SUBSET S /\ u \ {Pick(u)} \subseteq u /\ u \ {Pick(u)} # u
    BY <2>2, PickIn
  <2>4. g[u \ {Pick(u)}] = h[u \ {Pick(u)}]
    BY <2>1, <2>3
  <2> QED
    BY <1>0, <2>2, <2>4
<1>2. \A u \in SUBSET S : g[u] = h[u]
  BY <1>1
<1> DEFINE gg(u) == IF u = {} THEN 0 ELSE f[Pick(u)] + g[u \ {Pick(u)}]
           hh(u) == IF u = {} THEN 0 ELSE f[Pick(u)] + h[u \ {Pick(u)}]
<1>3. g = [u \in SUBSET S |-> gg(u)] /\ h = [u \in SUBSET S |-> hh(u)]
  BY DEF Adds
<1>4. \A u \in SUBSET S : gg(u) = hh(u)
  BY <1>0, <1>2
<1> HIDE DEF gg, hh
<1> QED
  BY <1>3, <1>4

(* MapThenSumSet in the terms used here.                                     *)
LEMMA SumIsAdder ==
  ASSUME NEW f, NEW S PROVE TotalOf(f, S) = Adder(f, S)[S]
  BY DEF TotalOf, MapThenSumSet, MapThenFoldSet, Adder, Adds, Pick

(* A function that adds up over S does so over every subset.                 *)
LEMMA Restricted ==
  ASSUME NEW f, NEW S, NEW g, Adds(g, f, S), NEW u \in SUBSET S
  PROVE  Adds([v \in SUBSET u |-> g[v]], f, u)
<1> DEFINE r == [v \in SUBSET u |-> g[v]]
           rr(v) == IF v = {} THEN 0 ELSE f[Pick(v)] + r[v \ {Pick(v)}]
<1>1. \A v \in SUBSET S : g[v] = IF v = {} THEN 0 ELSE f[Pick(v)] + g[v \ {Pick(v)}]
  BY DEF Adds
<1>2. \A v \in SUBSET u : g[v] = rr(v)
  BY <1>1
<1> HIDE DEF rr
<1>3. r = [v \in SUBSET u |-> rr(v)]
  BY <1>2
<1> QED
  BY <1>3 DEF Adds, rr

(* There is a function that adds up.                                         *)
LEMMA AdderAdds ==
  ASSUME NEW f, NEW S, IsFiniteSet(S)
  PROVE  Adds(Adder(f, S), f, S)
<1> DEFINE T == {u \in SUBSET S : ~Adds(Adder(f, u), f, u)}
<1> SUFFICES ASSUME T # {} PROVE FALSE
  OBVIOUS
<1>0. T \subseteq SUBSET S
  OBVIOUS
<1> HIDE DEF T
<1>1. PICK u \in T : \A v \in T : v \subseteq u => v = u
  BY <1>0, Smallest
<1> USE DEF T
<1>2. \A v \in SUBSET u : v # u => Adds(Adder(f, v), f, v)
  BY <1>1
<1> DEFINE rest(v) == v \ {Pick(v)}
           gg(v) == IF v = {} THEN 0 ELSE f[Pick(v)] + Adder(f, rest(v))[rest(v)]
           g == [v \in SUBSET u |-> gg(v)]
<1>3. \A v \in SUBSET u : v # {} => rest(v) \in SUBSET u /\ rest(v) # u
  BY PickIn
<1>4. \A v \in SUBSET u : v # u => g[v] = Adder(f, v)[v]
  <2> SUFFICES ASSUME NEW v \in SUBSET u, v # u PROVE gg(v) = Adder(f, v)[v]
    OBVIOUS
  <2>1. Adds(Adder(f, v), f, v)
    BY <1>2
  <2>2. CASE v = {}
    BY <2>1, <2>2 DEF Adds
  <2>3. CASE v # {}
    <3>1. rest(v) \in SUBSET v /\ rest(v) \in SUBSET u /\ rest(v) # u
      BY <1>3, <2>3
    <3>2. Adder(f, v)[v] = f[Pick(v)] + Adder(f, v)[rest(v)]
      BY <2>1, <2>3 DEF Adds
    <3>3. Adds([w \in SUBSET rest(v) |-> Adder(f, v)[w]], f, rest(v))
      BY <2>1, <3>1, Restricted
    <3>4. IsFiniteSet(rest(v)) /\ Adds(Adder(f, rest(v)), f, rest(v))
      BY <1>2, <3>1, FS_Subset
    <3>5. [w \in SUBSET rest(v) |-> Adder(f, v)[w]] = Adder(f, rest(v))
      BY <3>3, <3>4, AddsOnce
    <3>6. Adder(f, rest(v))[rest(v)] = Adder(f, v)[rest(v)]
      BY <3>5
    <3> QED
      BY <2>3, <3>2, <3>6
  <2> QED
    BY <2>2, <2>3
<1> DEFINE hh(v) == IF v = {} THEN 0 ELSE f[Pick(v)] + g[v \ {Pick(v)}]
<1>5. \A v \in SUBSET u : gg(v) = hh(v)
  BY <1>3, <1>4
<1>6. g = [v \in SUBSET u |-> hh(v)]
  <2> HIDE DEF hh
  <2> QED
    BY <1>5
<1>7. Adds(g, f, u)
  BY <1>6 DEF Adds
<1>8. Adds(Adder(f, u), f, u)
  <2> HIDE DEF g
  <2> QED
    BY <1>7 DEF Adder
<1> QED
  BY <1>1, <1>8

(* A sum is one of its elements and the sum of the rest.                     *)
LEMMA SumUnfolds ==
  ASSUME NEW f, NEW S, IsFiniteSet(S)
  PROVE  /\ S = {} => TotalOf(f, S) = 0
         /\ S # {} => TotalOf(f, S) = f[Pick(S)] + TotalOf(f, S \ {Pick(S)})
<1> DEFINE R == S \ {Pick(S)}
<1>1. Adds(Adder(f, S), f, S)
  BY AdderAdds
<1>2. Adder(f, S)[S] = IF S = {} THEN 0 ELSE f[Pick(S)] + Adder(f, S)[R]
  BY <1>1 DEF Adds
<1>3. R \in SUBSET S /\ IsFiniteSet(R)
  BY FS_Subset
<1>4. Adds([w \in SUBSET R |-> Adder(f, S)[w]], f, R) /\ Adds(Adder(f, R), f, R)
  BY <1>1, <1>3, Restricted, AdderAdds
<1>5. Adder(f, R)[R] = Adder(f, S)[R]
  <2>1. [w \in SUBSET R |-> Adder(f, S)[w]] = Adder(f, R)
    BY <1>3, <1>4, AddsOnce
  <2> QED
    BY <2>1
<1> QED
  BY <1>2, <1>5, SumIsAdder

(* A sum of integers is one. *)
LEMMA TotalIsInt ==
  ASSUME NEW S, IsFiniteSet(S), NEW f \in [S -> Int]
  PROVE  \A u \in SUBSET S : TotalOf(f, u) \in Int
<1> DEFINE T == {u \in SUBSET S : TotalOf(f, u) \notin Int}
<1> SUFFICES ASSUME T # {} PROVE FALSE
  OBVIOUS
<1>1. PICK u \in T : \A v \in T : v \subseteq u => v = u
  <2>1. T \subseteq SUBSET S
    OBVIOUS
  <2> HIDE DEF T
  <2> QED
    BY <2>1, Smallest
<1>2. IsFiniteSet(u)
  BY FS_Subset
<1>3. u # {}
  BY <1>2, SumUnfolds
<1>4. Pick(u) \in S /\ TotalOf(f, u \ {Pick(u)}) \in Int
  BY <1>1, <1>3, PickIn
<1> QED
  BY <1>2, <1>3, <1>4, SumUnfolds

(* Sums of numbers that differ by multiples of the modulus differ by one.   *)
LEMMA TotalsCongruent ==
  ASSUME NEW S, IsFiniteSet(S), NEW f \in [S -> Int], NEW g \in [S -> Int],
         \A x \in S : \E q \in Int : f[x] = g[x] + q * Modulus
  PROVE  \E q \in Int : TotalOf(f, S) = TotalOf(g, S) + q * Modulus
<1> DEFINE Close(u) == \E q \in Int : TotalOf(f, u) = TotalOf(g, u) + q * Modulus
           T == {u \in SUBSET S : ~Close(u)}
<1> SUFFICES ASSUME T # {} PROVE FALSE
  OBVIOUS
<1>1. PICK u \in T : \A v \in T : v \subseteq u => v = u
  <2>1. T \subseteq SUBSET S
    OBVIOUS
  <2> HIDE DEF T
  <2> QED
    BY <2>1, Smallest
<1>2. IsFiniteSet(u) /\ Modulus \in Int
  BY FS_Subset, WidthAssumption DEF Modulus
<1>3. u # {}
  <2> SUFFICES ASSUME u = {} PROVE Close(u)
    OBVIOUS
  <2>1. TotalOf(f, u) = 0 /\ TotalOf(g, u) = 0
    BY <1>2, SumUnfolds
  <2>2. 0 = 0 + 0 * Modulus
    BY <1>2
  <2> QED
    BY <2>1, <2>2
<1> DEFINE x == Pick(u)
           r == u \ {x}
<1>4. x \in S /\ r \in SUBSET S /\ Close(r)
  BY <1>1, <1>3, PickIn
<1>5. PICK q \in Int : TotalOf(f, r) = TotalOf(g, r) + q * Modulus
  BY <1>4
<1>6. PICK p \in Int : f[x] = g[x] + p * Modulus
  BY <1>4
<1>7. TotalOf(f, u) = f[x] + TotalOf(f, r) /\ TotalOf(g, u) = g[x] + TotalOf(g, r)
  BY <1>2, <1>3, SumUnfolds
<1>8. TotalOf(g, r) \in Int /\ g[x] \in Int
  BY <1>4, TotalIsInt
<1> DEFINE pm == p * Modulus
           qm == q * Modulus
<1>9. pm \in Int /\ qm \in Int /\ (p + q) * Modulus = pm + qm
  BY <1>2, Distributes
<1>10. TotalOf(f, u) = TotalOf(g, u) + (p + q) * Modulus
  <2> HIDE DEF pm, qm, x, r
  <2> QED
    BY <1>5, <1>6, <1>7, <1>8, <1>9 DEF pm, qm
<1> QED
  BY <1>1, <1>10

-----------------------------------------------------------------------------
(* Listings. *)

(* The rows that come before a row in every listing.                        *)
Above(t) == {r \in rows : stamp[r] > stamp[t]}

(* The rows and what is above a row can be counted, in an i64.               *)
LEMMA RowsFinite ==
  ASSUME TypeOK
  PROVE  /\ IsFiniteSet(rows) /\ Cardinality(rows) \in Nat
         /\ Cardinality(rows) + MaxLimit <= MaxSigned
         /\ \A t : IsFiniteSet(Above(t)) /\ Cardinality(Above(t)) \in Nat
<1>1. rows \subseteq Transfer
  BY DEF TypeOK
<1>2. /\ IsFiniteSet(rows) /\ Cardinality(rows) \in Nat /\ Cardinality(Transfer) \in Nat
      /\ Cardinality(rows) <= Cardinality(Transfer)
  BY <1>1, TableFits, FS_Subset, FS_CardinalityType
<1>3. \A t : Above(t) \subseteq rows
  BY DEF Above
<1> QED
  BY <1>2, <1>3, TableFits, QueriesAssumption, WidthAssumption, FS_Subset, FS_CardinalityType

(* A listing has every row, once.                                            *)
LEMMA ListingIsComplete ==
  ASSUME TypeOK, NEW s \in Listings
  PROVE  /\ DOMAIN s = 1 .. Cardinality(rows)
         /\ \A i \in DOMAIN s : s[i] \in rows
         /\ \A i, j \in DOMAIN s : s[i] = s[j] => i = j
         /\ \A t \in rows : \E i \in DOMAIN s : s[i] = t
         /\ \A i, j \in DOMAIN s : i < j => stamp[s[i]] >= stamp[s[j]]
<1> DEFINE D == 1 .. Cardinality(rows)
<1>1. /\ s \in [D -> rows] /\ \A i, j \in D : i # j => s[i] # s[j]
      /\ \A i, j \in D : i < j => stamp[s[i]] >= stamp[s[j]]
  BY DEF Listings, SetToSeqs
<1>2. s \in Injection(D, rows)
  BY <1>1 DEF Injection, IsInjective
<1>3. Cardinality(D) = Cardinality(rows)
  BY RowsFinite, FS_Interval
<1>4. s \in Surjection(D, rows)
  BY <1>2, <1>3, RowsFinite, FS_Injection
<1> QED
  BY <1>1, <1>4 DEF Surjection

(* A row with a time of its own has the same place in every listing.         *)
LEMMA Place ==
  ASSUME TypeOK, NEW s \in Listings, NEW t \in rows, ~Tied(t)
  PROVE  /\ Cardinality(Above(t)) + 1 \in DOMAIN s
         /\ s[Cardinality(Above(t)) + 1] = t
<1>1. PICK k \in DOMAIN s : s[k] = t
  BY ListingIsComplete
<1>2. k \in Nat /\ k >= 1 /\ \A i \in 1 .. (k - 1) : i \in DOMAIN s /\ i < k
  BY RowsFinite, ListingIsComplete
<1>3. \A r \in rows : stamp[r] \in Nat
  BY DEF TypeOK
<1> DEFINE g == [i \in 1 .. (k - 1) |-> s[i]]
<1>4. \A i \in 1 .. (k - 1) : s[i] \in Above(t)
  <2> SUFFICES ASSUME NEW i \in 1 .. (k - 1) PROVE s[i] \in Above(t)
    OBVIOUS
  <2>1. s[i] \in rows /\ s[i] # t /\ stamp[s[i]] >= stamp[t]
    BY <1>1, <1>2, ListingIsComplete
  <2>2. stamp[s[i]] # stamp[t]
    BY <2>1 DEF Tied
  <2> QED
    BY <1>3, <2>1, <2>2 DEF Above
<1>5. \A r \in Above(t) : \E i \in 1 .. (k - 1) : g[i] = r
  <2> SUFFICES ASSUME NEW r \in Above(t) PROVE \E i \in 1 .. (k - 1) : g[i] = r
    OBVIOUS
  <2>1. PICK i \in DOMAIN s : s[i] = r
    BY ListingIsComplete DEF Above
  <2>2. r \in rows /\ stamp[r] > stamp[t] /\ i \in Nat /\ i >= 1
    BY RowsFinite, ListingIsComplete DEF Above
  <2>3. ~(k < i)
    BY <1>1, <1>3, <2>1, <2>2, ListingIsComplete
  <2>4. i # k
    BY <1>1, <1>3, <2>1, <2>2
  <2> QED
    BY <1>2, <2>1, <2>2, <2>3, <2>4
<1>6. \A i, j \in 1 .. (k - 1) : g[i] = g[j] => i = j
  BY <1>2, ListingIsComplete
<1>7. ExistsBijection(1 .. (k - 1), Above(t))
  <2>1. g \in [1 .. (k - 1) -> Above(t)]
    BY <1>4
  <2> HIDE DEF g
  <2> QED
    BY <1>5, <1>6, <2>1
    DEF ExistsBijection, Bijection, Injection, Surjection, IsInjective
<1>8. Cardinality(Above(t)) = k - 1
  BY <1>2, <1>7, FS_CountingElements
<1> QED
  BY <1>1, <1>2, <1>8

-----------------------------------------------------------------------------
(* The invariant. *)

(* What the ledger keeps for the flag DebitsMustNotExceedCredits.            *)
LedgerInv ==
  \A a \in Account :
    /\ debits[a] <= credits[a]
    /\ a \notin opened => credits[a] = 0 /\ debits[a] = 0

(* A walker: a row that is due and not yet shown has at least as many rows   *)
(* before it as the walker has left behind.  Its offset stays within a page  *)
(* of the rows.                                                              *)
StillAhead(t) ==
  listing.at \in {"count", "select"} /\ TrueOffset(listing) <= Cardinality(Above(t))
WalkInv ==
  client = "walker" =>
    /\ listing.at # "failed" /\ listing.page >= 1
    /\ listing.at = "new" => listing.page = 1 /\ listing.due = {}
    /\ TrueOffset(listing) < Cardinality(rows) + LimitOf(listing)
    /\ listing.due \subseteq rows
    /\ \A t \in listing.due : t \in listing.shown \/ Tied(t) \/ StillAhead(t)

(* A reader: the total it was given is not above the rows there are.         *)
ReadInv ==
  client = "reader" =>
    /\ listing.at # "count"
    /\ listing.at = "select" => listing.total <= Cardinality(rows)
    /\ listing.at \in {"new", "select"} => listing.shown = {}

IInv ==
  /\ TypeOK /\ LedgerInv /\ WalkInv /\ ReadInv
  /\ ExistingPageIsShown /\ BalancesAreExact /\ AcceptedIsCovered

(* The limit is from 1 to MaxLimit and the product of an offset is a number. *)
LEMMA LimitBound ==
  ASSUME TypeOK
  PROVE  /\ LimitOf(listing) \in Nat /\ 1 <= LimitOf(listing) /\ LimitOf(listing) <= MaxLimit
         /\ PageOf(listing) \in Nat /\ PageOf(listing) >= 1
         /\ TrueOffset(listing) \in Nat
         /\ PageOf(listing) \in I64
<1>1. listing.limit \in Int /\ listing.page \in I64 /\ listing.page \in Int /\ 1 \in I64
  BY WidthAssumption DEF TypeOK, I64
<1>2. /\ LimitOf(listing) \in Nat /\ 1 <= LimitOf(listing) /\ LimitOf(listing) <= MaxLimit
      /\ PageOf(listing) \in Nat /\ PageOf(listing) >= 1 /\ PageOf(listing) \in I64
  BY <1>1, QueriesAssumption DEF LimitOf, PageOf, Lower, Higher
<1>3. TrueOffset(listing) \in Nat
  <2> DEFINE l == LimitOf(listing)
             p == PageOf(listing) - 1
  <2>1. l \in Nat /\ p \in Nat
    BY <1>2
  <2> HIDE DEF l, p
  <2>2. p * l \in Nat
    BY <2>1
  <2> QED
    BY <2>2 DEF TrueOffset, l, p
<1> QED
  BY <1>2, <1>3

(* An offset in range is not changed by wrapping.                            *)
LEMMA InRange ==
  ASSUME NEW n \in I64 PROVE Wrapped(n) = n /\ ~Overflows(n)
<1>1. n \in Int /\ 0 <= n + MaxSigned + 1 /\ n + MaxSigned + 1 < Modulus
      /\ Modulus \in Nat /\ Modulus > 0 /\ MaxSigned \in Nat
  BY WidthAssumption DEF I64, Modulus
<1>2. (n + MaxSigned + 1) % Modulus = n + MaxSigned + 1
  BY <1>1
<1> QED
  BY <1>1, <1>2 DEF Wrapped, Overflows

(* A walker's offset is the product, and its page is not above it by more    *)
(* than one.                                                                 *)
LEMMA OffsetFits ==
  ASSUME TypeOK, WalkInv, client = "walker"
  PROVE  /\ Offset(listing) = TrueOffset(listing) /\ ~Overflows(TrueOffset(listing))
         /\ PageOf(listing) = listing.page
         /\ listing.page <= TrueOffset(listing) + 1
         /\ TrueOffset(listing) = (listing.page - 1) * LimitOf(listing)
<1>1. /\ LimitOf(listing) \in Nat /\ 1 <= LimitOf(listing) /\ LimitOf(listing) <= MaxLimit
      /\ TrueOffset(listing) \in Nat
  BY LimitBound
<1>2. TrueOffset(listing) < Cardinality(rows) + LimitOf(listing) /\ listing.page >= 1
  BY DEF WalkInv
<1>3. TrueOffset(listing) \in I64
  BY <1>1, <1>2, RowsFinite, WidthAssumption, QueriesAssumption DEF I64
<1>4. listing.page \in Int /\ PageOf(listing) = listing.page
  BY <1>2, WidthAssumption DEF TypeOK, I64, PageOf, Higher
<1>5. TrueOffset(listing) = (listing.page - 1) * LimitOf(listing)
  BY <1>4 DEF TrueOffset
<1>6. listing.page - 1 <= (listing.page - 1) * LimitOf(listing)
  <2> DEFINE p == listing.page - 1
             l == LimitOf(listing) - 1
  <2>1. p \in Nat /\ l \in Nat /\ LimitOf(listing) = l + 1 /\ listing.page - 1 = p
    BY <1>1, <1>2, <1>4
  <2> HIDE DEF p, l
  <2>2. p * (l + 1) = p * l + p /\ p * l \in Nat
    BY <2>1
  <2> QED
    BY <2>1, <2>2
<1> QED
  BY <1>1, <1>2, <1>3, <1>4, <1>5, <1>6, InRange DEF Offset

(* A page is empty exactly if its offset is beyond the rows.                 *)
LEMMA CutOfListing ==
  ASSUME TypeOK, NEW s \in Listings, Offset(listing) \in Nat
  PROVE  /\ Cut(s, listing) \subseteq rows
         /\ Cut(s, listing) # {} <=> Offset(listing) < Cardinality(rows)
<1>1. /\ Cardinality(rows) \in Nat /\ DOMAIN s = 1 .. Cardinality(rows)
      /\ \A i \in DOMAIN s : s[i] \in rows
  BY RowsFinite, ListingIsComplete
<1>2. LimitOf(listing) \in Nat /\ 1 <= LimitOf(listing)
  BY LimitBound
<1>3. Cut(s, listing) \subseteq rows
  BY <1>1 DEF Cut
<1>4. Cut(s, listing) # {} => Offset(listing) < Cardinality(rows)
  BY <1>1, <1>2 DEF Cut
<1>5. ASSUME Offset(listing) < Cardinality(rows)
      PROVE  s[Offset(listing) + 1] \in Cut(s, listing)
  <2>1. Offset(listing) + 1 \in DOMAIN s
    BY <1>1, <1>5
  <2>2. Offset(listing) < Offset(listing) + 1
        /\ Offset(listing) + 1 <= Offset(listing) + LimitOf(listing)
    BY <1>2
  <2> QED
    BY <2>1, <2>2 DEF Cut
<1> QED
  BY <1>3, <1>4, <1>5

-----------------------------------------------------------------------------
(* Every step keeps the invariant. *)

(* The initial state, and then the steps, one conjunct at a time.            *)
LEMMA TypesAtInit == Init => TypeOK
<1> SUFFICES ASSUME Init PROVE TypeOK
  OBVIOUS
<1>1. 0 \in I64 /\ 1 \in I64 /\ 0 \in Nat /\ 0 \in 0 .. MaxTime
  BY WidthAssumption, QueriesAssumption DEF I64
<1>2. Limit \subseteq I64 /\ Page \subseteq I64
  BY QueriesAssumption
<1>3. /\ rows \subseteq begun /\ begun \subseteq posted /\ posted \subseteq Transfer
      /\ credits \in [Account -> Nat] /\ debits \in [Account -> Nat]
      /\ stamp \in [Transfer -> 0 .. MaxTime] /\ clock \in 0 .. MaxTime
      /\ opened \subseteq Account /\ client \in Client
  BY <1>1 DEF Init, Client
<1>4. \E p, l \in I64 : listing = Asks(p, l)
  BY <1>1, <1>2 DEF Init
<1>5. listing \in [at : {"new", "count", "select", "done", "failed"}, page : I64, limit : I64,
                   total : Nat, due : SUBSET Transfer, shown : SUBSET Transfer]
  BY <1>4 DEF Asks
<1>6. balance \in [at : {"new", "done", "failed"}, total : I64, of : [Account -> I64],
                   true : [Account -> Int]]
  BY <1>1 DEF Init
<1>7. check \in [at : {"new", "accepted", "refused"}, true : Int]
  BY DEF Init
<1> QED
  BY <1>3, <1>5, <1>6, <1>7 DEF TypeOK

(* The invariant holds at first: nothing has been asked.                     *)
LEMMA InvAtInit == Init => IInv
<1> SUFFICES ASSUME Init PROVE IInv
  OBVIOUS
<1>1. TypeOK
  BY TypesAtInit
<1>2. LedgerInv
  BY DEF Init, LedgerInv
<1>3. WalkInv
  <2> SUFFICES ASSUME client = "walker" PROVE WalkInv
    BY DEF WalkInv
  <2>1. /\ listing.at = "new" /\ listing.page = 1 /\ listing.due = {} /\ rows = {}
    BY DEF Init, Asks
  <2>2. TrueOffset(listing) = 0
    <3>1. PageOf(listing) = 1
      BY <2>1 DEF PageOf, Higher
    <3> QED
      BY <1>1, <3>1, LimitBound DEF TrueOffset
  <2>3. TrueOffset(listing) < Cardinality(rows) + LimitOf(listing)
    BY <1>1, <2>2, LimitBound, RowsFinite
  <2> QED
    BY <2>1, <2>3 DEF WalkInv
<1>4. ReadInv /\ ExistingPageIsShown
  BY DEF Init, Asks, ReadInv, ExistingPageIsShown
<1>5. BalancesAreExact /\ AcceptedIsCovered
  BY DEF Init, BalancesAreExact, AcceptedIsCovered
<1> QED
  BY <1>1, <1>2, <1>3, <1>4, <1>5 DEF IInv

(* A page counts up only while it has rows, which keeps it in its type.      *)
LEMMA TypesKept == IInv /\ [Next]_vars => TypeOK'
<1> SUFFICES ASSUME IInv, [Next]_vars PROVE TypeOK'
  OBVIOUS
<1>0. TypeOK /\ WalkInv /\ LedgerInv
  BY DEF IInv
<1>1. ASSUME NEW a \in Account, Open(a) PROVE TypeOK'
  BY <1>0, <1>1 DEF Open, TypeOK, clientVars
<1>2. ASSUME NEW t \in Transfer, Post(t) PROVE TypeOK'
  <2>1. AmountOf[t] \in Nat /\ AccountOf[t] \in Account
    BY QueriesAssumption, WidthAssumption
  <2>2. credits' \in [Account -> Nat] /\ debits' \in [Account -> Nat]
    BY <1>0, <1>2, <2>1 DEF Post, TypeOK
  <2> QED
    BY <1>0, <1>2, <2>2 DEF Post, TypeOK, clientVars
<1>3. ASSUME NEW t \in Transfer, BeginInsert(t) PROVE TypeOK'
  <2>1. rows \subseteq begun'
    BY <1>0, <1>3 DEF BeginInsert, TypeOK
  <2>2. begun' \subseteq posted /\ stamp' \in [Transfer -> 0 .. MaxTime]
    BY <1>0, <1>3 DEF BeginInsert, TypeOK
  <2> QED
    BY <1>0, <1>3, <2>1, <2>2 DEF BeginInsert, TypeOK, clientVars
<1>4. ASSUME NEW t \in Transfer, CommitInsert(t) PROVE TypeOK'
  BY <1>0, <1>4 DEF CommitInsert, TypeOK, clientVars
<1>5. CASE Tick
  BY <1>0, <1>5, QueriesAssumption DEF Tick, TypeOK, clientVars
<1>6. CASE CountRows
  <2>1. Cardinality(rows) \in Nat /\ rows \in SUBSET Transfer
    BY <1>0, RowsFinite DEF TypeOK
  <2> QED
    BY <1>0, <1>6, <2>1 DEF CountRows, TypeOK, tableVars
<1>7. CASE SelectPage
  <2>1. PICK s \in Listings : listing' = Answer(Cut(s, listing))
    BY <1>7 DEF SelectPage
  <2>2. Cut(s, listing) \subseteq rows
    BY <1>0, RowsFinite, ListingIsComplete DEF Cut
  <2>3. listing.shown \cup Cut(s, listing) \in SUBSET Transfer
    BY <1>0, <2>2 DEF TypeOK
  <2>4. CASE client = "walker" /\ Cut(s, listing) # {}
    <3>1. listing.page + 1 \in I64
      <4>1. Offset(listing) = TrueOffset(listing) /\ listing.page <= TrueOffset(listing) + 1
        BY <1>0, <2>4, OffsetFits
      <4>2. TrueOffset(listing) \in Nat /\ TrueOffset(listing) < Cardinality(rows)
        BY <1>0, <2>4, <4>1, LimitBound, CutOfListing
      <4>3. listing.page \in Int /\ listing.page >= 1
        BY <1>0, <2>4, WidthAssumption DEF TypeOK, WalkInv, I64
      <4> QED
        BY <1>0, <4>1, <4>2, <4>3, RowsFinite, QueriesAssumption, WidthAssumption DEF I64
    <3>2. listing' = [listing EXCEPT !.at = "count", !.page = listing.page + 1,
                                     !.shown = listing.shown \cup Cut(s, listing)]
      BY <2>1, <2>4 DEF Answer
    <3>3. listing' \in [at : {"new", "count", "select", "done", "failed"}, page : I64,
                        limit : I64, total : Nat, due : SUBSET Transfer,
                        shown : SUBSET Transfer]
      BY <1>0, <2>3, <3>1, <3>2 DEF TypeOK
    <3> QED
      BY <1>0, <1>7, <3>3 DEF SelectPage, TypeOK, tableVars
  <2>5. CASE ~(client = "walker" /\ Cut(s, listing) # {})
    <3>1. listing' = [listing EXCEPT !.at = "done",
                                     !.shown = listing.shown \cup Cut(s, listing)]
      BY <2>1, <2>5 DEF Answer
    <3>2. listing' \in [at : {"new", "count", "select", "done", "failed"}, page : I64,
                        limit : I64, total : Nat, due : SUBSET Transfer,
                        shown : SUBSET Transfer]
      BY <1>0, <2>3, <3>1 DEF TypeOK
    <3> QED
      BY <1>0, <1>7, <3>2 DEF SelectPage, TypeOK, tableVars
  <2> QED
    BY <2>4, <2>5
<1>8. CASE RefusePage
  BY <1>0, <1>8 DEF RefusePage, TypeOK, tableVars
<1>9. CASE GetBalance
  <2>1. BalanceOf \in [Account -> I64] /\ TrueBalance \in [Account -> Int]
    <3>1. 0 \in I64 /\ \A x \in I64 : x \in Int
      BY WidthAssumption DEF I64
    <3>2. \A a \in Account : credits[a] \in Int /\ debits[a] \in Int
      BY <1>0 DEF TypeOK
    <3>3. \A a \in Account : Difference(credits[a], debits[a]) \in I64
      BY <3>1, <3>2, WrapCongruent DEF Difference, RawDifference
    <3> QED
      BY <3>1, <3>2, <3>3 DEF BalanceOf, TrueBalance
  <2>2. Wrapped(TotalOf(BalanceOf, Account)) \in I64
    <3>1. BalanceOf \in [Account -> Int]
      BY <2>1, WidthAssumption DEF I64
    <3>2. TotalOf(BalanceOf, Account) \in Int
      BY <3>1, TotalIsInt, QueriesAssumption
    <3> QED
      BY <3>2, WrapCongruent
  <2> QED
    BY <1>0, <1>9, <2>1, <2>2 DEF GetBalance, TypeOK, tableVars
<1>10. CASE CheckFunds
  <2>1. \A a \in Account : TrueBalance[a] \in Int
    BY <1>0 DEF TypeOK, TrueBalance
  <2> QED
    BY <1>0, <1>10, <2>1 DEF CheckFunds, TypeOK, tableVars
<1>11. CASE UNCHANGED vars
  BY <1>0, <1>11 DEF vars, tableVars, clientVars, TypeOK
<1> QED
  BY <1>1, <1>2, <1>3, <1>4, <1>5, <1>6, <1>7, <1>8, <1>9, <1>10, <1>11 DEF Next

(* A debit is posted only if it is covered, on an account that is open.      *)
LEMMA LedgerKept == IInv /\ [Next]_vars => LedgerInv'
<1> SUFFICES ASSUME IInv, [Next]_vars PROVE LedgerInv'
  OBVIOUS
<1>0. TypeOK /\ LedgerInv
  BY DEF IInv
<1>1. ASSUME NEW a \in Account, Open(a) PROVE LedgerInv'
  BY <1>0, <1>1 DEF Open, LedgerInv
<1>2. ASSUME NEW t \in Transfer, Post(t) PROVE LedgerInv'
  <2> DEFINE b == AccountOf[t]
             n == AmountOf[t]
  <2>1. n \in Nat /\ b \in opened /\ b \in Account /\ TypeOf[t] \in {"CREDIT", "DEBIT"}
        /\ \A a \in Account : credits[a] \in Nat /\ debits[a] \in Nat
    BY <1>0, <1>2, QueriesAssumption, WidthAssumption DEF Post, TypeOK
  <2>2. opened' = opened
    BY <1>2 DEF Post
  <2>3. CASE TypeOf[t] = "CREDIT"
    <3>1. credits' = [credits EXCEPT ![b] = @ + n] /\ debits' = debits
      BY <1>2, <2>3 DEF Post
    <3>2. \A a \in Account : credits'[a] = IF a = b THEN credits[a] + n ELSE credits[a]
      BY <1>0, <3>1 DEF TypeOK
    <3> HIDE DEF n, b
    <3> QED
      BY <1>0, <2>1, <2>2, <3>1, <3>2 DEF LedgerInv
  <2>4. CASE TypeOf[t] = "DEBIT"
    <3>1. debits' = [debits EXCEPT ![b] = @ + n] /\ credits' = credits
          /\ n <= credits[b] - debits[b]
      BY <1>2, <2>1, <2>4 DEF Post, TrueBalance
    <3>2. \A a \in Account : debits'[a] = IF a = b THEN debits[a] + n ELSE debits[a]
      BY <1>0, <3>1 DEF TypeOK
    <3> HIDE DEF n, b
    <3> QED
      BY <1>0, <2>1, <2>2, <3>1, <3>2 DEF LedgerInv
  <2> QED
    BY <2>1, <2>3, <2>4
<1>3. CASE UNCHANGED <<credits, debits, opened>>
  BY <1>0, <1>3 DEF LedgerInv
<1> QED
  BY <1>1, <1>2, <1>3
  DEF Next, vars, tableVars, BeginInsert, CommitInsert, Tick, CountRows, SelectPage,
      RefusePage, GetBalance, CheckFunds

(* Rows are never deleted and keep their time, so what is before a row never *)
(* becomes less, and a row that is tied stays so.                            *)
LEMMA TableGrows ==
  ASSUME TypeOK, TypeOK', [Next]_vars
  PROVE  /\ rows \subseteq rows' /\ Cardinality(rows) <= Cardinality(rows')
         /\ Cardinality(rows') \in Nat
         /\ \A t \in rows : /\ Tied(t) => Tied(t)'
                           /\ Cardinality(Above(t)) <= Cardinality(Above(t))'
                           /\ Cardinality(Above(t))' \in Nat
<1>1. rows \subseteq rows' /\ \A r \in rows : stamp'[r] = stamp[r]
  BY DEF TypeOK, Next, vars, tableVars, Open, Post, BeginInsert, CommitInsert, Tick,
         CountRows, SelectPage, RefusePage, GetBalance, CheckFunds
<1>2. IsFiniteSet(rows')
  BY TableFits, FS_Subset DEF TypeOK
<1>3. \A t \in rows : Above(t) \subseteq Above(t)' /\ IsFiniteSet(Above(t)')
  <2>1. \A t \in rows : Above(t) \subseteq Above(t)' /\ Above(t)' \subseteq rows'
    BY <1>1 DEF Above
  <2> QED
    BY <1>2, <2>1, FS_Subset
<1>4. \A t \in rows : Tied(t) => Tied(t)'
  BY <1>1 DEF Tied
<1> QED
  BY <1>1, <1>2, <1>3, <1>4, FS_Subset, FS_CardinalityType

(* As long as nothing is answered, a walker loses nothing.                   *)
LEMMA WalkerWaits ==
  ASSUME IInv, TypeOK', [Next]_vars, UNCHANGED <<client, listing>>
  PROVE  WalkInv'
<1> SUFFICES ASSUME client = "walker" PROVE WalkInv'
  BY DEF WalkInv
<1>1. TypeOK /\ WalkInv
  BY DEF IInv
<1>2. LimitOf(listing)' = LimitOf(listing) /\ TrueOffset(listing)' = TrueOffset(listing)
  BY DEF LimitOf, TrueOffset, PageOf
<1>3. LimitOf(listing) \in Nat /\ TrueOffset(listing) \in Nat
  BY <1>1, LimitBound
<1>4. TrueOffset(listing)' < Cardinality(rows)' + LimitOf(listing)'
  BY <1>1, <1>2, <1>3, RowsFinite, TableGrows DEF WalkInv
<1>5. ASSUME NEW t \in listing.due
      PROVE  t \in listing'.shown \/ Tied(t)' \/ StillAhead(t)'
  <2>1. t \in rows /\ (t \in listing.shown \/ Tied(t) \/ StillAhead(t))
    BY <1>1 DEF WalkInv
  <2>2. StillAhead(t) => StillAhead(t)'
    BY <1>1, <1>2, <1>3, <2>1, TableGrows, RowsFinite DEF StillAhead
  <2> QED
    BY <1>1, <2>1, <2>2, TableGrows
<1> QED
  BY <1>1, <1>4, <1>5, TableGrows DEF WalkInv

(* The walk: a row that was ahead of a page is on it or ahead of the next.   *)
LEMMA WalkKept == IInv /\ [Next]_vars => WalkInv'
<1> SUFFICES ASSUME IInv, [Next]_vars PROVE WalkInv'
  OBVIOUS
<1>0. TypeOK /\ WalkInv /\ TypeOK'
  BY TypesKept DEF IInv
<1>1. CASE UNCHANGED <<client, listing>>
  BY <1>0, <1>1, WalkerWaits
<1>2. CASE CountRows
  <2> SUFFICES ASSUME client = "walker" PROVE WalkInv'
    BY <1>2 DEF WalkInv, CountRows
  <2>1. /\ listing.at \in {"new", "count"} /\ listing'.at = "select"
        /\ listing'.page = listing.page /\ listing'.limit = listing.limit
        /\ listing'.shown = listing.shown
        /\ listing'.due = IF listing.at = "new" THEN rows ELSE listing.due
        /\ rows' = rows /\ stamp' = stamp
    BY <1>0, <1>2 DEF CountRows, TypeOK, tableVars
  <2>2. LimitOf(listing)' = LimitOf(listing) /\ TrueOffset(listing)' = TrueOffset(listing)
    BY <2>1 DEF LimitOf, TrueOffset, PageOf
  <2>3. /\ listing'.page >= 1 /\ listing'.due \subseteq rows'
        /\ TrueOffset(listing)' < Cardinality(rows)' + LimitOf(listing)'
    BY <1>0, <2>1, <2>2 DEF WalkInv
  <2>4. ASSUME NEW t \in listing'.due
        PROVE  t \in listing'.shown \/ Tied(t)' \/ StillAhead(t)'
    <3>1. Tied(t)' = Tied(t) /\ Above(t)' = Above(t)
      BY <2>1 DEF Tied, Above
    <3>2. CASE listing.at = "new"
      <4>1. TrueOffset(listing) = 0
        <5>1. PageOf(listing) = 1 /\ LimitOf(listing) \in Nat
          BY <1>0, <3>2, LimitBound DEF WalkInv, PageOf, Higher
        <5> QED
          BY <5>1 DEF TrueOffset
      <4>2. TrueOffset(listing)' <= Cardinality(Above(t))'
        BY <1>0, <2>2, <3>1, <4>1, RowsFinite
      <4> QED
        BY <2>1, <4>2 DEF StillAhead
    <3>3. CASE listing.at = "count"
      BY <1>0, <2>1, <2>2, <3>1, <3>3 DEF WalkInv, StillAhead
    <3> QED
      BY <2>1, <3>2, <3>3
  <2> QED
    BY <2>1, <2>3, <2>4 DEF WalkInv
<1>3. CASE SelectPage
  <2> SUFFICES ASSUME client = "walker" PROVE WalkInv'
    BY <1>3 DEF WalkInv, SelectPage
  <2>1. PICK s \in Listings : listing' = Answer(Cut(s, listing))
    BY <1>3 DEF SelectPage
  <2> DEFINE L == LimitOf(listing)
             o == TrueOffset(listing)
             page == Cut(s, listing)
  <2>2. /\ listing.at = "select" /\ rows' = rows /\ stamp' = stamp /\ client' = client
        /\ listing.page \in Int /\ listing.page >= 1 /\ listing.due \subseteq rows
    BY <1>0, <1>3, WidthAssumption DEF SelectPage, tableVars, WalkInv, TypeOK, I64
  <2>3. /\ Offset(listing) = o /\ o \in Nat /\ L \in Nat /\ L >= 1
        /\ o = (listing.page - 1) * L /\ Cardinality(rows) \in Nat
    BY <1>0, LimitBound, OffsetFits, RowsFinite
  <2>4. \A t : Tied(t)' = Tied(t) /\ Above(t)' = Above(t)
    BY <2>2 DEF Tied, Above
  (* A row that was ahead is on this page or ahead of the next one. *)
  <2>5. ASSUME NEW t \in listing.due, ~Tied(t), t \notin listing.shown
        PROVE  o < Cardinality(rows) /\ (t \in page \/ o + L <= Cardinality(Above(t)))
    <3> DEFINE k == Cardinality(Above(t)) + 1
    <3>1. t \in rows /\ o <= Cardinality(Above(t)) /\ Cardinality(Above(t)) \in Nat
      BY <1>0, <2>2, <2>5, RowsFinite DEF WalkInv, StillAhead
    <3>2. k \in DOMAIN s /\ s[k] = t /\ k \in 1 .. Cardinality(rows)
      BY <1>0, <2>5, <3>1, Place, ListingIsComplete
    <3>3. k <= o + L => t \in page
      BY <2>3, <3>1, <3>2 DEF Cut
    <3> QED
      BY <2>3, <3>1, <3>2, <3>3
  <2>6. CASE page # {}
    <3>1. listing' = [listing EXCEPT !.at = "count", !.page = listing.page + 1,
                                     !.shown = listing.shown \cup page]
      BY <2>1, <2>6 DEF Answer
    <3>2. /\ listing'.at = "count" /\ listing'.page = listing.page + 1
          /\ listing'.limit = listing.limit /\ listing'.due = listing.due
          /\ listing'.shown = listing.shown \cup page
      BY <1>0, <3>1 DEF TypeOK
    <3>3. LimitOf(listing)' = L
      BY <3>2 DEF LimitOf
    <3>4. TrueOffset(listing)' = o + L
      <4>1. PageOf(listing)' = listing.page + 1
        BY <2>2, <3>2 DEF PageOf, Higher
      <4> HIDE DEF L, o
      <4>2. TrueOffset(listing)' = (listing.page + 1 - 1) * L
        <5>1. TrueOffset(listing') = (PageOf(listing') - 1) * LimitOf(listing')
          BY DEF TrueOffset
        <5>2. PageOf(listing') = listing.page + 1 /\ LimitOf(listing') = L
          BY <3>3, <4>1
        <5>3. TrueOffset(listing') = (listing.page + 1 - 1) * L
          BY <2>2, <2>3, <5>1, <5>2
        <5> QED
          BY <5>3
      <4>3. listing.page * L = (listing.page - 1) * L + L
        BY <2>2, <2>3
      <4> QED
        BY <2>2, <2>3, <4>2, <4>3
    <3>5. TrueOffset(listing)' < Cardinality(rows)' + LimitOf(listing)'
      <4>1. o < Cardinality(rows)
        BY <1>0, <2>3, <2>6, CutOfListing
      <4> HIDE DEF L, o
      <4> QED
        BY <2>2, <2>3, <3>3, <3>4, <4>1
    <3>6. ASSUME NEW t \in listing'.due
          PROVE  t \in listing'.shown \/ Tied(t)' \/ StillAhead(t)'
      BY <2>4, <2>5, <3>2, <3>4, <3>6 DEF StillAhead
    <3>7. listing'.page >= 1 /\ listing'.due \subseteq rows'
      BY <2>2, <3>2
    <3> QED
      BY <3>2, <3>5, <3>6, <3>7 DEF WalkInv
  (* An empty page is beyond the rows, so no row was ahead. *)
  <2>7. CASE page = {}
    <3>1. listing' = [listing EXCEPT !.at = "done", !.shown = listing.shown \cup page]
      BY <2>1, <2>7 DEF Answer
    <3>2. /\ listing'.at = "done" /\ listing'.page = listing.page
          /\ listing'.limit = listing.limit /\ listing'.due = listing.due
          /\ listing'.shown = listing.shown
      BY <1>0, <2>7, <3>1 DEF TypeOK
    <3>3. LimitOf(listing)' = L /\ TrueOffset(listing)' = o
      BY <3>2 DEF LimitOf, TrueOffset, PageOf
    <3>4. ~(o < Cardinality(rows))
      BY <1>0, <2>3, <2>7, CutOfListing
    <3>5. ASSUME NEW t \in listing'.due PROVE t \in listing'.shown \/ Tied(t)'
      BY <2>4, <2>5, <3>2, <3>4, <3>5
    <3>6. o < Cardinality(rows)' + L /\ listing'.page >= 1 /\ listing'.due \subseteq rows'
      BY <1>0, <2>2, <3>2 DEF WalkInv
    <3> QED
      BY <3>2, <3>3, <3>5, <3>6 DEF WalkInv
  <2> QED
    BY <2>6, <2>7
<1>4. CASE RefusePage
  <2> SUFFICES ASSUME client = "walker" PROVE FALSE
    BY <1>4 DEF WalkInv, RefusePage
  <2>1. Offset(listing) = TrueOffset(listing) /\ ~Overflows(TrueOffset(listing))
        /\ TrueOffset(listing) \in Nat
    BY <1>0, OffsetFits, LimitBound
  <2> QED
    BY <1>4, <2>1 DEF RefusePage
<1> QED
  BY <1>1, <1>2, <1>3, <1>4
  DEF Next, vars, clientVars, Open, Post, BeginInsert, CommitInsert, Tick, GetBalance, CheckFunds

(* Rows are only added, so the total stays within them.                      *)
LEMMA ReadKept == IInv /\ [Next]_vars => ReadInv'
<1> SUFFICES ASSUME IInv, [Next]_vars, client = "reader" PROVE ReadInv'
  BY DEF ReadInv, Next, vars, tableVars, clientVars, Open, Post, BeginInsert, CommitInsert,
         Tick, CountRows, SelectPage, RefusePage, GetBalance, CheckFunds
<1>0. TypeOK /\ TypeOK' /\ ReadInv
  BY TypesKept DEF IInv
<1>1. Cardinality(rows) \in Nat /\ Cardinality(rows) <= Cardinality(rows')
      /\ Cardinality(rows') \in Nat /\ listing.total \in Nat
  BY <1>0, TableGrows, RowsFinite DEF TypeOK
<1>2. CASE UNCHANGED listing
  BY <1>0, <1>1, <1>2 DEF ReadInv
<1>3. CASE CountRows
  <2>1. /\ listing'.at = "select" /\ listing'.total = Cardinality(rows)
        /\ listing'.shown = listing.shown /\ listing.at = "new"
    BY <1>0, <1>3 DEF CountRows, TypeOK, ReadInv
  <2> QED
    BY <1>0, <1>1, <2>1 DEF ReadInv
<1>4. CASE SelectPage
  <2>1. listing'.at = "done"
    BY <1>0, <1>4 DEF SelectPage, Answer, TypeOK
  <2> QED
    BY <2>1 DEF ReadInv
<1>5. CASE RefusePage
  <2>1. listing'.at = "failed"
    BY <1>0, <1>5 DEF RefusePage, TypeOK
  <2> QED
    BY <2>1 DEF ReadInv
<1> QED
  BY <1>2, <1>3, <1>4, <1>5
  DEF Next, vars, clientVars, Open, Post, BeginInsert, CommitInsert, Tick, GetBalance, CheckFunds

(* A page that is not beyond the total begins below it.                      *)
LEMMA PageBelowTotal ==
  ASSUME NEW p \in Nat, p >= 1, NEW l \in Nat, l >= 1, NEW n \in Nat,
         p <= (n + l - 1) \div l
  PROVE  (p - 1) * l < n
<1> DEFINE m == n + l - 1
           d == m \div l
<1>1. m \in Nat /\ d \in Int /\ m % l \in 0 .. (l - 1) /\ m = l * d + (m % l)
  OBVIOUS
<1> HIDE DEF d
<1>2. l * d <= m
  BY <1>1
<1>3. p * l <= l * d
  <2>1. d - p \in Nat /\ l * d = l * p + l * (d - p)
    BY <1>1 DEF d
  <2>2. l * (d - p) >= 0
    BY <2>1
  <2> QED
    BY <1>1, <2>1, <2>2
<1>4. (p - 1) * l = p * l - l
  OBVIOUS
<1> QED
  BY <1>1, <1>2, <1>3, <1>4

(* A page within the total is answered, with rows.                           *)
LEMMA PageKept == IInv /\ [Next]_vars => ExistingPageIsShown'
<1> SUFFICES ASSUME IInv, [Next]_vars, client = "reader" PROVE ExistingPageIsShown'
  BY DEF ExistingPageIsShown, Next, vars, tableVars, clientVars, Open, Post, BeginInsert,
         CommitInsert, Tick, CountRows, SelectPage, RefusePage, GetBalance, CheckFunds
<1>0. TypeOK /\ TypeOK' /\ ReadInv /\ ExistingPageIsShown
  BY TypesKept DEF IInv
<1>1. CASE UNCHANGED <<client, listing>>
  BY <1>0, <1>1 DEF ExistingPageIsShown, PageOf, TotalPages, LimitOf
<1>2. CASE CountRows
  <2>1. listing'.at = "select"
    BY <1>0, <1>2 DEF CountRows, TypeOK
  <2> QED
    BY <2>1 DEF ExistingPageIsShown
(* The offset of an existing page is below the rows, so it fits. *)
<1>3. ASSUME listing.at = "select", PageOf(listing) <= TotalPages(listing)
      PROVE  /\ Offset(listing) = TrueOffset(listing) /\ Offset(listing) \in Nat
             /\ Offset(listing) < Cardinality(rows) /\ ~Overflows(TrueOffset(listing))
  <2>1. /\ LimitOf(listing) \in Nat /\ LimitOf(listing) >= 1 /\ PageOf(listing) \in Nat
        /\ PageOf(listing) >= 1 /\ TrueOffset(listing) \in Nat /\ listing.total \in Nat
    BY <1>0, LimitBound DEF TypeOK
  <2>2. (PageOf(listing) - 1) * LimitOf(listing) < listing.total
    BY <1>3, <2>1, PageBelowTotal DEF TotalPages
  <2>3. TrueOffset(listing) < Cardinality(rows)
    <3>1. TrueOffset(listing) < listing.total
      BY <2>2 DEF TrueOffset
    <3> QED
      BY <1>0, <1>3, <2>1, <3>1, RowsFinite DEF ReadInv
  <2>4. TrueOffset(listing) \in I64
    BY <1>0, <2>1, <2>3, RowsFinite, QueriesAssumption, WidthAssumption DEF I64
  <2> QED
    BY <2>1, <2>3, <2>4, InRange DEF Offset
<1>4. CASE SelectPage
  <2>1. PICK s \in Listings : listing' = Answer(Cut(s, listing))
    BY <1>4 DEF SelectPage
  <2>2. /\ listing'.at = "done" /\ listing'.shown = listing.shown \cup Cut(s, listing)
        /\ listing'.page = listing.page /\ listing'.limit = listing.limit
        /\ listing'.total = listing.total /\ listing.at = "select"
    BY <1>0, <1>4, <2>1 DEF SelectPage, Answer, TypeOK
  <2>3. PageOf(listing') = PageOf(listing) /\ TotalPages(listing') = TotalPages(listing)
    BY <2>2 DEF PageOf, TotalPages, LimitOf
  <2>4. PageOf(listing) <= TotalPages(listing) => Cut(s, listing) # {}
    BY <1>0, <1>3, <2>2, CutOfListing
  <2> QED
    BY <2>2, <2>3, <2>4 DEF ExistingPageIsShown
<1>5. CASE RefusePage
  <2>1. /\ listing.at = "select" /\ listing' = [listing EXCEPT !.at = "failed"]
        /\ Offset(listing) < 0 \/ Overflows(TrueOffset(listing))
    BY <1>5 DEF RefusePage
  <2>2. ~(PageOf(listing) <= TotalPages(listing))
    BY <1>3, <2>1
  <2>3. /\ listing'.page = listing.page /\ listing'.limit = listing.limit
        /\ listing'.total = listing.total
    BY <1>0, <2>1 DEF TypeOK
  <2>4. PageOf(listing') = PageOf(listing) /\ TotalPages(listing') = TotalPages(listing)
    BY <2>3 DEF PageOf, TotalPages, LimitOf
  <2> QED
    BY <2>2, <2>4 DEF ExistingPageIsShown
<1> QED
  BY <1>1, <1>2, <1>4, <1>5
  DEF Next, vars, clientVars, Open, Post, BeginInsert, CommitInsert, Tick, GetBalance, CheckFunds

(* What a balance shows differs from the truth by multiples of the modulus,  *)
(* account by account and so in the sum, and both are in the range.          *)
LEMMA BalancesKept == IInv /\ [Next]_vars => BalancesAreExact'
<1> SUFFICES ASSUME IInv, [Next]_vars PROVE BalancesAreExact'
  OBVIOUS
<1>0. TypeOK /\ LedgerInv /\ BalancesAreExact
  BY DEF IInv
<1>1. CASE UNCHANGED balance
  BY <1>0, <1>1 DEF BalancesAreExact, TrueTotal
<1>2. CASE GetBalance
  <2> SUFFICES ASSUME balance'.at = "done" PROVE BalancesAreExact'
    BY DEF BalancesAreExact
  <2> DEFINE true == TrueBalance
             of == BalanceOf
  <2>1. /\ balance'.total = Wrapped(TotalOf(of, Account)) /\ balance'.of = of
        /\ balance'.true = true
    BY <1>0, <1>2 DEF GetBalance, TypeOK
  <2>2. \A a \in Account : credits[a] \in Nat /\ debits[a] \in Nat
    BY <1>0 DEF TypeOK
  <2>3. /\ true \in [Account -> Int] /\ \A a \in Account : true[a] = credits[a] - debits[a]
        /\ \A a \in Account : of[a] = IF a \in opened THEN Difference(credits[a], debits[a])
                                     ELSE 0
        /\ DOMAIN of = Account
    BY <2>2 DEF TrueBalance, BalanceOf
  <2>4. Modulus \in Int /\ 0 \in I64 /\ \A x \in I64 : x \in Int
    BY WidthAssumption DEF I64, Modulus
  <2>5. ASSUME NEW a \in Account
        PROVE  /\ of[a] \in I64 /\ of[a] \in Int
               /\ \E q \in Int : true[a] = of[a] + q * Modulus
    <3>1. CASE a \notin opened
      <4>1. true[a] = 0 /\ of[a] = 0
        BY <1>0, <2>3, <3>1 DEF LedgerInv
      <4>2. 0 = 0 + 0 * Modulus
        BY <2>4
      <4> QED
        BY <2>4, <4>1, <4>2
    <3>2. CASE a \in opened
      <4>1. of[a] = Difference(credits[a], debits[a]) /\ true[a] = credits[a] - debits[a]
        BY <2>3, <3>2
      <4>2. /\ Difference(credits[a], debits[a]) \in I64
            /\ \E q \in Int :
                 credits[a] - debits[a] = Difference(credits[a], debits[a]) + q * Modulus
        BY <2>2, DifferenceCongruent
      <4> HIDE DEF of, true, Modulus
      <4> QED
        BY <2>4, <4>1, <4>2
    <3> QED
      BY <3>1, <3>2
  <2>6. \A a \in Account : true[a] \in I64 => of[a] = true[a]
    BY <2>3, <2>5, RangeApart
  <2>7. \E q \in Int : TotalOf(true, Account) = TotalOf(of, Account) + q * Modulus
    <3>1. of \in [Account -> Int]
      <4>1. of = [a \in Account |-> of[a]]
        BY DEF BalanceOf
      <4> QED
        BY <2>5, <4>1
    <3> HIDE DEF true, of
    <3> QED
      BY <2>3, <2>5, <3>1, TotalsCongruent, QueriesAssumption
  <2>8. TotalOf(true, Account) \in I64 => Wrapped(TotalOf(of, Account)) = TotalOf(true, Account)
    <3> DEFINE tt == TotalOf(true, Account)
               to == TotalOf(of, Account)
               w == Wrapped(to)
    <3>1. of \in [Account -> Int] /\ to \in Int
      <4>1. of = [a \in Account |-> of[a]]
        BY DEF BalanceOf
      <4>2. of \in [Account -> Int]
        BY <2>5, <4>1
      <4> HIDE DEF of
      <4> QED
        BY <4>2, TotalIsInt, QueriesAssumption
    <3>2. w \in I64 /\ \E r \in Int : to = w + r * Modulus
      BY <3>1, WrapCongruent
    <3>3. PICK q \in Int : tt = to + q * Modulus
      BY <2>7
    <3>4. PICK r \in Int : to = w + r * Modulus
      BY <3>2
    <3> HIDE DEF tt, to, w, Modulus
    <3> DEFINE qm == q * Modulus
               rm == r * Modulus
    <3>5. qm \in Int /\ rm \in Int /\ (q + r) * Modulus = qm + rm /\ w \in Int
      BY <2>4, <3>2, Distributes
    <3>6. tt = w + (q + r) * Modulus
      <4>1. tt = to + qm /\ to = w + rm
        BY <3>3, <3>4
      <4> HIDE DEF qm, rm
      <4> QED
        BY <3>1, <3>5, <4>1
    <3>7. tt \in I64 => tt = w
      BY <3>2, <3>6, RangeApart
    <3> QED
      BY <3>7 DEF tt, to, w
  <2> QED
    BY <2>1, <2>6, <2>8 DEF BalancesAreExact, TrueTotal
<1> QED
  BY <1>1, <1>2
  DEF Next, vars, clientVars, Open, Post, BeginInsert, CommitInsert, Tick, CountRows,
      SelectPage, RefusePage, CheckFunds

(* What is available is never above what there is.                           *)
LEMMA AcceptedKept == IInv /\ [Next]_vars => AcceptedIsCovered'
<1> SUFFICES ASSUME IInv, [Next]_vars PROVE AcceptedIsCovered'
  OBVIOUS
<1>0. TypeOK /\ LedgerInv /\ AcceptedIsCovered
  BY DEF IInv
<1>1. CASE UNCHANGED check
  BY <1>0, <1>1 DEF AcceptedIsCovered
<1>2. CASE CheckFunds
  <2>1. PICK a \in Account :
          check' = [at |-> IF a \in opened /\ Available(credits[a], debits[a]) >= MaxAmount
                           THEN "accepted" ELSE "refused",
                    true |-> TrueBalance[a]]
    BY <1>2 DEF CheckFunds
  <2>2. /\ credits[a] \in Nat /\ debits[a] \in Nat /\ debits[a] <= credits[a]
        /\ TrueBalance[a] = credits[a] - debits[a]
    BY <1>0 DEF TypeOK, LedgerInv, TrueBalance
  <2>3. Available(credits[a], debits[a]) <= TrueBalance[a]
    BY <2>2, AvailableIsCovered
  <2>4. Available(credits[a], debits[a]) \in Int /\ MaxAmount \in Int
    <3>1. (IF credits[a] >= debits[a] THEN credits[a] - debits[a] ELSE 0) \in Int
      BY <2>2
    <3> QED
      BY <3>1, WrapCongruent, QueriesAssumption, WidthAssumption DEF Available, I64
  <2>5. check'.true = TrueBalance[a] /\ (check'.at = "accepted" =>
          Available(credits[a], debits[a]) >= MaxAmount)
    BY <2>1
  <2> QED
    BY <2>2, <2>3, <2>4, <2>5 DEF AcceptedIsCovered
<1> QED
  BY <1>1, <1>2
  DEF Next, vars, clientVars, Open, Post, BeginInsert, CommitInsert, Tick, CountRows,
      SelectPage, RefusePage, GetBalance

(* Together.                                                                 *)
LEMMA Invariance == Spec => []IInv
<1>1. Init => IInv
  BY InvAtInit
<1>2. IInv /\ [Next]_vars => IInv'
  BY TypesKept, LedgerKept, WalkKept, ReadKept, PageKept, BalancesKept, AcceptedKept DEF IInv
<1> QED
  BY <1>1, <1>2, PTL DEF Spec

-----------------------------------------------------------------------------
(* The theorems. *)

(* Every variable keeps its type; for the page of a walker this says that    *)
(* counting pages up never leaves an i64.                                    *)
THEOREM TypesHold == Spec => []TypeOK
  BY Invariance, PTL DEF IInv

(* A client that reads pages until one is empty has seen every row that was  *)
(* there at its first page and has a time of its own, however many rows      *)
(* other requests insert between its pages and between the two statements of *)
(* a page (get_provider_transactions, get_user_transactions).                *)
THEOREM NoRowSkippedHolds == Spec => []NoRowSkipped
<1>1. IInv => NoRowSkipped
  BY DEF IInv, WalkInv, StillAhead, NoRowSkipped
<1> QED
  BY <1>1, Invariance, PTL

(* A page within the total_pages of its own answer is neither empty nor an   *)
(* error, for every page and limit of the query (handlers/transaction.rs).   *)
THEOREM ExistingPageHolds == Spec => []ExistingPageIsShown
  BY Invariance, PTL DEF IInv

(* The balances of get_user_balance are exact wherever they fit an i64, and  *)
(* so is their total, however far the sums in between are beyond one.        *)
THEOREM BalancesAreExactHolds == Spec => []BalancesAreExact
  BY Invariance, PTL DEF IInv

(* The validation of create_user_priority never accepts an amount that the   *)
(* account could not have paid at that moment.                               *)
THEOREM AcceptedIsCoveredHolds == Spec => []AcceptedIsCovered
  BY Invariance, PTL DEF IInv
=============================================================================
