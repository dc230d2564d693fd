-------------------------- MODULE HashtableProofs --------------------------
(***************************************************************************)
(* Proofs about Hashtable for any keys, hash values and capacities.        *)
(***************************************************************************)
EXTENDS Hashtable, FiniteSetTheorems, WellFoundedInduction, TLAPS

(***************************************************************************)
(* Arithmetic                                                              *)
(***************************************************************************)
Smaller == OpToRel(<, Nat)

LEMMA SmallerWellFounded ==
  IsWellFoundedOn(Smaller, Nat) /\ \A m, n \in Nat : m < n => <<m, n>> \in Smaller
<1>1. IsWellFoundedOn(Smaller, Nat)
  BY NatLessThanWellFounded DEF Smaller
<1>2. ASSUME NEW m \in Nat, NEW n \in Nat, m < n PROVE <<m, n>> \in Smaller
  BY <1>2 DEF Smaller, OpToRel
<1> QED
  BY <1>1, <1>2

(* Proofs by induction take the least counterexample.                      *)
LEMMA LeastNat ==
  ASSUME NEW S \in SUBSET Nat, S # {}
  PROVE  \E n \in S : \A m \in S : n <= m
<1>1. PICK n \in S : \A m \in S : ~(<<m, n>> \in Smaller)
  <2>1. IsWellFoundedOn(Smaller, Nat) /\ S \subseteq Nat /\ S # {}
    BY SmallerWellFounded
  <2> QED
    BY ONLY <2>1, WFMin
<1>2. \A m \in S : n <= m
  <2> TAKE m \in S
  <2>1. m \in Nat /\ n \in Nat
    OBVIOUS
  <2>2. m < n => <<m, n>> \in Smaller
    BY <2>1, SmallerWellFounded
  <2>3. <<m, n>> \notin Smaller
    BY <1>1
  <2> QED
    BY <2>1, <2>2, <2>3
<1> QED
  BY <1>2

LEMMA Remainder ==
  ASSUME NEW a \in Nat, NEW n \in Nat \ {0}
  PROVE  /\ a % n \in 0 .. n - 1
         /\ \E q \in Nat : a = n * q + (a % n)
<1>1. a % n \in 0 .. n - 1 /\ a \div n \in Int /\ a = n * (a \div n) + (a % n)
  OBVIOUS
<1>2. a \div n \in Nat
  <2>1. a \div n >= 0
    OBVIOUS
  <2> QED
    BY <1>1, <2>1
<1> QED
  BY ONLY <1>1, <1>2

LEMMA NoMultipleBetween ==
  ASSUME NEW n \in Nat \ {0}, NEW r \in Int, NEW d \in 1 .. n - 1
  PROVE  d # n * r
<1>1. CASE r <= 0
  <2>1. n * r <= 0
    BY <1>1
  <2> QED
    BY <2>1
<1>2. CASE r >= 1
  <2>1. n * r >= n
    BY <1>2
  <2> QED
    BY <2>1
<1> QED
  BY <1>1, <1>2

LEMMA EvenFactor ==
  ASSUME NEW c \in Int, c % 2 = 1, NEW d \in Int, NEW x \in Int, d * c = 2 * x
  PROVE  d % 2 = 0
<1>1. PICK k \in Int : c = 2 * k + 1
  <2>1. c = 2 * (c \div 2) + 1 /\ c \div 2 \in Int
    OBVIOUS
  <2> QED
    BY <2>1
<1>2. d * c = 2 * (d * k) + d
  BY <1>1
<1>3. d = 2 * (x - d * k) /\ x - d * k \in Int
  BY <1>2
<1> QED
  BY <1>3

LEMMA HalfPower ==
  ASSUME NEW n \in Nat, PowerOfTwo(n), n > 1
  PROVE  \E h \in Nat \ {0} : n = 2 * h /\ PowerOfTwo(h)
<1>1. n % 2 = 0
  <2>1. n \in 1 .. n /\ 1 \in 1 .. n /\ n * 1 = n
    OBVIOUS
  <2> QED
    BY <2>1 DEF PowerOfTwo
<1>2. PICK h \in Nat \ {0} : n = 2 * h
  <2>1. n = 2 * (n \div 2) /\ n \div 2 \in Int
    BY <1>1
  <2>2. n \div 2 > 0
    BY <2>1
  <2> QED
    BY <2>1, <2>2
<1>3. ASSUME NEW d \in 1 .. h, NEW q \in 1 .. h, d * q = h
      PROVE  d = 1 \/ d % 2 = 0
  <2>1. d * (2 * q) = n /\ d \in 1 .. n /\ 2 * q \in 1 .. n
    BY <1>2, <1>3
  <2> QED
    BY <2>1 DEF PowerOfTwo
<1> QED
  BY <1>2, <1>3 DEF PowerOfTwo

LEMMA DoublePower ==
  ASSUME NEW n \in Nat \ {0}, PowerOfTwo(n)
  PROVE  PowerOfTwo(2 * n)
<1> SUFFICES ASSUME NEW d \in 1 .. 2 * n, NEW q \in 1 .. 2 * n, d * q = 2 * n, d % 2 = 1
             PROVE  d = 1
  BY DEF PowerOfTwo
<1>1. q * d = 2 * n
  OBVIOUS
<1>2. q % 2 = 0
  BY <1>1, EvenFactor
<1>3. PICK p \in Int : q = 2 * p
  <2>1. q = 2 * (q \div 2) /\ q \div 2 \in Int
    BY <1>2
  <2> QED
    BY <2>1
<1>4. d * p = n /\ p \in 1 .. n
  <2>1. 2 * (d * p) = 2 * n
    BY <1>3
  <2>2. d * p = n /\ p >= 1 /\ p <= n
    BY <2>1, <1>3
  <2> QED
    BY <2>2
<1>5. d <= n
  <2>1. d * p >= d
    BY <1>4
  <2> QED
    BY <2>1, <1>4
<1> QED
  BY <1>4, <1>5 DEF PowerOfTwo

LEMMA OddFactor ==
  ASSUME NEW n \in Nat \ {0}, PowerOfTwo(n), NEW c \in Int, c % 2 = 1,
         NEW d \in Int, NEW q \in Int, d * c = n * q
  PROVE  \E r \in Int : d = n * r
<1> DEFINE Fails(m) == PowerOfTwo(m) /\ \E e, x \in Int : e * c = m * x /\ \A r \in Int : e # m * r
           S == {m \in Nat \ {0} : Fails(m)}
<1> SUFFICES ASSUME S # {} PROVE FALSE
  OBVIOUS
<1>1. PICK m \in S : \A k \in S : m <= k
  BY LeastNat
<1>2. m \in Nat \ {0} /\ PowerOfTwo(m)
  OBVIOUS
<1>3. PICK e \in Int, x \in Int : e * c = m * x /\ \A r \in Int : e # m * r
  OBVIOUS
<1>4. m # 1
  <2>1. e = 1 * e
    OBVIOUS
  <2> QED
    BY <2>1, <1>3
<1>5. PICK h \in Nat \ {0} : m = 2 * h /\ PowerOfTwo(h)
  BY <1>2, <1>4, HalfPower
<1>6. e * c = 2 * (h * x) /\ h * x \in Int
  BY <1>3, <1>5
<1>7. e % 2 = 0
  BY <1>6, EvenFactor
<1>8. PICK f \in Int : e = 2 * f
  <2>1. e = 2 * (e \div 2) /\ e \div 2 \in Int
    BY <1>7
  <2> QED
    BY <2>1
<1>9. f * c = h * x
  <2>1. 2 * (f * c) = 2 * (h * x) /\ f * c \in Int
    BY <1>6, <1>8
  <2> QED
    BY <2>1, <1>6
<1>10. h \notin S
  <2>1. h < m /\ m \in Nat
    BY <1>2, <1>5
  <2> HIDE DEF S
  <2> QED
    BY <1>1, <2>1
<1>11. PICK r \in Int : f = h * r
  BY <1>5, <1>9, <1>10
<1>12. e = m * r
  BY <1>5, <1>8, <1>11
<1> QED
  BY <1>3, <1>12

(***************************************************************************)
(* Probing: every slot of a table whose capacity is a power of two is met, *)
(* so that find ends where there is a free slot.                           *)
(***************************************************************************)
Entries == {EmptyPair, DeletedPair}
           \cup [key : Keys, val : UNION {Values[k] : k \in Kinds}, hidden : BOOLEAN]
Tables(n) == [0 .. n - 1 -> Entries]

LEMMA Marks ==
  /\ EMPTY \notin Keys /\ DELETED \notin Keys /\ EMPTY # DELETED
  /\ EmptyPair.key = EMPTY /\ DeletedPair.key = DELETED
  /\ EmptyPair.val = None /\ DeletedPair.val = None
BY HashtableAssumption DEF HashtableAssumption, EmptyPair, DeletedPair, Pair

LEMMA Capacity ==
  ASSUME NEW n \in Nat, NEW t \in Tables(n)
  PROVE  getCapacity(t) = n /\ DOMAIN t = 0 .. n - 1
<1>1. DOMAIN t = 0 .. n - 1
  BY DEF Tables
<1>2. Cardinality(0 .. n - 1) = n
  BY FS_Interval
<1> QED
  BY <1>1, <1>2 DEF getCapacity

Offset(j) == 8 * j + (j * (j - 1)) \div 2

LEMMA OffsetNat == ASSUME NEW j \in Nat PROVE Offset(j) \in Nat
<1>1. j * (j - 1) \in Nat
  <2>1. CASE j = 0
    BY <2>1
  <2>2. CASE j > 0
    BY <2>2
  <2> QED
    BY <2>1, <2>2
<1>2. \A x \in Nat : x \div 2 \in Nat
  OBVIOUS
<1>3. (j * (j - 1)) \div 2 \in Nat
  BY ONLY <1>1, <1>2
<1> QED
  BY <1>3 DEF Offset

LEMMA ProbeDef ==
  ASSUME NEW k \in Keys, NEW n \in Nat \ {0}, NEW j \in Nat
  PROVE  /\ Hash[k] + Offset(j) \in Nat
         /\ Probe(k, n, j) = (Hash[k] + Offset(j)) % n
         /\ Probe(k, n, j) \in 0 .. n - 1
<1>1. Hash[k] \in Nat /\ Offset(j) \in Nat
  BY HashtableAssumption, OffsetNat DEF HashtableAssumption
<1>2. Hash[k] + Offset(j) \in Nat
  BY <1>1
<1>3. Probe(k, n, j) = (Hash[k] + Offset(j)) % n
  <2>1. 8 * j \in Int /\ (j * (j - 1)) \div 2 \in Int
    OBVIOUS
  <2>2. Hash[k] + 8 * j + (j * (j - 1)) \div 2 = Hash[k] + Offset(j)
    BY <1>1, <2>1 DEF Offset
  <2> QED
    BY <2>2 DEF Probe
<1> QED
  BY <1>2, <1>3, Remainder

(* Among the even steps no two of the first n meet.                        *)
LEMMA EvenStep == ASSUME NEW m \in Nat PROVE Offset(2 * m) = m * (2 * m + 15)
<1>1. (2 * m) * (2 * m - 1) = 2 * (m * (2 * m - 1)) /\ m * (2 * m - 1) \in Int
  OBVIOUS
<1>2. (2 * (m * (2 * m - 1))) \div 2 = m * (2 * m - 1)
  <2>1. \A x \in Int : (2 * x) \div 2 = x
    OBVIOUS
  <2> QED
    BY <1>1, <2>1
<1>3. 8 * (2 * m) + m * (2 * m - 1) = m * (2 * m + 15)
  OBVIOUS
<1> QED
  BY <1>1, <1>2, <1>3 DEF Offset

LEMMA EvenStepsDiffer ==
  ASSUME NEW n \in Nat \ {0}, PowerOfTwo(n), NEW h \in Nat,
         NEW l \in 0 .. n - 1, NEW m \in 0 .. n - 1, l < m
  PROVE  (h + Offset(2 * l)) % n # (h + Offset(2 * m)) % n
<1> SUFFICES ASSUME (h + Offset(2 * l)) % n = (h + Offset(2 * m)) % n PROVE FALSE
  OBVIOUS
<1>1. l \in Nat /\ m \in Nat /\ 2 * l \in Nat /\ 2 * m \in Nat
  OBVIOUS
<1> DEFINE a == h + Offset(2 * l)
           b == h + Offset(2 * m)
<1>2. a \in Nat /\ b \in Nat
  BY <1>1, OffsetNat
<1>3. b - a = (m - l) * (2 * (m + l) + 15)
  BY <1>1, EvenStep
<1> HIDE DEF a, b
<1>4. PICK p \in Nat : a = n * p + (a % n)
  BY <1>2, Remainder
<1>4b. PICK q \in Nat : b = n * q + (b % n)
  BY <1>2, Remainder
<1>5. a % n = b % n /\ a % n \in Int
  BY <1>2, Remainder DEF a, b
<1>6. b - a = n * (q - p) /\ q - p \in Int
  BY <1>4, <1>4b, <1>5
<1>7. (2 * (m + l) + 15) % 2 = 1 /\ 2 * (m + l) + 15 \in Int /\ m - l \in Int
  OBVIOUS
<1>8. (m - l) * (2 * (m + l) + 15) = n * (q - p)
  BY <1>3, <1>6
<1>9. PICK r \in Int : m - l = n * r
  BY ONLY <1>6, <1>7, <1>8, OddFactor, n \in Nat \ {0}, PowerOfTwo(n)
<1>10. m - l \in 1 .. n - 1
  OBVIOUS
<1> QED
  BY <1>9, <1>10, NoMultipleBetween

LEMMA AllProbed ==
  ASSUME NEW n \in Nat \ {0}, PowerOfTwo(n), NEW k \in Keys, NEW s \in 0 .. n - 1
  PROVE  \E j \in 0 .. 2 * n - 1 : Probe(k, n, j) = s
<1> DEFINE Slot == 0 .. n - 1
           f == [m \in Slot |-> Probe(k, n, 2 * m)]
<1>1. \A m \in Slot : 2 * m \in Nat /\ 2 * m \in 0 .. 2 * n - 1
  OBVIOUS
<1>2. \A m \in Slot : /\ Probe(k, n, 2 * m) = (Hash[k] + Offset(2 * m)) % n
                      /\ Probe(k, n, 2 * m) \in Slot
  BY <1>1, ProbeDef
<1>3. Hash[k] \in Nat
  BY HashtableAssumption DEF HashtableAssumption
<1>4. ASSUME NEW l \in Slot, NEW m \in Slot, f[l] = f[m] PROVE l = m
  <2>1. (Hash[k] + Offset(2 * l)) % n = (Hash[k] + Offset(2 * m)) % n
    BY <1>2, <1>4
  <2>2. l \in Int /\ m \in Int
    OBVIOUS
  <2> QED
    BY <1>3, <2>1, <2>2, EvenStepsDiffer
<1>5. f \in [Slot -> Slot]
  BY <1>2
<1>6. f \in Injection(Slot, Slot)
  BY <1>4, <1>5 DEF Injection, IsInjective
<1>7. IsFiniteSet(Slot)
  BY FS_Interval
<1>8. f \in Surjection(Slot, Slot)
  <2> HIDE DEF f, Slot
  <2> QED
    BY <1>6, <1>7, FS_Injection
<1>9. PICK m \in Slot : f[m] = s
  BY <1>8 DEF Surjection
<1> QED
  BY <1>1, <1>9

(* Where find stops.                                                       *)
LEMMA StopsDef ==
  ASSUME NEW n \in Nat \ {0}, NEW t \in Tables(n), NEW k \in Keys, NEW j \in Nat
  PROVE  StopsAt(k, t, n, j) <=> t[Probe(k, n, j)].key \in {k, EMPTY}
BY DEF StopsAt

LEMMA Ends ==
  ASSUME NEW n \in Nat \ {0}, PowerOfTwo(n), NEW t \in Tables(n), NEW k \in Keys,
         NEW s \in 0 .. n - 1, t[s].key \in {k, EMPTY}
  PROVE  ~Endless(k, t)
<1>1. PICK j \in 0 .. 2 * n - 1 : Probe(k, n, j) = s
  BY AllProbed
<1>2. getCapacity(t) = n
  BY Capacity
<1>3. StopsAt(k, t, n, j)
  BY <1>1 DEF StopsAt
<1> QED
  BY <1>2, <1>3 DEF Endless

StopsFirst(k, t, n, j) == /\ j \in 0 .. 2 * n - 1 /\ StopsAt(k, t, n, j)
                          /\ \A i \in 0 .. j - 1 : ~StopsAt(k, t, n, i)

LEMMA FindStops ==
  ASSUME NEW n \in Nat \ {0}, NEW t \in Tables(n), NEW k \in Keys, ~Endless(k, t)
  PROVE  \E j \in 0 .. 2 * n - 1 : StopsFirst(k, t, n, j) /\ find(k, t) = Probe(k, n, j)
<1>1. getCapacity(t) = n
  BY Capacity
<1> DEFINE S == {j \in 0 .. 2 * n - 1 : StopsAt(k, t, n, j)}
<1>2. S # {} /\ S \in SUBSET Nat
  BY <1>1 DEF Endless
<1>3. PICK m \in S : \A i \in S : m <= i
  BY <1>2, LeastNat
<1>4. m \in 0 .. 2 * n - 1 /\ StopsAt(k, t, n, m)
  OBVIOUS
<1>5. ASSUME NEW i \in 0 .. m - 1 PROVE ~StopsAt(k, t, n, i)
  <2>1. i \in 0 .. 2 * n - 1 /\ i < m
    BY <1>4
  <2>2. i \notin S
    BY <1>3, <1>4, <2>1
  <2> QED
    BY <2>1, <2>2
<1>6. \E j \in 0 .. 2 * n - 1 :
        StopsAt(k, t, n, j) /\ \A i \in 0 .. j - 1 : ~StopsAt(k, t, n, i)
  BY <1>4, <1>5
<1> DEFINE c == CHOOSE j \in 0 .. 2 * n - 1 :
                  StopsAt(k, t, n, j) /\ \A i \in 0 .. j - 1 : ~StopsAt(k, t, n, i)
<1>7. c \in 0 .. 2 * n - 1 /\ StopsAt(k, t, n, c) /\ \A i \in 0 .. c - 1 : ~StopsAt(k, t, n, i)
  BY ONLY <1>6
<1>8. find(k, t) = Probe(k, n, c)
  BY <1>1 DEF find
<1> HIDE DEF c
<1> QED
  BY <1>7, <1>8 DEF StopsFirst

LEMMA FirstStopUnique ==
  ASSUME NEW n \in Nat \ {0}, NEW t, NEW k \in Keys, NEW i, NEW j,
         StopsFirst(k, t, n, i), StopsFirst(k, t, n, j)
  PROVE  i = j
<1>1. i \in Int /\ j \in Int /\ 0 <= i /\ 0 <= j
  BY DEF StopsFirst
<1>2. ~(i < j)
  <2>1. i < j => i \in 0 .. j - 1
    BY <1>1
  <2> QED
    BY <2>1 DEF StopsFirst
<1>3. ~(j < i)
  <2>1. j < i => j \in 0 .. i - 1
    BY <1>1
  <2> QED
    BY <2>1 DEF StopsFirst
<1> QED
  BY <1>1, <1>2, <1>3

LEMMA FindFirst ==
  ASSUME NEW n \in Nat \ {0}, NEW t \in Tables(n), NEW k \in Keys, NEW j,
         StopsFirst(k, t, n, j)
  PROVE  ~Endless(k, t) /\ find(k, t) = Probe(k, n, j)
<1>1. getCapacity(t) = n
  BY Capacity
<1>2. ~Endless(k, t)
  BY <1>1 DEF Endless, StopsFirst
<1>3. PICK i \in 0 .. 2 * n - 1 : StopsFirst(k, t, n, i) /\ find(k, t) = Probe(k, n, i)
  BY <1>2, FindStops
<1> QED
  BY <1>2, <1>3, FirstStopUnique

LEMMA FindSlot ==
  ASSUME NEW n \in Nat \ {0}, NEW t \in Tables(n), NEW k \in Keys, ~Endless(k, t)
  PROVE  find(k, t) \in 0 .. n - 1 /\ t[find(k, t)].key \in {k, EMPTY}
<1>1. PICK j \in 0 .. 2 * n - 1 : StopsFirst(k, t, n, j) /\ find(k, t) = Probe(k, n, j)
  BY FindStops
<1>2. j \in Nat
  BY <1>1
<1> QED
  BY <1>1, <1>2, ProbeDef DEF StopsFirst, StopsAt

(* A change that turns no slot into a stop for k, nor a stop into none,    *)
(* does not move k.                                                        *)
LEMMA FindSame ==
  ASSUME NEW n \in Nat \ {0}, NEW t \in Tables(n), NEW u \in Tables(n), NEW k \in Keys,
         ~Endless(k, t),
         \A s \in 0 .. n - 1 : t[s].key \in {k, EMPTY} <=> u[s].key \in {k, EMPTY}
  PROVE  ~Endless(k, u) /\ find(k, u) = find(k, t)
<1>1. PICK j \in 0 .. 2 * n - 1 : StopsFirst(k, t, n, j) /\ find(k, t) = Probe(k, n, j)
  BY FindStops
<1>2. ASSUME NEW i \in Nat PROVE StopsAt(k, t, n, i) <=> StopsAt(k, u, n, i)
  <2>1. Probe(k, n, i) \in 0 .. n - 1
    BY ProbeDef
  <2> QED
    BY <2>1 DEF StopsAt
<1>3. StopsFirst(k, u, n, j)
  <2>1. j \in Nat /\ \A i \in 0 .. j - 1 : i \in Nat
    BY <1>1
  <2> QED
    BY <1>1, <1>2, <2>1 DEF StopsFirst
<1> QED
  BY <1>1, <1>3, FindFirst

(* A pair put into a free slot does not move the keys found elsewhere.     *)
LEMMA FindBeside ==
  ASSUME NEW n \in Nat \ {0}, NEW t \in Tables(n), NEW u \in Tables(n), NEW k \in Keys,
         ~Endless(k, t), NEW s \in 0 .. n - 1, t[s].key = EMPTY, find(k, t) # s,
         \A r \in (0 .. n - 1) \ {s} : u[r].key = t[r].key
  PROVE  ~Endless(k, u) /\ find(k, u) = find(k, t)
<1>1. PICK j \in 0 .. 2 * n - 1 : StopsFirst(k, t, n, j) /\ find(k, t) = Probe(k, n, j)
  BY FindStops
<1>2. ASSUME NEW i \in 0 .. j PROVE Probe(k, n, i) \in (0 .. n - 1) \ {s}
  <2>1. i \in Nat /\ (i \in 0 .. j - 1 \/ i = j)
    BY <1>1
  <2>2. Probe(k, n, i) \in 0 .. n - 1
    BY <2>1, ProbeDef
  <2>3. i \in 0 .. j - 1 => Probe(k, n, i) # s
    BY <1>1 DEF StopsFirst, StopsAt
  <2> QED
    BY <1>1, <2>1, <2>2, <2>3
<1>3. \A i \in 0 .. j : StopsAt(k, t, n, i) <=> StopsAt(k, u, n, i)
  BY <1>2 DEF StopsAt
<1>4. StopsFirst(k, u, n, j)
  <2>1. j \in 0 .. j /\ \A i \in 0 .. j - 1 : i \in 0 .. j
    BY <1>1
  <2> QED
    BY <1>1, <1>3, <2>1 DEF StopsFirst
<1> QED
  BY <1>1, <1>4, FindFirst

(***************************************************************************)
(* Tables in which find finds: there is a free slot, and each key lies     *)
(* where its probe ends.                                                   *)
(***************************************************************************)
Used(t) == {i \in DOMAIN t : t[i].key # EMPTY}
Roomy(t) == \E s \in DOMAIN t : t[s].key = EMPTY
Placed(t) == \A i \in Live(t) : find(t[i].key, t) = i
Good(t, n) == n \in Nat \ {0} /\ PowerOfTwo(n) /\ t \in Tables(n) /\ Roomy(t) /\ Placed(t)

LEMMA LiveDef ==
  ASSUME NEW n \in Nat, NEW t \in Tables(n)
  PROVE  /\ \A i : i \in Live(t) <=> i \in 0 .. n - 1 /\ t[i].key \in Keys
         /\ \A i : i \in Used(t) <=> i \in 0 .. n - 1 /\ t[i].key # EMPTY
         /\ Live(t) \subseteq Used(t) /\ Used(t) \subseteq 0 .. n - 1
         /\ IsFiniteSet(Live(t)) /\ IsFiniteSet(Used(t))
         /\ Cardinality(Live(t)) \in Nat /\ Cardinality(Used(t)) \in Nat
         /\ Cardinality(Live(t)) <= Cardinality(Used(t)) /\ Cardinality(Used(t)) <= n
<1>1. DOMAIN t = 0 .. n - 1
  BY Capacity
<1>2. Live(t) \subseteq Used(t) /\ Used(t) \subseteq 0 .. n - 1
  BY <1>1, Marks DEF Live, Used
<1>3. IsFiniteSet(0 .. n - 1) /\ Cardinality(0 .. n - 1) = n
  BY FS_Interval
<1>4. IsFiniteSet(Used(t)) /\ Cardinality(Used(t)) <= n
  BY <1>2, <1>3, FS_Subset
<1>5. IsFiniteSet(Live(t)) /\ Cardinality(Live(t)) <= Cardinality(Used(t))
  BY <1>2, <1>4, FS_Subset
<1>6. Cardinality(Live(t)) \in Nat /\ Cardinality(Used(t)) \in Nat
  BY <1>4, <1>5, FS_CardinalityType
<1> QED
  BY <1>1, <1>2, <1>4, <1>5, <1>6 DEF Live, Used

LEMMA EntryKey ==
  ASSUME NEW n \in Nat, NEW t \in Tables(n), NEW i \in 0 .. n - 1
  PROVE  t[i] \in Entries /\ t[i].key \in Keys \cup {EMPTY, DELETED}
<1>1. t[i] \in Entries
  BY DEF Tables
<1> QED
  BY <1>1, Marks DEF Entries

LEMMA RoomLeft ==
  ASSUME NEW n \in Nat, NEW t \in Tables(n), Cardinality(Used(t)) < n
  PROVE  Roomy(t)
<1>1. DOMAIN t = 0 .. n - 1
  BY Capacity
<1> SUFFICES ASSUME ~Roomy(t) PROVE FALSE
  OBVIOUS
<1>2. Used(t) = 0 .. n - 1
  BY <1>1 DEF Roomy, Used
<1>3. Cardinality(0 .. n - 1) = n
  BY FS_Interval
<1> QED
  BY <1>2, <1>3

LEMMA GoodFind ==
  ASSUME NEW t, NEW n, Good(t, n), NEW k \in Keys
  PROVE  /\ ~Endless(k, t)
         /\ find(k, t) \in 0 .. n - 1 /\ t[find(k, t)].key \in {k, EMPTY}
<1>1. n \in Nat \ {0} /\ PowerOfTwo(n) /\ t \in Tables(n) /\ DOMAIN t = 0 .. n - 1
  BY Capacity DEF Good
<1>2. PICK s \in 0 .. n - 1 : t[s].key \in {k, EMPTY}
  BY <1>1 DEF Good, Roomy
<1>3. ~Endless(k, t)
  BY <1>1, <1>2, Ends
<1> QED
  BY <1>1, <1>3, FindSlot

LEMMA KeyOnce ==
  ASSUME NEW t, NEW n, Good(t, n), NEW i \in Live(t), NEW j \in Live(t), t[i].key = t[j].key
  PROVE  i = j
BY DEF Good, Placed

(* What contains and find say of a key, in terms of the live pairs.        *)
LEMMA Lookup ==
  ASSUME NEW t, NEW n, Good(t, n), NEW k \in Keys
  PROVE  /\ contains(k, t) <=> t[find(k, t)].key = k
         /\ t[find(k, t)].key = k <=> \E i \in Live(t) : t[i].key = k
         /\ \A i \in Live(t) : t[i].key = k => find(k, t) = i
         /\ t[find(k, t)].key = k => find(k, t) \in Live(t)
<1>1. n \in Nat /\ t \in Tables(n)
  BY DEF Good
<1>2. ~Endless(k, t) /\ find(k, t) \in 0 .. n - 1
  BY GoodFind
<1>3. \A i \in Live(t) : t[i].key = k => find(k, t) = i
  BY DEF Good, Placed
<1>4. t[find(k, t)].key = k => find(k, t) \in Live(t)
  BY <1>1, <1>2, LiveDef
<1> QED
  BY <1>2, <1>3, <1>4 DEF contains

(* Pairs may be changed, and deleted, where they are.                      *)
LEMMA GoodKept ==
  ASSUME NEW t, NEW n, Good(t, n), NEW u \in Tables(n),
         \A s \in 0 .. n - 1 : \/ u[s].key = t[s].key
                               \/ t[s].key \in Keys /\ u[s].key = DELETED
  PROVE  /\ Good(u, n)
         /\ \A i \in Live(u) : i \in Live(t) /\ u[i].key = t[i].key
         /\ Used(u) = Used(t)
<1>1. n \in Nat \ {0} /\ PowerOfTwo(n) /\ t \in Tables(n)
  BY DEF Good
<1>2. DOMAIN t = 0 .. n - 1 /\ DOMAIN u = 0 .. n - 1
  BY <1>1, Capacity
<1>3. \A i \in Live(u) : i \in Live(t) /\ u[i].key = t[i].key
  BY <1>2, Marks DEF Live
<1>4. Used(u) = Used(t)
  BY <1>2, Marks DEF Used
<1>5. Roomy(u)
  <2>1. PICK s \in 0 .. n - 1 : t[s].key = EMPTY
    BY <1>2 DEF Good, Roomy
  <2>2. u[s].key = EMPTY
    BY <2>1, Marks
  <2> QED
    BY <1>2, <2>2 DEF Roomy
<1>6. ASSUME NEW i \in Live(u) PROVE find(u[i].key, u) = i
  <2> DEFINE k == u[i].key
  <2>1. i \in Live(t) /\ k = t[i].key /\ k \in Keys /\ find(k, t) = i
    BY <1>3 DEF Live, Good, Placed
  <2>2. ASSUME NEW s \in 0 .. n - 1
        PROVE  t[s].key \in {k, EMPTY} <=> u[s].key \in {k, EMPTY}
    <3>1. CASE u[s].key = t[s].key
      BY <3>1
    <3>2. CASE t[s].key \in Keys /\ u[s].key = DELETED
      <4>1. s \in Live(t)
        BY <1>2, <3>2 DEF Live
      <4>2. t[s].key # k
        <5>1. t[s].key = k => s = i
          BY <2>1, <4>1, KeyOnce
        <5> QED
          BY <2>1, <3>2, <5>1, Marks
      <4> QED
        BY <2>1, <3>2, <4>2, Marks
    <3> QED
      BY <3>1, <3>2
  <2>3. ~Endless(k, t)
    BY <2>1, GoodFind
  <2> HIDE DEF k
  <2>4. find(k, u) = find(k, t)
    BY <1>1, <2>1, <2>2, <2>3, FindSame
  <2> QED
    BY <2>1, <2>4 DEF k
<1> QED
  BY <1>1, <1>3, <1>4, <1>5, <1>6 DEF Good, Placed

(* What a pair put where find ends for a key that is not there changes.    *)
LEMMA FreshPut ==
  ASSUME NEW t, NEW n, Good(t, n), NEW p \in Entries, p.key \in Keys,
         \A i \in Live(t) : t[i].key # p.key
  PROVE  LET s == find(p.key, t)
             u == [t EXCEPT ![s] = p]
         IN  /\ s \in 0 .. n - 1 /\ t[s].key = EMPTY
             /\ u \in Tables(n)
             /\ u[s] = p /\ \A r \in (0 .. n - 1) \ {s} : u[r] = t[r]
             /\ Live(u) = Live(t) \cup {s} /\ s \notin Used(t)
             /\ Used(u) = Used(t) \cup {s}
             /\ Cardinality(Used(u)) = Cardinality(Used(t)) + 1
             /\ Cardinality(Live(u)) = Cardinality(Live(t)) + 1
<1> DEFINE k == p.key
           s == find(k, t)
           u == [t EXCEPT ![s] = p]
<1>1. n \in Nat \ {0} /\ PowerOfTwo(n) /\ t \in Tables(n) /\ k \in Keys
  BY DEF Good
<1>2. DOMAIN t = 0 .. n - 1
  BY <1>1, Capacity
<1>3. ~Endless(k, t) /\ s \in 0 .. n - 1 /\ t[s].key \in {k, EMPTY}
  BY <1>1, GoodFind
<1>4. t[s].key = EMPTY
  <2>1. t[s].key # k
    BY <1>1, <1>2, <1>3 DEF Live
  <2> QED
    BY <1>3, <2>1
<1> HIDE DEF s
<1>5. u \in Tables(n) /\ DOMAIN u = 0 .. n - 1
  BY <1>1, <1>2, <1>3 DEF Tables
<1>6. /\ Live(u) = Live(t) \cup {s} /\ s \notin Used(t) /\ s \notin Live(t)
      /\ Used(u) = Used(t) \cup {s}
  BY <1>1, <1>2, <1>3, <1>4, <1>5, Marks DEF Live, Used
<1>7. u[s] = p /\ \A r \in (0 .. n - 1) \ {s} : u[r] = t[r]
  BY <1>2, <1>3
<1>8. /\ Cardinality(Used(u)) = Cardinality(Used(t)) + 1
      /\ Cardinality(Live(u)) = Cardinality(Live(t)) + 1
  <2>1. IsFiniteSet(Used(t)) /\ IsFiniteSet(Live(t))
    BY <1>1, LiveDef
  <2> QED
    BY <1>6, <2>1, FS_AddElement
<1> HIDE DEF u
<1> QED
  BY <1>3, <1>4, <1>5, <1>6, <1>7, <1>8 DEF s, u

(* If that leaves a free slot, every key is found as before.               *)
LEMMA GoodPut ==
  ASSUME NEW t, NEW n, Good(t, n), NEW p \in Entries, p.key \in Keys,
         \A i \in Live(t) : t[i].key # p.key,
         Cardinality(Used(t)) + 1 < n
  PROVE  Good([t EXCEPT ![find(p.key, t)] = p], n)
<1> DEFINE k == p.key
           s == find(k, t)
           u == [t EXCEPT ![s] = p]
<1>1. n \in Nat \ {0} /\ PowerOfTwo(n) /\ t \in Tables(n) /\ k \in Keys
  BY DEF Good
<1>2. DOMAIN t = 0 .. n - 1
  BY <1>1, Capacity
<1>3. ~Endless(k, t) /\ s \in 0 .. n - 1 /\ t[s].key = EMPTY
  BY <1>1, GoodFind, FreshPut
<1>4. /\ u \in Tables(n)
      /\ u[s] = p /\ \A r \in (0 .. n - 1) \ {s} : u[r] = t[r]
      /\ Live(u) = Live(t) \cup {s}
      /\ Cardinality(Used(u)) = Cardinality(Used(t)) + 1
  <2>1. /\ u \in Tables(n)
        /\ Live(u) = Live(t) \cup {s}
        /\ Cardinality(Used(u)) = Cardinality(Used(t)) + 1
    BY FreshPut
  <2>2. u[s] = p /\ \A r \in (0 .. n - 1) \ {s} : u[r] = t[r]
    BY <1>2, <1>3
  <2> QED
    BY ONLY <2>1, <2>2
<1>5. DOMAIN u = 0 .. n - 1
  BY <1>1, <1>4, Capacity
<1> HIDE DEF s, u
<1>9. Roomy(u)
  BY <1>1, <1>4, RoomLeft
<1>10. find(k, u) = s
  <2>1. PICK j \in 0 .. 2 * n - 1 : StopsFirst(k, t, n, j) /\ s = Probe(k, n, j)
    BY <1>1, <1>3, FindStops DEF s
  <2>2. ASSUME NEW i \in 0 .. j - 1 PROVE ~StopsAt(k, u, n, i)
    <3>1. i \in Nat
      BY <2>1
    <3>2. Probe(k, n, i) \in 0 .. n - 1
      BY <1>1, <3>1, ProbeDef
    <3>3. ~StopsAt(k, t, n, i)
      BY <2>1 DEF StopsFirst
    <3>4. Probe(k, n, i) # s
      BY <1>3, <3>3 DEF StopsAt
    <3> QED
      BY <1>4, <3>2, <3>3, <3>4 DEF StopsAt
  <2>3. StopsAt(k, u, n, j)
    BY <1>4, <2>1 DEF StopsAt
  <2>4. StopsFirst(k, u, n, j)
    BY <2>1, <2>2, <2>3 DEF StopsFirst
  <2> QED
    BY <1>1, <1>4, <2>1, <2>4, FindFirst
<1>11. ASSUME NEW i \in Live(u) PROVE find(u[i].key, u) = i
  <2>1. CASE i = s
    BY <1>4, <1>10, <2>1
  <2>2. CASE i # s
    <3>1. i \in Live(t) /\ i \in 0 .. n - 1 /\ u[i] = t[i]
      BY <1>2, <1>4, <2>2 DEF Live
    <3>2. t[i].key \in Keys /\ find(t[i].key, t) = i /\ ~Endless(t[i].key, t)
      BY <3>1, GoodFind DEF Live, Good, Placed
    <3>3. \A r \in (0 .. n - 1) \ {s} : u[r].key = t[r].key
      BY <1>4
    <3>4. find(t[i].key, u) = find(t[i].key, t)
      BY <1>1, <1>3, <1>4, <2>2, <3>2, <3>3, FindBeside
    <3> QED
      BY <3>1, <3>2, <3>4
  <2> QED
    BY <2>1, <2>2
<1>12. Good(u, n)
  BY <1>1, <1>4, <1>9, <1>11 DEF Good, Placed
<1> QED
  BY <1>12 DEF s, u
(***************************************************************************)
(* Rehashing                                                               *)
(***************************************************************************)
LEMMA RehashingDef ==
  ASSUME NEW c \in Nat, NEW t \in Tables(c), NEW n
  PROVE  Rehashing(t, n) = [i \in 0 .. c |->
           IF i = 0 THEN Blank(n) ELSE Moved(Rehashing(t, n)[i - 1], t[i - 1])]
<1> DEFINE Defines(g, m) ==
             g = [i \in 0 .. m |-> IF i = 0 THEN Blank(n) ELSE Moved(g[i - 1], t[i - 1])]
           S == {m \in Nat : ~\E g : Defines(g, m)}
<1>1. S = {}
  <2> SUFFICES ASSUME S # {} PROVE FALSE
    OBVIOUS
  <2>1. PICK m \in S : \A l \in S : m <= l
    BY LeastNat
  <2>2. m \in Nat /\ ~\E g : Defines(g, m)
    OBVIOUS
  <2>3. CASE m = 0
    <3>1. Defines([i \in 0 .. 0 |-> Blank(n)], 0)
      OBVIOUS
    <3> HIDE DEF Defines
    <3> QED
      BY <2>2, <2>3, <3>1
  <2>4. CASE m > 0
    <3>1. m - 1 \in Nat /\ m - 1 \notin S
      <4> HIDE DEF S
      <4>1. m \in Nat /\ m - 1 < m
        BY <2>2
      <4> QED
        BY <2>1, <2>4, <4>1
    <3>2. PICK g : Defines(g, m - 1)
      <4> HIDE DEF Defines
      <4> QED
        BY <3>1
    <3> DEFINE h == [i \in 0 .. m |-> IF i = m THEN Moved(g[m - 1], t[m - 1]) ELSE g[i]]
    <3>3. \A i \in 0 .. m - 1 : h[i] = g[i] /\ g[i] = IF i = 0 THEN Blank(n)
                                                     ELSE Moved(g[i - 1], t[i - 1])
      BY <2>2, <3>2
    <3>4. ASSUME NEW i \in 0 .. m
          PROVE  h[i] = IF i = 0 THEN Blank(n) ELSE Moved(h[i - 1], t[i - 1])
      <4>1. CASE i = m
        <5>1. m - 1 \in 0 .. m - 1
          BY <2>2, <2>4
        <5>2. h[m - 1] = g[m - 1]
          BY <3>3, <5>1
        <5> QED
          BY <2>4, <4>1, <5>2
      <4>2. CASE i # m
        <5>1. i \in 0 .. m - 1 /\ (i = 0 \/ i - 1 \in 0 .. m - 1)
          BY <2>2, <4>2
        <5>2. i # 0 => h[i - 1] = g[i - 1]
          BY <3>3, <5>1
        <5> HIDE DEF h
        <5> QED
          BY <3>3, <5>1, <5>2
      <4> QED
        BY <4>1, <4>2
    <3>5. h = [i \in 0 .. m |-> h[i]]
      OBVIOUS
    <3> HIDE DEF h
    <3>6. Defines(h, m)
      BY <3>4, <3>5
    <3> HIDE DEF Defines
    <3> QED
      BY <2>2, <3>6
  <2> QED
    BY <2>2, <2>3, <2>4
<1>2. \E g : Defines(g, c)
  <2> HIDE DEF Defines
  <2> QED
    BY <1>1
<1>3. Defines(CHOOSE g : Defines(g, c), c)
  <2> HIDE DEF Defines
  <2> QED
    BY <1>2
<1>4. getCapacity(t) = c
  BY Capacity
<1>5. Rehashing(t, n) = CHOOSE g : Defines(g, c)
  BY <1>4 DEF Rehashing
<1> QED
  BY <1>3, <1>5

Upto(t, i) == {x \in Live(t) : x < i}
OneKeyEach(t) == \A i, j \in Live(t) : t[i].key = t[j].key => i = j

(* Table r holds the pairs of t in the slots S, and no deleted ones.       *)
Holds(r, t, S) == /\ \A x \in Live(r) : \E y \in S : r[x] = t[y]
                  /\ \A y \in S : \E x \in Live(r) : r[x] = t[y]
                  /\ Used(r) = Live(r)
                  /\ Cardinality(Live(r)) = Cardinality(S)

LEMMA BlankIsGood ==
  ASSUME NEW n \in Nat \ {0}, PowerOfTwo(n)
  PROVE  Good(Blank(n), n) /\ Live(Blank(n)) = {} /\ Used(Blank(n)) = {}
<1>1. Blank(n) \in Tables(n)
  BY DEF Blank, Tables, Entries
<1>2. DOMAIN Blank(n) = 0 .. n - 1 /\ \A i \in 0 .. n - 1 : Blank(n)[i].key = EMPTY
  BY Marks DEF Blank
<1>3. Live(Blank(n)) = {} /\ Used(Blank(n)) = {}
  BY <1>2, Marks DEF Live, Used
<1>4. 0 \in 0 .. n - 1
  OBVIOUS
<1> QED
  BY <1>1, <1>2, <1>3, <1>4 DEF Good, Roomy, Placed

LEMMA RehashingHolds ==
  ASSUME NEW c \in Nat, NEW t \in Tables(c), OneKeyEach(t),
         NEW n \in Nat \ {0}, PowerOfTwo(n), Cardinality(Live(t)) < n,
         NEW i \in 0 .. c
  PROVE  Good(Rehashing(t, n)[i], n) /\ Holds(Rehashing(t, n)[i], t, Upto(t, i))
<1> DEFINE new == Rehashing(t, n)
           Right(m) == Good(new[m], n) /\ Holds(new[m], t, Upto(t, m))
           S == {m \in Nat : m <= c /\ ~Right(m)}
<1>0. \A m \in 0 .. c : new[m] = IF m = 0 THEN Blank(n) ELSE Moved(new[m - 1], t[m - 1])
  BY RehashingDef
<1> HIDE DEF new
<1> SUFFICES ASSUME S # {} PROVE FALSE
  BY DEF new
<1>1. PICK m \in S : \A l \in S : m <= l
  BY LeastNat
<1>2. m \in 0 .. c /\ ~Right(m)
  OBVIOUS
<1>3. \A x \in Live(t) : x \in 0 .. c - 1
  BY LiveDef
<1>4. m # 0
  <2> SUFFICES ASSUME m = 0 PROVE FALSE
    OBVIOUS
  <2>1. Upto(t, 0) = {}
    BY <1>3 DEF Upto
  <2>2. new[0] = Blank(n)
    BY <1>0, <1>2
  <2>3. Good(Blank(n), n) /\ Live(Blank(n)) = {} /\ Used(Blank(n)) = {}
    BY BlankIsGood
  <2>4. Right(0)
    BY <2>1, <2>2, <2>3 DEF Holds
  <2> QED
    BY <1>2, <2>4
<1> DEFINE l == m - 1
           r == new[l]
           p == t[l]
<1>5. l \in 0 .. c - 1 /\ l \in 0 .. c /\ l \in Nat /\ l < m
  BY <1>2, <1>4
<1>6. Right(l)
  <2>1. l \notin S
    <3> HIDE DEF S
    <3> QED
      BY <1>1, <1>2, <1>5
  <2> QED
    BY <1>5, <2>1
<1>7. new[m] = Moved(r, p)
  BY <1>0, <1>2, <1>4
<1>8. p \in Entries
  BY <1>5, EntryKey
<1>9. CASE p.key \notin Keys
  <2>1. new[m] = r
    BY <1>7, <1>9 DEF Moved
  <2>2. Upto(t, m) = Upto(t, l)
    <3>1. l \notin Live(t)
      BY <1>9 DEF Live
    <3> QED
      BY <1>2, <1>3, <1>5, <3>1 DEF Upto
  <2> QED
    BY <1>2, <1>6, <2>1, <2>2
<1>10. CASE p.key \in Keys
  <2> DEFINE s == find(p.key, r)
             u == [r EXCEPT ![s] = p]
  <2>1. new[m] = u
    BY <1>7, <1>10 DEF Moved
  <2>2. l \in Live(t)
    BY <1>5, <1>10, LiveDef
  <2>3. Upto(t, m) = Upto(t, l) \cup {l} /\ l \notin Upto(t, l)
    BY <1>2, <1>3, <1>5, <2>2 DEF Upto
  <2>4. \A x \in Live(r) : r[x].key # p.key
    <3> SUFFICES ASSUME NEW x \in Live(r), r[x].key = p.key PROVE FALSE
      OBVIOUS
    <3>1. PICK y \in Upto(t, l) : r[x] = t[y]
      BY <1>6 DEF Holds
    <3>2. y \in Live(t) /\ y < l
      BY <3>1 DEF Upto
    <3>3. y = l
      BY <2>2, <3>1, <3>2 DEF OneKeyEach
    <3> QED
      BY <1>5, <3>2, <3>3
  <2>5. Cardinality(Upto(t, m)) = Cardinality(Upto(t, l)) + 1 /\ Cardinality(Upto(t, m)) < n
        /\ Cardinality(Upto(t, l)) \in Nat
    <3>1. IsFiniteSet(Live(t)) /\ Cardinality(Live(t)) \in Nat
      BY LiveDef
    <3>2. Upto(t, m) \subseteq Live(t) /\ Upto(t, l) \subseteq Live(t)
      BY DEF Upto
    <3>3. /\ IsFiniteSet(Upto(t, m)) /\ Cardinality(Upto(t, m)) <= Cardinality(Live(t))
          /\ IsFiniteSet(Upto(t, l))
      BY <3>1, <3>2, FS_Subset
    <3>4. Cardinality(Upto(t, m)) \in Nat /\ Cardinality(Upto(t, l)) \in Nat
      BY <3>3, FS_CardinalityType
    <3>5. Cardinality(Upto(t, m)) = Cardinality(Upto(t, l)) + 1
      BY <2>3, <3>3, FS_AddElement
    <3> QED
      BY <3>1, <3>3, <3>4, <3>5
  <2>6. Cardinality(Used(r)) = Cardinality(Upto(t, l))
    BY <1>6 DEF Holds
  <2>7. Good(u, n)
    BY <1>6, <1>8, <1>10, <2>4, <2>5, <2>6, GoodPut
  <2>8. /\ s \in 0 .. n - 1 /\ u[s] = p /\ \A x \in (0 .. n - 1) \ {s} : u[x] = r[x]
        /\ Live(u) = Live(r) \cup {s} /\ s \notin Used(r) /\ Used(u) = Used(r) \cup {s}
        /\ Cardinality(Live(u)) = Cardinality(Live(r)) + 1
    BY <1>6, <1>8, <1>10, <2>4, FreshPut
  <2>9. Live(r) \subseteq (0 .. n - 1) \ {s}
    <3>1. Live(r) \subseteq 0 .. n - 1
      BY <1>6, LiveDef DEF Good
    <3> QED
      BY <1>6, <2>8, <3>1 DEF Holds
  <2> HIDE DEF u, s
  <2>10. Holds(u, t, Upto(t, m))
    <3>1. ASSUME NEW x \in Live(u) PROVE \E y \in Upto(t, m) : u[x] = t[y]
      <4>1. CASE x = s
        BY <2>3, <2>8, <4>1
      <4>2. CASE x # s
        <5>1. x \in Live(r) /\ u[x] = r[x]
          BY <2>8, <2>9, <4>2
        <5> QED
          BY <1>6, <2>3, <5>1 DEF Holds
      <4> QED
        BY <4>1, <4>2
    <3>2. ASSUME NEW y \in Upto(t, m) PROVE \E x \in Live(u) : u[x] = t[y]
      <4>1. CASE y = l
        BY <2>8, <4>1
      <4>2. CASE y # l
        <5>1. PICK x \in Live(r) : r[x] = t[y]
          BY <1>6, <2>3, <4>2 DEF Holds
        <5> QED
          BY <2>8, <2>9, <5>1
      <4> QED
        BY <4>1, <4>2
    <3>3. Used(u) = Live(u) /\ Cardinality(Live(u)) = Cardinality(Upto(t, m))
      BY <1>6, <2>5, <2>8 DEF Holds
    <3> QED
      BY <3>1, <3>2, <3>3 DEF Holds
  <2> QED
    BY <1>2, <2>1, <2>7, <2>10
<1> QED
  BY <1>9, <1>10

(* A rehashed table is the same map, without deleted pairs.                *)
LEMMA RehashHolds ==
  ASSUME NEW c \in Nat, NEW t \in Tables(c), OneKeyEach(t),
         NEW n \in Nat \ {0}, PowerOfTwo(n), Cardinality(Live(t)) < n
  PROVE  Good(Rehash(t, n), n) /\ Holds(Rehash(t, n), t, Live(t))
<1>1. getCapacity(t) = c /\ c \in 0 .. c
  BY Capacity
<1>2. Upto(t, c) = Live(t)
  BY LiveDef DEF Upto
<1> QED
  BY <1>1, <1>2, RehashingHolds DEF Rehash

(***************************************************************************)
(* The table and the map it stands for                                     *)
(***************************************************************************)
Fits(size, n) == size < n /\ (n <= 2 \/ 5 * (size + 1) < 4 * n)

(* What a pair shows of its value.                                         *)
Shown(p) == IF IsNull(p) THEN None ELSE p.val

Sized == /\ m_size = Cardinality(Used(atoms)) /\ Fits(m_size, getCapacity(atoms))
         /\ hasDeletedItems = (\E i \in DOMAIN atoms : atoms[i].key = DELETED)

Bindings == /\ \A i \in Live(atoms) : /\ atoms[i].val \in Values[kind]
                                      /\ bound[atoms[i].key] = Shown(atoms[i])
            /\ \A k \in Keys : (\A i \in Live(atoms) : atoms[i].key # k) => bound[k] = None

MapTyped == /\ kind \in Kinds
            /\ dead \subseteq WeaklyHeld
            /\ bound \in [Keys -> Values[kind] \cup {None}]

MapInv == MapTyped /\ Good(atoms, getCapacity(atoms)) /\ Sized /\ Bindings

LEMMA TableFacts ==
  ASSUME MapInv
  PROVE  \E n \in Nat \ {0} :
           /\ getCapacity(atoms) = n /\ DOMAIN atoms = 0 .. n - 1
           /\ PowerOfTwo(n) /\ atoms \in Tables(n) /\ Good(atoms, n)
           /\ m_size \in Nat
<1> DEFINE n == getCapacity(atoms)
<1>1. n \in Nat \ {0} /\ PowerOfTwo(n) /\ atoms \in Tables(n) /\ Good(atoms, n)
  BY DEF MapInv, Good
<1>2. DOMAIN atoms = 0 .. n - 1
  BY <1>1, Capacity
<1>3. m_size \in Nat
  BY <1>1, LiveDef DEF MapInv, Sized
<1> QED
  BY <1>1, <1>2, <1>3

LEMMA MapFindReturns == MapInv => FindReturns
<1> SUFFICES ASSUME MapInv, NEW k \in Keys PROVE ~Endless(k, atoms)
  BY DEF FindReturns
<1> QED
  BY TableFacts, GoodFind

LEMMA MapIsMap == MapInv => IsMap
<1> SUFFICES ASSUME MapInv PROVE IsMap
  OBVIOUS
<1>1. PICK n \in Nat \ {0} : Good(atoms, n)
  BY TableFacts
<1>2. ASSUME NEW k \in Keys
      PROVE  bound[k] = LET p == atoms[find(k, atoms)]
                        IN IF p.key = k /\ ~IsNull(p) THEN p.val ELSE None
  <2> DEFINE i == find(k, atoms)
  <2>1. atoms[i].key = k <=> \E j \in Live(atoms) : atoms[j].key = k
    BY <1>1, Lookup
  <2>2. atoms[i].key = k => i \in Live(atoms)
    BY <1>1, Lookup
  <2> HIDE DEF i
  <2>3. CASE atoms[i].key = k
    BY <2>2, <2>3 DEF MapInv, Bindings, Shown, i
  <2>4. CASE atoms[i].key # k
    BY <2>1, <2>4 DEF MapInv, Bindings, i
  <2> QED
    BY <2>3, <2>4
<1>3. bound = [k \in Keys |-> bound[k]]
  BY DEF MapInv, MapTyped
<1> HIDE DEF MapInv
<1> QED
  BY <1>2, <1>3 DEF IsMap

(* The table is as big as before, and pairs are changed or deleted.        *)
LEMMA SizedKept ==
  ASSUME MapInv, NEW n \in Nat \ {0}, Good(atoms, n), Good(atoms', n), Used(atoms') = Used(atoms),
         m_size' = m_size,
         hasDeletedItems' = (\E i \in 0 .. n - 1 : atoms'[i].key = DELETED)
  PROVE  Sized'
<1>1. /\ getCapacity(atoms) = n /\ getCapacity(atoms') = n
      /\ DOMAIN atoms = 0 .. n - 1 /\ DOMAIN atoms' = 0 .. n - 1
  BY Capacity DEF Good
<1> QED
  BY <1>1 DEF MapInv, Sized

LEMMA ValuesIn ==
  ASSUME MapInv, NEW v \in Values[kind], NEW k \in Keys, NEW h \in BOOLEAN
  PROVE  /\ Pair(k, v, h) \in Entries /\ v # None
         /\ Pair(k, v, h).key = k /\ Pair(k, v, h).val = v /\ Pair(k, v, h).hidden = h
<1>1. kind \in Kinds
  BY DEF MapInv, MapTyped
<1>2. v \in UNION {Values[x] : x \in Kinds}
  BY <1>1
<1> QED
  BY <1>2, HashtableAssumption DEF HashtableAssumption, Entries, Pair

(* What a step keeps of the pairs but those of some keys.                  *)
Keeps(gone) ==
  /\ getCapacity(atoms') = getCapacity(atoms)
  /\ \A i \in Live(atoms) : atoms[i].key \notin gone =>
       /\ i \in Live(atoms')
       /\ atoms'[i].key = atoms[i].key /\ atoms'[i].hidden = atoms[i].hidden
       /\ ~IsNull(atoms[i]) => ~IsNull(atoms[i])'

LEMMA UpdateMap ==
  ASSUME MapInv, NEW k \in Keys, NEW v \in Values[kind], Update(k, v)
  PROVE  MapInv' /\ Keeps({}) /\ Live(atoms') = Live(atoms)
<1>1. PICK n \in Nat \ {0} : /\ getCapacity(atoms) = n /\ DOMAIN atoms = 0 .. n - 1
                             /\ atoms \in Tables(n) /\ Good(atoms, n)
  BY TableFacts
<1>0. PICK s : s = find(k, atoms)
  OBVIOUS
<1>2. s \in 0 .. n - 1 /\ atoms[s].key = k /\ s \in Live(atoms)
  BY <1>0, <1>1, GoodFind, Lookup DEF Update
<1>3. /\ atoms' = [atoms EXCEPT ![s].val = v] /\ bound' = [bound EXCEPT ![k] = v]
      /\ UNCHANGED <<kind, m_size, hasDeletedItems, dead>> /\ k \notin dead /\ v \notin dead
  BY <1>0 DEF Update, Held
<1>4. /\ atoms'[s] = [atoms[s] EXCEPT !.val = v]
      /\ \A i \in (0 .. n - 1) \ {s} : atoms'[i] = atoms[i]
  BY <1>1, <1>2, <1>3
<1>5. atoms[s] \in [key : Keys, val : UNION {Values[x] : x \in Kinds}, hidden : BOOLEAN]
  <2>1. atoms[s] \in Entries
    BY <1>1, <1>2, EntryKey
  <2> QED
    BY <1>2, <2>1, Marks DEF Entries
<1>6. /\ atoms'[s].key = k /\ atoms'[s].val = v /\ atoms'[s].hidden = atoms[s].hidden
      /\ atoms'[s] \in Entries
  <2>1. v \in UNION {Values[x] : x \in Kinds}
    BY DEF MapInv, MapTyped
  <2> QED
    BY <1>2, <1>4, <1>5, <2>1 DEF Entries
<1>7. atoms' \in Tables(n)
  BY <1>1, <1>2, <1>3, <1>6 DEF Tables
<1>8. \A i \in 0 .. n - 1 : atoms'[i].key = atoms[i].key /\ atoms'[i].hidden = atoms[i].hidden
  BY <1>2, <1>4, <1>6
<1>9. Good(atoms', n) /\ Used(atoms') = Used(atoms)
  BY <1>1, <1>7, <1>8, GoodKept
<1>10. Live(atoms') = Live(atoms) /\ getCapacity(atoms') = n
  <2>1. DOMAIN atoms' = 0 .. n - 1 /\ getCapacity(atoms') = n
    BY <1>7, Capacity
  <2> QED
    BY <1>1, <1>8, <2>1 DEF Live
<1>11. Sized'
  <2>1. hasDeletedItems' = (\E i \in 0 .. n - 1 : atoms'[i].key = DELETED)
    BY <1>1, <1>3, <1>8 DEF MapInv, Sized
  <2> QED
    BY <1>1, <1>3, <1>9, <2>1, SizedKept
<1>12. MapTyped'
  BY <1>3 DEF MapInv, MapTyped, WeaklyHeld
<1>13. ASSUME NEW i \in Live(atoms)
       PROVE  /\ i \in 0 .. n - 1
              /\ i # s => atoms'[i] = atoms[i] /\ atoms[i].key # k
  <2>1. i \in 0 .. n - 1
    BY <1>1, LiveDef
  <2>2. i # s => atoms[i].key # k
    BY <1>1, <1>2, KeyOnce
  <2> QED
    BY <1>4, <2>1, <2>2
<1>14. ~IsNull(atoms[s])'
  BY <1>3, <1>6 DEF IsNull
<1>15. Bindings'
  <2>1. ASSUME NEW i \in Live(atoms)
        PROVE  /\ atoms'[i].val \in Values[kind]
               /\ bound'[atoms'[i].key] = Shown(atoms[i])'
    <3>1. CASE i = s
      BY <1>3, <1>6, <1>14, <3>1 DEF MapInv, MapTyped, Shown
    <3>2. CASE i # s
      BY <1>3, <1>13, <3>2 DEF MapInv, MapTyped, Bindings, Shown, IsNull, Live
    <3> QED
      BY <3>1, <3>2
  <2>2. ASSUME NEW x \in Keys, \A i \in Live(atoms') : atoms'[i].key # x PROVE bound'[x] = None
    <3>1. \A i \in Live(atoms) : atoms[i].key # x
      BY <1>8, <1>10, <1>13, <2>2
    <3>2. x # k
      BY <1>2, <3>1
    <3> QED
      BY <1>3, <3>1, <3>2 DEF MapInv, MapTyped, Bindings
  <2> QED
    BY <1>3, <1>10, <2>1, <2>2 DEF Bindings
<1>16. MapInv'
  BY <1>9, <1>10, <1>11, <1>12, <1>15 DEF MapInv
<1>17. \A i \in Live(atoms) : ~IsNull(atoms[i]) => ~IsNull(atoms[i])'
  <2> TAKE i \in Live(atoms)
  <2>1. CASE i = s
    BY <1>14, <2>1
  <2>2. CASE i # s
    BY <1>3, <1>13, <2>2 DEF IsNull
  <2> QED
    BY <2>1, <2>2
<1> QED
  BY <1>1, <1>8, <1>10, <1>13, <1>16, <1>17 DEF Keeps

LEMMA FreshTable ==
  ASSUME NEW t, NEW n, Good(t, n), NEW p \in Entries, p.key \in Keys,
         \A i \in Live(t) : t[i].key # p.key,
         NEW u, u = [t EXCEPT ![find(p.key, t)] = p]
  PROVE  \E s \in 0 .. n - 1 :
           /\ t[s].key = EMPTY
           /\ u \in Tables(n) /\ u[s] = p
           /\ \A r \in (0 .. n - 1) \ {s} : u[r] = t[r]
           /\ Live(u) = Live(t) \cup {s} /\ s \notin Live(t)
           /\ Cardinality(Used(u)) = Cardinality(Used(t)) + 1
           /\ Cardinality(Used(t)) + 1 < n => Good(u, n)
<1> DEFINE s == find(p.key, t)
           w == [t EXCEPT ![s] = p]
<1>0. /\ s \in 0 .. n - 1 /\ t[s].key = EMPTY
      /\ w \in Tables(n) /\ w[s] = p
      /\ \A r \in (0 .. n - 1) \ {s} : w[r] = t[r]
      /\ Live(w) = Live(t) \cup {s} /\ s \notin Used(t)
      /\ Cardinality(Used(w)) = Cardinality(Used(t)) + 1
  <2>1. /\ w \in Tables(n)
        /\ Live(w) = Live(t) \cup {s} /\ s \notin Used(t)
        /\ Cardinality(Used(w)) = Cardinality(Used(t)) + 1
    BY FreshPut
  <2>2. s \in 0 .. n - 1 /\ t[s].key = EMPTY
    BY FreshPut
  <2>3. DOMAIN t = 0 .. n - 1
    BY Capacity DEF Good
  <2>4. w[s] = p /\ \A r \in (0 .. n - 1) \ {s} : w[r] = t[r]
    BY <2>2, <2>3
  <2> QED
    BY ONLY <2>1, <2>2, <2>4
<1>0a. u = w
  OBVIOUS
<1> HIDE DEF w
<1>1. /\ s \in 0 .. n - 1 /\ t[s].key = EMPTY
      /\ u \in Tables(n) /\ u[s] = p
      /\ \A r \in (0 .. n - 1) \ {s} : u[r] = t[r]
      /\ Live(u) = Live(t) \cup {s} /\ s \notin Used(t)
      /\ Cardinality(Used(u)) = Cardinality(Used(t)) + 1
  BY <1>0, <1>0a
<1>2. Cardinality(Used(t)) + 1 < n => Good(u, n)
  BY GoodPut
<1>3. Live(t) \subseteq Used(t)
  BY LiveDef DEF Good
<1> HIDE DEF s
<1> QED
  BY <1>1, <1>2, <1>3

LEMMA InsertedMap ==
  ASSUME MapInv, NEW k \in Keys, NEW v \in Values[kind], MayInsert(k, v),
         NEW n \in Nat, Good(atoms, n), NEW u, u = Inserted(k, v)
  PROVE  /\ \A i \in Live(atoms) : atoms[i].key # k
         /\ \E s \in 0 .. n - 1 :
              /\ atoms[s].key = EMPTY
              /\ u \in Tables(n) /\ u[s].key = k /\ u[s].val = v
              /\ \A r \in (0 .. n - 1) \ {s} : u[r] = atoms[r]
              /\ Live(u) = Live(atoms) \cup {s} /\ s \notin Live(atoms)
              /\ Cardinality(Used(u)) = m_size + 1
              /\ m_size + 1 < n => Good(u, n)
<1>0. PICK p : p = Pair(k, v, FALSE)
  OBVIOUS
<1>1. p \in Entries /\ p.key = k /\ p.val = v
  BY <1>0, ValuesIn
<1>2. atoms[find(k, atoms)].key # k
  BY Marks DEF MayInsert
<1>3. \A i \in Live(atoms) : atoms[i].key # k
  BY <1>2, Lookup
<1>4. m_size = Cardinality(Used(atoms))
  BY DEF MapInv, Sized
<1>5. u = [atoms EXCEPT ![find(p.key, atoms)] = p]
  BY <1>0, <1>1 DEF Inserted
<1>6. \E s \in 0 .. n - 1 :
           /\ atoms[s].key = EMPTY
           /\ u \in Tables(n) /\ u[s] = p
           /\ \A r \in (0 .. n - 1) \ {s} : u[r] = atoms[r]
           /\ Live(u) = Live(atoms) \cup {s} /\ s \notin Live(atoms)
           /\ Cardinality(Used(u)) = Cardinality(Used(atoms)) + 1
           /\ Cardinality(Used(atoms)) + 1 < n => Good(u, n)
  <2>1. p.key \in Keys /\ \A i \in Live(atoms) : atoms[i].key # p.key
    BY <1>1, <1>3
  <2> QED
    BY <1>1, <1>5, <2>1, FreshTable
<1> QED
  BY <1>1, <1>3, <1>4, <1>6

LEMMA InsertMap ==
  ASSUME MapInv, NEW k \in Keys, NEW v \in Values[kind], Insert(k, v)
  PROVE  MapInv' /\ Keeps({})
<1>1. PICK n \in Nat \ {0} : /\ getCapacity(atoms) = n /\ DOMAIN atoms = 0 .. n - 1
                             /\ atoms \in Tables(n) /\ Good(atoms, n) /\ m_size \in Nat
  BY TableFacts
<1>2. /\ MayInsert(k, v) /\ atoms' = Inserted(k, v) /\ m_size' = m_size + 1
      /\ bound' = [bound EXCEPT ![k] = v]
      /\ UNCHANGED <<kind, hasDeletedItems, dead>>
      /\ k \notin dead /\ v \notin dead
  BY DEF Insert, MayInsert, Held
<1>3. ~(5 * (m_size + 1 + 1) >= 4 * n)
  BY <1>1 DEF Insert, isFull
<1>4. /\ \A i \in Live(atoms) : atoms[i].key # k
      /\ \E s \in 0 .. n - 1 :
           /\ atoms[s].key = EMPTY
           /\ atoms' \in Tables(n) /\ atoms'[s].key = k /\ atoms'[s].val = v
           /\ \A r \in (0 .. n - 1) \ {s} : atoms'[r] = atoms[r]
           /\ Live(atoms') = Live(atoms) \cup {s} /\ s \notin Live(atoms)
           /\ Cardinality(Used(atoms')) = m_size + 1
           /\ m_size + 1 < n => Good(atoms', n)
  BY <1>1, <1>2, InsertedMap
<1>4a. PICK s \in 0 .. n - 1 :
           /\ atoms[s].key = EMPTY
           /\ atoms' \in Tables(n) /\ atoms'[s].key = k /\ atoms'[s].val = v
           /\ \A r \in (0 .. n - 1) \ {s} : atoms'[r] = atoms[r]
           /\ Live(atoms') = Live(atoms) \cup {s} /\ s \notin Live(atoms)
           /\ Cardinality(Used(atoms')) = m_size + 1
           /\ m_size + 1 < n => Good(atoms', n)
  BY <1>4
<1>5. Good(atoms', n) /\ getCapacity(atoms') = n /\ DOMAIN atoms' = 0 .. n - 1
  BY <1>1, <1>3, <1>4, <1>4a, Capacity
<1>6. /\ atoms'[s].key = k /\ atoms'[s].val = v
      /\ k # EMPTY /\ k # DELETED
  BY <1>4a, Marks
<1>7. Sized'
  <2>1. hasDeletedItems' = (\E i \in 0 .. n - 1 : atoms'[i].key = DELETED)
    <3>1. \A i \in 0 .. n - 1 : atoms'[i].key = DELETED <=> atoms[i].key = DELETED
      BY <1>4, <1>4a, <1>6, Marks
    <3> QED
      BY <1>1, <1>2, <3>1 DEF MapInv, Sized
  <2>2. Fits(m_size', n)
    BY <1>1, <1>2, <1>3 DEF Fits
  <2> QED
    BY <1>2, <1>4, <1>4a, <1>5, <2>1, <2>2 DEF Sized
<1>8. MapTyped'
  BY <1>2 DEF MapInv, MapTyped, WeaklyHeld
<1>9. \A i \in Live(atoms) : i \in 0 .. n - 1 /\ i # s /\ atoms'[i] = atoms[i]
  BY <1>1, <1>4, <1>4a, LiveDef
<1>10. ~IsNull(atoms[s])'
  BY <1>2, <1>6 DEF IsNull
<1>11. Bindings'
  <2>1. ASSUME NEW i \in Live(atoms')
        PROVE  /\ atoms'[i].val \in Values[kind]
               /\ bound'[atoms'[i].key] = Shown(atoms[i])'
    <3>1. CASE i = s
      BY <1>2, <1>6, <1>10, <3>1 DEF MapInv, MapTyped, Shown
    <3>2. CASE i # s
      BY <1>2, <1>4, <1>4a, <1>9, <3>2 DEF MapInv, MapTyped, Bindings, Shown, IsNull, Live
    <3> QED
      BY <3>1, <3>2
  <2>2. ASSUME NEW x \in Keys, \A i \in Live(atoms') : atoms'[i].key # x PROVE bound'[x] = None
    <3>1. x # k /\ \A i \in Live(atoms) : atoms[i].key # x
      BY <1>4, <1>4a, <1>6, <1>9, <2>2
    <3> QED
      BY <1>2, <3>1 DEF MapInv, MapTyped, Bindings
  <2> QED
    BY <1>2, <2>1, <2>2 DEF Bindings
<1>12. Keeps({})
  BY <1>1, <1>2, <1>4, <1>4a, <1>5, <1>9 DEF Keeps, IsNull
<1> QED
  BY <1>5, <1>7, <1>8, <1>11, <1>12 DEF MapInv

(* prune, and the rehash after it.                                         *)
LEMMA GrowMap ==
  ASSUME MapInv, NEW k \in Keys, NEW v \in Values[kind], InsertAndGrow(k, v)
  PROVE  /\ MapInv' /\ getCapacity(atoms') >= getCapacity(atoms)
         /\ getCapacity(atoms') \in Nat
<1>1. PICK n \in Nat \ {0} : /\ getCapacity(atoms) = n /\ DOMAIN atoms = 0 .. n - 1
                             /\ PowerOfTwo(n)
                             /\ atoms \in Tables(n) /\ Good(atoms, n) /\ m_size \in Nat
  BY TableFacts
<1>0. PICK full : full = Inserted(k, v)
  OBVIOUS
<1> DEFINE t == prune(full)
           deleted == hasDeletedItems \/ t # full
           m == IF deleted THEN n ELSE 2 * n
<1>2a. /\ \A i \in Live(atoms) : atoms[i].key # k
       /\ \E s \in 0 .. n - 1 :
           /\ atoms[s].key = EMPTY
           /\ full \in Tables(n) /\ full[s].key = k /\ full[s].val = v
           /\ \A r \in (0 .. n - 1) \ {s} : full[r] = atoms[r]
           /\ Live(full) = Live(atoms) \cup {s} /\ s \notin Live(atoms)
           /\ Cardinality(Used(full)) = m_size + 1
           /\ m_size + 1 < n => Good(full, n)
  BY <1>0, <1>1, InsertedMap DEF InsertAndGrow
<1>2. PICK s \in 0 .. n - 1 :
           /\ atoms[s].key = EMPTY
           /\ full \in Tables(n) /\ full[s].key = k /\ full[s].val = v
           /\ \A r \in (0 .. n - 1) \ {s} : full[r] = atoms[r]
           /\ Live(full) = Live(atoms) \cup {s} /\ s \notin Live(atoms)
           /\ Cardinality(Used(full)) = m_size + 1
           /\ \A i \in Live(atoms) : atoms[i].key # k
  BY <1>2a
<1>3. getCapacity(full) = n /\ DOMAIN full = 0 .. n - 1
  BY <1>2, Capacity
<1>4. t \in Tables(n) /\ DOMAIN t = 0 .. n - 1
      /\ \A i \in 0 .. n - 1 : t[i] = IF full[i].key \in Keys /\ IsNull(full[i])
                                      THEN DeletedPair ELSE full[i]
  <2>1. DeletedPair \in Entries
    BY DEF Entries
  <2>2. \A i \in 0 .. n - 1 : full[i] \in Entries
    BY <1>2, EntryKey
  <2> QED
    BY <1>3, <2>1, <2>2 DEF prune, Tables
<1> HIDE DEF t
<1>5. getCapacity(t) = n
  BY <1>4, Capacity
<1>6. /\ m <= MaxSlots /\ atoms' = Rehash(t, m) /\ m_size' = Cardinality(Live(t))
      /\ hasDeletedItems' = FALSE /\ bound' = [bound EXCEPT ![k] = v]
      /\ UNCHANGED <<kind, dead>> /\ k \notin dead /\ v \notin dead
  BY <1>0, <1>1, <1>5 DEF InsertAndGrow, MayInsert, Held, t
<1>7. \A i : i \in Live(t) <=> i \in Live(full) /\ ~IsNull(full[i])
  BY <1>3, <1>4, Marks DEF Live
<1>8. OneKeyEach(t)
  <2> SUFFICES ASSUME NEW i \in Live(t), NEW j \in Live(t), t[i].key = t[j].key PROVE i = j
    BY DEF OneKeyEach
  <2>1. /\ i \in Live(full) /\ j \in Live(full)
        /\ i \in 0 .. n - 1 /\ j \in 0 .. n - 1
        /\ full[i].key = full[j].key
    BY <1>3, <1>4, <1>7 DEF Live
  <2>2. full[s].key = k
    BY <1>2
  <2>3. \A x \in Live(atoms) : x \in 0 .. n - 1 /\ x # s /\ full[x] = atoms[x]
    BY <1>1, <1>2, LiveDef
  <2> QED
    BY <1>1, <1>2, <2>1, <2>2, <2>3, KeyOnce
<1>9. /\ Cardinality(Live(t)) \in Nat /\ Cardinality(Live(t)) <= m_size + 1
      /\ deleted => Cardinality(Live(t)) <= m_size
  <2>1. Used(t) = Used(full)
    BY <1>3, <1>4, Marks DEF Used
  <2>2. /\ IsFiniteSet(Used(t)) /\ Live(t) \subseteq Used(t)
        /\ Cardinality(Used(t)) = m_size + 1 /\ Cardinality(Live(t)) \in Nat
        /\ Cardinality(Live(t)) <= Cardinality(Used(t))
    BY <1>2, <1>4, <2>1, LiveDef
  <2>3. ASSUME deleted PROVE \E i \in Used(t) : i \notin Live(t)
    <3>1. \E i \in 0 .. n - 1 : t[i].key = DELETED
      <4>1. CASE hasDeletedItems
        <5>1. PICK i \in 0 .. n - 1 : atoms[i].key = DELETED
          BY <1>1, <4>1 DEF MapInv, Sized
        <5>2. i # s
          BY <1>2, <5>1, Marks
        <5>3. full[i].key = DELETED
          BY <1>2, <5>1, <5>2
        <5> QED
          BY <1>4, <5>3, Marks
      <4>2. CASE t # full
        <5>1. PICK i \in 0 .. n - 1 : t[i] # full[i]
          BY <1>2, <1>4, <4>2 DEF Tables
        <5> QED
          BY <1>4, <5>1, Marks
      <4> QED
        BY <2>3, <4>1, <4>2
    <3> QED
      BY <1>4, <3>1, Marks DEF Used, Live
  <2>4. ASSUME deleted PROVE Cardinality(Live(t)) # Cardinality(Used(t))
    BY <2>2, <2>3, <2>4, FS_Subset
  <2> QED
    BY <1>1, <2>2, <2>4
<1>10. m \in Nat \ {0} /\ PowerOfTwo(m) /\ m >= n
  BY <1>1, DoublePower
<1>11. Fits(Cardinality(Live(t)), m)
  <2>1. Fits(m_size, n)
    BY <1>1 DEF MapInv, Sized
  <2> HIDE DEF deleted
  <2>2. CASE deleted
    BY <1>1, <1>9, <2>1, <2>2 DEF Fits
  <2>3. CASE ~deleted
    <3>1. m = 2 * n
      BY <2>3
    <3>2. Cardinality(Live(t)) < 2 * n
      BY <1>1, <1>9, <2>1 DEF Fits
    <3>3. 2 * n <= 2 \/ 5 * (Cardinality(Live(t)) + 1) < 4 * (2 * n)
      BY <1>1, <1>9, <2>1 DEF Fits
    <3> QED
      BY <3>1, <3>2, <3>3 DEF Fits
  <2> QED
    BY <2>2, <2>3
<1>12. Good(atoms', m) /\ Holds(atoms', t, Live(t))
  BY <1>4, <1>6, <1>8, <1>9, <1>10, <1>11, RehashHolds DEF Fits
<1> HIDE DEF m, deleted
<1>13. getCapacity(atoms') = m /\ DOMAIN atoms' = 0 .. m - 1
  BY <1>10, <1>12, Capacity DEF Good
<1>14. Sized'
  <2>1. ~\E i \in DOMAIN atoms' : atoms'[i].key = DELETED
    <3>1. Used(atoms') = Live(atoms')
      BY <1>12 DEF Holds
    <3> QED
      BY <3>1, Marks DEF Used, Live
  <2>2. Cardinality(Used(atoms')) = Cardinality(Live(t))
    BY <1>12 DEF Holds
  <2> QED
    BY <1>6, <1>11, <1>13, <2>1, <2>2 DEF Sized
<1>15. MapTyped'
  BY <1>6 DEF MapInv, MapTyped, WeaklyHeld
<1>16. full[s].key = k /\ full[s].val = v /\ ~IsNull(full[s])
  BY <1>2, <1>6 DEF IsNull
<1>17. ASSUME NEW y \in Live(t)
       PROVE  /\ t[y].val \in Values[kind] /\ t[y].key \in Keys
              /\ bound'[t[y].key] = t[y].val /\ ~IsNull(t[y])
  <2>1. y \in Live(full) /\ t[y] = full[y] /\ ~IsNull(full[y])
    BY <1>3, <1>4, <1>7, Marks DEF Live
  <2>2. CASE y = s
    BY <1>6, <1>16, <2>1, <2>2 DEF MapInv, MapTyped
  <2>3. CASE y # s
    <3>1. y \in Live(atoms) /\ full[y] = atoms[y] /\ atoms[y].key # k /\ atoms[y].key \in Keys
      BY <1>1, <1>2, <2>1, <2>3, LiveDef
    <3>2. atoms[y].val \in Values[kind] /\ bound[atoms[y].key] = atoms[y].val
      BY <2>1, <3>1 DEF MapInv, Bindings, Shown
    <3> QED
      BY <1>6, <2>1, <3>1, <3>2 DEF MapInv, MapTyped
  <2> QED
    BY <2>2, <2>3
<1>18. Bindings'
  <2>1. ASSUME NEW x \in Live(atoms')
        PROVE  /\ atoms'[x].val \in Values[kind]
               /\ bound'[atoms'[x].key] = Shown(atoms[x])'
    <3>1. PICK y \in Live(t) : atoms'[x] = t[y]
      BY <1>12 DEF Holds
    <3>2. ~IsNull(atoms[x])'
      BY <1>6, <1>17, <3>1 DEF IsNull
    <3> QED
      BY <1>17, <3>1, <3>2 DEF Shown
  <2>2. ASSUME NEW x \in Keys, \A i \in Live(atoms') : atoms'[i].key # x PROVE bound'[x] = None
    <3>1. \A y \in Live(t) : t[y].key # x
      BY <1>12, <2>2 DEF Holds
    <3>2. x # k
      <4>1. s \in Live(t) /\ t[s] = full[s]
        BY <1>2, <1>4, <1>7, <1>16
      <4> QED
        BY <1>16, <3>1, <4>1
    <3>3. ASSUME NEW i \in Live(atoms), atoms[i].key = x PROVE bound[x] = None
      <4>1. i \in Live(full) /\ full[i] = atoms[i] /\ i \in 0 .. n - 1
        BY <1>1, <1>2, LiveDef
      <4>2. IsNull(atoms[i])
        <5>1. ~IsNull(atoms[i]) => i \in Live(t) /\ t[i] = atoms[i]
          BY <1>4, <1>7, <4>1
        <5> QED
          BY <3>1, <3>3, <5>1
      <4> QED
        BY <3>3, <4>2 DEF MapInv, Bindings, Shown
    <3>4. bound[x] = None
      BY <3>3 DEF MapInv, Bindings
    <3> QED
      BY <1>6, <3>2, <3>4 DEF MapInv, MapTyped
  <2> QED
    BY <1>6, <2>1, <2>2 DEF Bindings
<1> QED
  BY <1>1, <1>10, <1>12, <1>13, <1>14, <1>15, <1>18 DEF MapInv

(* Pairs are deleted, and what they bound.                                 *)
LEMMA DropMap ==
  ASSUME MapInv, NEW S \in SUBSET Live(atoms),
         atoms' = [i \in DOMAIN atoms |-> IF i \in S THEN DeletedPair ELSE atoms[i]],
         hasDeletedItems' = (hasDeletedItems \/ S # {}),
         UNCHANGED <<kind, m_size, dead>>,
         bound' \in [Keys -> Values[kind] \cup {None}],
         \A k \in Keys : \/ bound'[k] = bound[k] /\ \A i \in S : atoms[i].key # k
                         \/ bound'[k] = None /\ \E i \in S : atoms[i].key = k
  PROVE  /\ MapInv' /\ Keeps({atoms[i].key : i \in S})
         /\ Live(atoms') = Live(atoms) \ S
         /\ \A i \in Live(atoms') : atoms'[i] = atoms[i]
<1>1. PICK n \in Nat \ {0} : /\ getCapacity(atoms) = n /\ DOMAIN atoms = 0 .. n - 1
                             /\ atoms \in Tables(n) /\ Good(atoms, n)
  BY TableFacts
<1>2. \A i \in 0 .. n - 1 : atoms'[i] = IF i \in S THEN DeletedPair ELSE atoms[i]
  BY <1>1
<1>3. atoms' \in Tables(n)
  <2>1. DeletedPair \in Entries
    BY DEF Entries
  <2>2. \A i \in 0 .. n - 1 : atoms[i] \in Entries
    BY <1>1, EntryKey
  <2> QED
    BY <1>1, <2>1, <2>2 DEF Tables
<1>4. DOMAIN atoms' = 0 .. n - 1 /\ getCapacity(atoms') = n
  BY <1>3, Capacity
<1>5. Good(atoms', n) /\ Used(atoms') = Used(atoms)
  <2>1. \A i \in 0 .. n - 1 : \/ atoms'[i].key = atoms[i].key
                              \/ atoms[i].key \in Keys /\ atoms'[i].key = DELETED
    BY <1>1, <1>2, LiveDef, Marks
  <2> QED
    BY <1>1, <1>3, <2>1, GoodKept
<1>6. /\ Live(atoms') = Live(atoms) \ S
      /\ \A i \in Live(atoms') : atoms'[i] = atoms[i]
  BY <1>1, <1>2, <1>4, Marks DEF Live
<1>7. Sized'
  <2>1. hasDeletedItems' = (\E i \in 0 .. n - 1 : atoms'[i].key = DELETED)
    <3>1. hasDeletedItems = (\E i \in 0 .. n - 1 : atoms[i].key = DELETED)
      BY <1>1 DEF MapInv, Sized
    <3>2. ASSUME NEW i \in 0 .. n - 1, atoms[i].key = DELETED PROVE atoms'[i].key = DELETED
      BY <1>2, <3>2, Marks
    <3>3. ASSUME NEW i \in S PROVE i \in 0 .. n - 1 /\ atoms'[i].key = DELETED
      BY <1>1, <1>2, Marks DEF Live
    <3>4. ASSUME NEW i \in 0 .. n - 1, atoms'[i].key = DELETED
          PROVE  i \in S \/ atoms[i].key = DELETED
      BY <1>2, <3>4
    <3>5. CASE S = {}
      BY <3>1, <3>2, <3>4, <3>5
    <3>6. CASE S # {}
      BY <3>3, <3>6
    <3> QED
      BY <3>5, <3>6
  <2> QED
    BY <1>1, <1>5, <2>1, SizedKept
<1>8. MapTyped'
  BY DEF MapInv, MapTyped, WeaklyHeld
<1>9. Bindings'
  <2>1. ASSUME NEW i \in Live(atoms')
        PROVE  /\ atoms'[i].val \in Values[kind]
               /\ bound'[atoms'[i].key] = Shown(atoms[i])'
    <3>1. i \in Live(atoms) /\ i \notin S /\ atoms'[i] = atoms[i] /\ atoms[i].key \in Keys
      BY <1>6 DEF Live
    <3>2. \A j \in S : atoms[j].key # atoms[i].key
      BY <1>1, <3>1, KeyOnce
    <3>3. bound'[atoms[i].key] = bound[atoms[i].key]
      BY <3>1, <3>2
    <3>4. Shown(atoms[i])' = Shown(atoms[i])
      BY <3>1 DEF Shown, IsNull
    <3> QED
      BY <3>1, <3>3, <3>4 DEF MapInv, Bindings
  <2>2. ASSUME NEW x \in Keys, \A i \in Live(atoms') : atoms'[i].key # x PROVE bound'[x] = None
    <3>1. CASE \E i \in S : atoms[i].key = x
      BY <3>1
    <3>2. CASE \A i \in S : atoms[i].key # x
      <4>1. \A i \in Live(atoms) : atoms[i].key # x
        BY <1>6, <2>2, <3>2
      <4> QED
        BY <3>2, <4>1 DEF MapInv, Bindings
    <3> QED
      BY <3>1, <3>2
  <2> QED
    BY <2>1, <2>2 DEF Bindings
<1>10. Keeps({atoms[i].key : i \in S})
  BY <1>1, <1>4, <1>6 DEF Keeps, IsNull
<1> QED
  BY <1>4, <1>5, <1>6, <1>7, <1>8, <1>9, <1>10 DEF MapInv

LEMMA DeleteMap ==
  ASSUME MapInv, NEW s \in Live(atoms), DeletePairAt(s)
  PROVE  MapInv' /\ Keeps({atoms[s].key})
<1>1. /\ atoms' = [atoms EXCEPT ![s] = DeletedPair] /\ hasDeletedItems' = TRUE
      /\ bound' = [bound EXCEPT ![atoms[s].key] = None]
      /\ UNCHANGED <<kind, m_size, dead>>
  BY DEF DeletePairAt
<1>2. PICK n \in Nat \ {0} : DOMAIN atoms = 0 .. n - 1 /\ atoms \in Tables(n)
  BY TableFacts
<1> DEFINE S == {s}
<1>3. S \in SUBSET Live(atoms) /\ S # {}
  OBVIOUS
<1>4. atoms' = [i \in DOMAIN atoms |-> IF i \in S THEN DeletedPair ELSE atoms[i]]
  BY <1>1, <1>2 DEF Tables
<1>5. bound \in [Keys -> Values[kind] \cup {None}] /\ atoms[s].key \in Keys
  BY DEF MapInv, MapTyped, Live
<1>6. bound' \in [Keys -> Values[kind] \cup {None}]
  BY <1>1, <1>5
<1>7. \A k \in Keys : \/ bound'[k] = bound[k] /\ \A i \in S : atoms[i].key # k
                      \/ bound'[k] = None /\ \E i \in S : atoms[i].key = k
  BY <1>1, <1>5
<1>8. {atoms[i].key : i \in S} = {atoms[s].key}
  OBVIOUS
<1> HIDE DEF S
<1>9. MapInv' /\ Keeps({atoms[i].key : i \in S})
  BY <1>1, <1>3, <1>4, <1>6, <1>7, DropMap
<1> QED
  BY <1>8, <1>9

LEMMA HideMap ==
  ASSUME MapInv, NEW k \in Keys, NEW e \in BOOLEAN, SetAtomPropertyIsEnumerable(k, e)
  PROVE  MapInv' /\ Keeps({k})
<1>1. PICK n \in Nat \ {0} : /\ getCapacity(atoms) = n /\ DOMAIN atoms = 0 .. n - 1
                             /\ atoms \in Tables(n) /\ Good(atoms, n)
  BY TableFacts
<1>0. PICK s : s = find(k, atoms)
  OBVIOUS
<1>2. s \in 0 .. n - 1 /\ atoms[s].key = k /\ s \in Live(atoms)
  BY <1>0, <1>1, GoodFind, Lookup DEF SetAtomPropertyIsEnumerable
<1>3. /\ atoms' = [atoms EXCEPT ![s].hidden = ~e]
      /\ UNCHANGED <<kind, m_size, hasDeletedItems, dead, bound>>
  BY <1>0 DEF SetAtomPropertyIsEnumerable
<1>4. /\ atoms'[s] = [atoms[s] EXCEPT !.hidden = ~e]
      /\ \A i \in (0 .. n - 1) \ {s} : atoms'[i] = atoms[i]
  BY <1>1, <1>2, <1>3
<1>5. atoms[s] \in [key : Keys, val : UNION {Values[x] : x \in Kinds}, hidden : BOOLEAN]
  <2>1. atoms[s] \in Entries
    BY <1>1, <1>2, EntryKey
  <2> QED
    BY <1>2, <2>1, Marks DEF Entries
<1>6. atoms'[s].key = k /\ atoms'[s].val = atoms[s].val /\ atoms'[s] \in Entries
  BY <1>2, <1>4, <1>5 DEF Entries
<1>7. atoms' \in Tables(n)
  BY <1>1, <1>2, <1>3, <1>6 DEF Tables
<1>8. \A i \in 0 .. n - 1 : atoms'[i].key = atoms[i].key /\ atoms'[i].val = atoms[i].val
  BY <1>2, <1>4, <1>6
<1>9. Good(atoms', n) /\ Used(atoms') = Used(atoms)
  BY <1>1, <1>7, <1>8, GoodKept
<1>10. Live(atoms') = Live(atoms) /\ getCapacity(atoms') = n
       /\ Live(atoms) \subseteq 0 .. n - 1
  <2>1. DOMAIN atoms' = 0 .. n - 1 /\ getCapacity(atoms') = n
    BY <1>7, Capacity
  <2> QED
    BY <1>1, <1>8, <2>1 DEF Live
<1>11. Sized'
  <2>1. hasDeletedItems' = (\E i \in 0 .. n - 1 : atoms'[i].key = DELETED)
    BY <1>1, <1>3, <1>8 DEF MapInv, Sized
  <2> QED
    BY <1>1, <1>3, <1>9, <2>1, SizedKept
<1>12. MapTyped'
  BY <1>3 DEF MapInv, MapTyped, WeaklyHeld
<1>13. ASSUME NEW i \in Live(atoms)
       PROVE  IsNull(atoms[i])' = IsNull(atoms[i]) /\ Shown(atoms[i])' = Shown(atoms[i])
  BY <1>3, <1>8, <1>10 DEF IsNull, Shown
<1>14. Bindings'
  <2>1. ASSUME NEW i \in Live(atoms)
        PROVE  atoms'[i].val \in Values[kind] /\ bound[atoms'[i].key] = Shown(atoms[i])'
    BY <1>8, <1>10, <1>13 DEF MapInv, Bindings
  <2>2. ASSUME NEW x \in Keys, \A i \in Live(atoms') : atoms'[i].key # x PROVE bound[x] = None
    <3>1. \A i \in Live(atoms) : atoms[i].key # x
      BY <1>8, <1>10, <2>2
    <3> QED
      BY <3>1 DEF MapInv, Bindings
  <2> QED
    BY <1>3, <1>10, <2>1, <2>2 DEF Bindings
<1>15. ASSUME NEW i \in Live(atoms), atoms[i].key # k PROVE atoms'[i] = atoms[i]
  BY <1>2, <1>4, <1>10, <1>15
<1> QED
  BY <1>1, <1>9, <1>10, <1>11, <1>12, <1>13, <1>14, <1>15 DEF MapInv, Keeps

LEMMA CollectMap ==
  ASSUME MapInv, NEW x \in WeaklyHeld, Collect(x)
  PROVE  MapInv' /\ Keeps({k \in Keys : x \in {k, bound[k]}})
<1>1. /\ x \in WeaklyHeld \ dead
      /\ \A i \in Live(atoms) : x # Strong(atoms[i])
      /\ dead' = dead \cup {x}
      /\ bound' = [k \in Keys |-> IF x \in {k, bound[k]} THEN None ELSE bound[k]]
      /\ UNCHANGED <<kind, atoms, m_size, hasDeletedItems>>
  BY DEF Collect, tableVars
<1>2. x # None /\ None \notin Keys
  <2>1. kind \in Kinds
    BY DEF MapInv, MapTyped
  <2> QED
    BY <1>1, <2>1, HashtableAssumption DEF HashtableAssumption, WeaklyHeld
<1>3. kind \in {"weakKeys", "weakValues"}
  <2>1. kind \in {"inline", "weakKeys", "weakValues"}
    BY HashtableAssumption DEF HashtableAssumption, MapInv, MapTyped
  <2>2. kind # "inline"
    BY <1>1 DEF WeaklyHeld
  <2> QED
    BY <2>1, <2>2
<1>4. ASSUME NEW i \in Live(atoms)
      PROVE  /\ bound'[atoms[i].key] = Shown(atoms[i])'
             /\ atoms[i].key \in Keys
             /\ ~IsNull(atoms[i]) /\ x \notin {atoms[i].key, bound[atoms[i].key]}
                => ~IsNull(atoms[i])'
  <2>1. atoms[i].key \in Keys /\ bound[atoms[i].key] = Shown(atoms[i])
    BY DEF MapInv, Bindings, Live
  <2>2. bound'[atoms[i].key] = IF x \in {atoms[i].key, bound[atoms[i].key]} THEN None
                                                                      ELSE bound[atoms[i].key]
    BY <1>1, <2>1
  <2>3. x # Strong(atoms[i])
    BY <1>1
  <2>4. CASE kind = "weakKeys"
    <3>1. x # atoms[i].val
      BY <2>3, <2>4 DEF Strong
    <3>2. IsNull(atoms[i])' = (IsNull(atoms[i]) \/ atoms[i].key = x)
      BY <1>1, <2>4 DEF IsNull
    <3> QED
      BY <1>1, <1>2, <2>1, <2>2, <3>1, <3>2 DEF Shown
  <2>5. CASE kind = "weakValues"
    <3>1. x # atoms[i].key
      BY <2>3, <2>5 DEF Strong
    <3>2. IsNull(atoms[i])' = (IsNull(atoms[i]) \/ atoms[i].val = x)
      BY <1>1, <2>5 DEF IsNull
    <3> QED
      BY <1>1, <1>2, <2>1, <2>2, <3>1, <3>2 DEF Shown
  <2> QED
    BY <1>3, <2>4, <2>5
<1>5. Bindings'
  <2>1. ASSUME NEW k \in Keys, \A i \in Live(atoms) : atoms[i].key # k PROVE bound'[k] = None
    BY <1>1, <2>1 DEF MapInv, Bindings
  <2> QED
    BY <1>1, <1>4, <2>1 DEF MapInv, Bindings
<1>6. MapTyped'
  BY <1>1 DEF MapInv, MapTyped, WeaklyHeld
<1>7. Sized'
  BY <1>1 DEF MapInv, Sized
<1>8. Keeps({k \in Keys : x \in {k, bound[k]}})
  <2>1. ASSUME NEW i \in Live(atoms), atoms[i].key \notin {k \in Keys : x \in {k, bound[k]}},
               ~IsNull(atoms[i])
        PROVE  ~IsNull(atoms[i])'
    BY <1>4, <2>1
  <2> QED
    BY <1>1, <2>1 DEF Keeps
<1>9. Good(atoms', getCapacity(atoms'))
  BY <1>1 DEF MapInv
<1> QED
  BY <1>5, <1>6, <1>7, <1>8, <1>9 DEF MapInv

LEMMA RecycleMap ==
  ASSUME MapInv, NEW x, Recycle(x)
  PROVE  MapInv' /\ Keeps({})
<1>1. /\ \A i \in Live(atoms) : x \notin {atoms[i].key, atoms[i].val}
      /\ dead' = dead \ {x}
      /\ UNCHANGED <<kind, atoms, m_size, hasDeletedItems, bound>>
  BY DEF Recycle, tableVars
<1>2. \A i \in Live(atoms) : /\ IsNull(atoms[i])' = IsNull(atoms[i])
                             /\ Shown(atoms[i])' = Shown(atoms[i])
  BY <1>1 DEF IsNull, Shown
<1>3. Bindings'
  BY <1>1, <1>2 DEF MapInv, Bindings
<1>4. MapTyped' /\ Sized'
  BY <1>1 DEF MapInv, MapTyped, Sized, WeaklyHeld
<1>5. Keeps({})
  BY <1>1, <1>2 DEF Keeps
<1>6. Good(atoms', getCapacity(atoms'))
  BY <1>1 DEF MapInv
<1> QED
  BY <1>3, <1>4, <1>5, <1>6 DEF MapInv

LEMMA InitMap ==
  ASSUME Init PROVE MapInv
<1>1. /\ kind \in Kinds /\ atoms = Blank(Slots) /\ m_size = 0 /\ hasDeletedItems = FALSE
      /\ dead = {} /\ bound = [k \in Keys |-> None]
  BY DEF Init
<1>2. Slots \in Nat \ {0} /\ PowerOfTwo(Slots)
  BY HashtableAssumption DEF HashtableAssumption
<1>3. Good(atoms, Slots) /\ Live(atoms) = {} /\ Used(atoms) = {}
  BY <1>1, <1>2, BlankIsGood
<1>4. getCapacity(atoms) = Slots
  BY <1>2, <1>3, Capacity DEF Good
<1>5. Sized
  <2>1. \A i \in DOMAIN atoms : atoms[i].key # DELETED
    BY <1>3, Marks DEF Used
  <2>2. Cardinality({}) = 0
    BY FS_EmptySet
  <2>3. Fits(0, Slots)
    BY <1>2 DEF Fits
  <2> QED
    BY <1>1, <1>3, <1>4, <2>1, <2>2, <2>3 DEF Sized
<1>6. Bindings
  BY <1>1, <1>3 DEF Bindings
<1>7. MapTyped
  BY <1>1 DEF MapTyped
<1> QED
  BY <1>3, <1>4, <1>5, <1>6, <1>7 DEF MapInv

(***************************************************************************)
(* The order of the enumeration                                            *)
(***************************************************************************)
Positions(n) == [slot : 0 .. n - 1, int : BOOLEAN]
Rank(p, n) == IF p.int THEN p.slot ELSE n + p.slot

LEMMA RankDef ==
  ASSUME NEW n \in Nat \ {0}, NEW p \in Positions(n)
  PROVE  /\ p.slot \in 0 .. n - 1 /\ p.int \in BOOLEAN
         /\ p = [slot |-> p.slot, int |-> p.int]
         /\ Rank(p, n) \in 0 .. 2 * n - 1
         /\ p.int => Rank(p, n) = p.slot /\ Rank(p, n) < n
         /\ ~p.int => Rank(p, n) = n + p.slot /\ Rank(p, n) >= n
<1>1. p.slot \in 0 .. n - 1 /\ p.int \in BOOLEAN /\ p = [slot |-> p.slot, int |-> p.int]
  BY DEF Positions
<1>2. CASE p.int
  BY <1>1, <1>2 DEF Rank
<1>3. CASE ~p.int
  BY <1>1, <1>3 DEF Rank
<1> QED
  BY <1>1, <1>2, <1>3

LEMMA BeforeRank ==
  ASSUME NEW n \in Nat \ {0}, NEW p \in Positions(n), NEW q \in Positions(n)
  PROVE  /\ Before(p, q) <=> Rank(p, n) < Rank(q, n)
         /\ Rank(p, n) = Rank(q, n) => p = q
         /\ Rank(p, n) \in 0 .. 2 * n - 1 /\ Rank(q, n) \in 0 .. 2 * n - 1
<1>1. /\ p.slot \in 0 .. n - 1 /\ q.slot \in 0 .. n - 1
      /\ Rank(p, n) \in 0 .. 2 * n - 1 /\ Rank(q, n) \in 0 .. 2 * n - 1
      /\ p.int = TRUE \/ p.int = FALSE
      /\ q.int = TRUE \/ q.int = FALSE
      /\ p = [slot |-> p.slot, int |-> p.int] /\ q = [slot |-> q.slot, int |-> q.int]
  BY RankDef
<1>2. CASE p.int = TRUE /\ q.int = TRUE
  <2>1. Rank(p, n) = p.slot /\ Rank(q, n) = q.slot
    BY <1>2, RankDef
  <2> QED
    BY <1>1, <1>2, <2>1 DEF Before
<1>3. CASE p.int = TRUE /\ q.int = FALSE
  <2>1. Rank(p, n) < n /\ Rank(q, n) >= n
    BY <1>3, RankDef
  <2> QED
    BY <1>1, <1>3, <2>1 DEF Before
<1>4. CASE p.int = FALSE /\ q.int = TRUE
  <2>1. Rank(p, n) >= n /\ Rank(q, n) < n
    BY <1>4, RankDef
  <2>2. ~Before(p, q)
    BY <1>4 DEF Before
  <2> QED
    BY <1>1, <2>1, <2>2
<1>5. CASE p.int = FALSE /\ q.int = FALSE
  <2>1. Rank(p, n) = n + p.slot /\ Rank(q, n) = n + q.slot
    BY <1>5, RankDef
  <2>2. Before(p, q) <=> p.slot < q.slot
    BY <1>5 DEF Before
  <2>3. p.slot = q.slot => p = q
    BY <1>1, <1>5
  <2> QED
    BY <1>1, <2>1, <2>2, <2>3
<1>6. \/ p.int = TRUE /\ q.int = TRUE
      \/ p.int = TRUE /\ q.int = FALSE
      \/ p.int = FALSE /\ q.int = TRUE
      \/ p.int = FALSE /\ q.int = FALSE
  BY <1>1
<1> QED
  BY <1>1, <1>2, <1>3, <1>4, <1>5, <1>6

LEMMA BeforeOrder ==
  ASSUME NEW n \in Nat \ {0}
  PROVE  /\ \A p \in Positions(n) : ~Before(p, p)
         /\ \A p, q \in Positions(n) : p = q \/ Before(p, q) \/ Before(q, p)
         /\ \A p, q, r \in Positions(n) : Before(p, q) /\ Before(q, r) => Before(p, r)
<1>1. ASSUME NEW p \in Positions(n) PROVE ~Before(p, p)
  BY BeforeRank
<1>2. ASSUME NEW p \in Positions(n), NEW q \in Positions(n)
      PROVE  p = q \/ Before(p, q) \/ Before(q, p)
  BY BeforeRank
<1>3. ASSUME NEW p \in Positions(n), NEW q \in Positions(n), NEW r \in Positions(n),
             Before(p, q), Before(q, r)
      PROVE  Before(p, r)
  BY <1>3, BeforeRank
<1> QED
  BY <1>1, <1>2, <1>3

(* The entries before p are fewer than its rank; between two entries there *)
(* are fewer than their ranks differ.                                      *)
LEMMA CountRanks ==
  ASSUME NEW n \in Nat \ {0}, NEW S \in SUBSET Positions(n), NEW lo \in Nat, NEW hi \in Nat,
         lo <= hi, \A p \in S : lo <= Rank(p, n) /\ Rank(p, n) < hi
  PROVE  IsFiniteSet(S) /\ Cardinality(S) \in Nat /\ Cardinality(S) <= hi - lo
<1> DEFINE T == lo .. hi - 1
           f == [p \in S |-> Rank(p, n)]
<1>1. f \in [S -> T]
  <2>1. ASSUME NEW p \in S PROVE Rank(p, n) \in T
    BY RankDef
  <2> QED
    BY <2>1
<1>2. \A p, q \in S : f[p] = f[q] => p = q
  BY BeforeRank
<1>3. f \in Injection(S, T)
  BY <1>1, <1>2 DEF Injection, IsInjective
<1>4. IsFiniteSet(T) /\ Cardinality(T) = hi - lo
  <2>1. CASE lo < hi
    BY <2>1, FS_Interval
  <2>2. CASE lo = hi
    <3>1. T = {}
      BY <2>2
    <3> QED
      BY <2>2, <3>1, FS_EmptySet
  <2> QED
    BY <2>1, <2>2
<1> HIDE DEF f, T
<1>5. IsFiniteSet(S) /\ Cardinality(S) <= Cardinality(T)
  BY <1>3, <1>4, FS_Injection
<1> QED
  BY <1>4, <1>5, FS_CardinalityType

LEMMA FirstDef ==
  ASSUME NEW n \in Nat \ {0}, NEW set \in SUBSET Positions(n), set # {}
  PROVE  First(set) \in set /\ \A q \in set \ {First(set)} : Before(First(set), q)
<1> DEFINE R == {Rank(p, n) : p \in set}
<1>1. R \in SUBSET Nat /\ R # {}
  BY RankDef
<1>2. PICK r \in R : \A m \in R : r <= m
  <2> HIDE DEF R
  <2> QED
    BY <1>1, LeastNat
<1>3. PICK p \in set : r = Rank(p, n)
  BY <1>2
<1>4. \A q \in set \ {p} : Before(p, q)
  <2> SUFFICES ASSUME NEW q \in set \ {p} PROVE Before(p, q)
    OBVIOUS
  <2>1. Rank(p, n) <= Rank(q, n)
    BY <1>2, <1>3
  <2> QED
    BY <2>1, BeforeRank
<1> QED
  BY <1>4 DEF First

LEMMA EnumerableDef ==
  ASSUME NEW n \in Nat \ {0}, NEW t \in Tables(n)
  PROVE  /\ Enumerable(t) \subseteq Positions(n)
         /\ \A q \in Enumerable(t) : /\ q.slot \in Live(t) /\ ~t[q.slot].hidden
                                     /\ q.int = (t[q.slot].key \in Ints)
         /\ \A i \in Live(t) : ~t[i].hidden =>
              \E q \in Enumerable(t) : q.slot = i /\ q.int = (t[i].key \in Ints)
         /\ \A p, q \in Enumerable(t) : p.slot = q.slot => p = q
         /\ IsFiniteSet(Enumerable(t))
<1>1. Live(t) \subseteq 0 .. n - 1
  BY LiveDef
<1>2. ASSUME NEW q \in Enumerable(t)
      PROVE  /\ q \in Positions(n) /\ q.slot \in Live(t) /\ ~t[q.slot].hidden
             /\ q.int = (t[q.slot].key \in Ints)
             /\ q = [slot |-> q.slot, int |-> t[q.slot].key \in Ints]
  <2>1. PICK i \in Live(t) : ~t[i].hidden /\ q = [slot |-> i, int |-> t[i].key \in Ints]
    BY DEF Enumerable
  <2>2. q.slot = i /\ q.int = (t[i].key \in Ints) /\ (t[i].key \in Ints) \in BOOLEAN
    BY <2>1
  <2> QED
    BY <1>1, <2>1, <2>2 DEF Positions
<1>3. ASSUME NEW i \in Live(t), ~t[i].hidden
      PROVE  \E q \in Enumerable(t) : q.slot = i /\ q.int = (t[i].key \in Ints)
  <2> DEFINE q == [slot |-> i, int |-> t[i].key \in Ints]
  <2>1. q \in Enumerable(t)
    BY <1>3 DEF Enumerable
  <2>2. q.slot = i /\ q.int = (t[i].key \in Ints)
    OBVIOUS
  <2> QED
    BY <2>1, <2>2
<1>4. IsFiniteSet(Enumerable(t))
  <2>1. \A q \in Enumerable(t) : 0 <= Rank(q, n) /\ Rank(q, n) < 2 * n
    BY <1>2, RankDef
  <2>2. Enumerable(t) \in SUBSET Positions(n) /\ 2 * n \in Nat /\ 0 <= 2 * n
    BY <1>2
  <2> QED
    BY <2>1, <2>2, CountRanks
<1> QED
  BY <1>2, <1>3, <1>4

(* The entries of a table before p.                                        *)
Lower(t, p) == {r \in Enumerable(t) : Before(r, p)}

LEMMA LowerDef ==
  ASSUME NEW n \in Nat \ {0}, NEW t \in Tables(n), NEW p \in Positions(n)
  PROVE  /\ IsFiniteSet(Lower(t, p)) /\ Cardinality(Lower(t, p)) \in Nat
         /\ Cardinality(Lower(t, p)) <= Rank(p, n)
<1>1. Enumerable(t) \subseteq Positions(n)
  BY EnumerableDef
<1>2. Lower(t, p) \in SUBSET Positions(n)
  BY <1>1 DEF Lower
<1>3. \A r \in Lower(t, p) : 0 <= Rank(r, n) /\ Rank(r, n) < Rank(p, n)
  BY <1>1, BeforeRank DEF Lower
<1>4. Rank(p, n) \in Nat /\ 0 <= Rank(p, n)
  BY RankDef
<1> QED
  BY <1>2, <1>3, <1>4, CountRanks

LEMMA LowerStrict ==
  ASSUME NEW n \in Nat \ {0}, NEW t \in Tables(n),
         NEW p \in Enumerable(t), NEW q \in Enumerable(t), Before(p, q)
  PROVE  Cardinality(Lower(t, p)) < Cardinality(Lower(t, q))
<1>1. p \in Positions(n) /\ q \in Positions(n) /\ Enumerable(t) \subseteq Positions(n)
  BY EnumerableDef
<1>2. Lower(t, p) \subseteq Lower(t, q)
  BY <1>1, BeforeOrder DEF Lower
<1>3. p \in Lower(t, q) /\ p \notin Lower(t, p)
  BY <1>1, BeforeOrder DEF Lower
<1>4. /\ IsFiniteSet(Lower(t, q))
      /\ Cardinality(Lower(t, p)) \in Nat /\ Cardinality(Lower(t, q)) \in Nat
  BY <1>1, LowerDef
<1>5. /\ Cardinality(Lower(t, p)) <= Cardinality(Lower(t, q))
      /\ Cardinality(Lower(t, p)) # Cardinality(Lower(t, q))
  BY <1>2, <1>3, <1>4, FS_Subset
<1> QED
  BY <1>4, <1>5

(* The entry that follows p is counted next.                               *)
LEMMA LowerNext ==
  ASSUME NEW n \in Nat \ {0}, NEW t \in Tables(n),
         NEW p \in Enumerable(t), NEW q \in Enumerable(t), Before(p, q),
         \A r \in Enumerable(t) : Before(p, r) => ~Before(r, q)
  PROVE  Cardinality(Lower(t, q)) = Cardinality(Lower(t, p)) + 1
<1>1. p \in Positions(n) /\ q \in Positions(n) /\ Enumerable(t) \subseteq Positions(n)
  BY EnumerableDef
<1>2. Lower(t, q) = Lower(t, p) \cup {p}
  <2>1. ASSUME NEW r \in Lower(t, q) PROVE r \in Lower(t, p) \cup {p}
    BY <1>1, BeforeOrder DEF Lower
  <2>2. ASSUME NEW r \in Lower(t, p) PROVE r \in Lower(t, q)
    BY <1>1, BeforeOrder DEF Lower
  <2>3. p \in Lower(t, q)
    BY DEF Lower
  <2> QED
    BY <2>1, <2>2, <2>3
<1>3. p \notin Lower(t, p)
  BY <1>1, BeforeOrder DEF Lower
<1>4. IsFiniteSet(Lower(t, p))
  BY <1>1, LowerDef
<1> QED
  BY <1>2, <1>3, <1>4, FS_AddElement

LEMMA RealIndexDef ==
  ASSUME NEW n \in Nat \ {0}, atoms \in Tables(n), NEW i \in Nat
  PROVE  /\ \A p : p \in publicIterIndexToRealIndex(i) <=>
                   p \in Enumerable(atoms) /\ Cardinality(Lower(atoms, p)) = i - 1
         /\ \A p, q \in publicIterIndexToRealIndex(i) : p = q
<1>1. \A p : p \in publicIterIndexToRealIndex(i) <=>
                   p \in Enumerable(atoms) /\ Cardinality(Lower(atoms, p)) = i - 1
  BY DEF publicIterIndexToRealIndex, Lower
<1>2. ASSUME NEW p \in publicIterIndexToRealIndex(i), NEW q \in publicIterIndexToRealIndex(i)
      PROVE  p = q
  <2>1. /\ p \in Enumerable(atoms) /\ q \in Enumerable(atoms)
        /\ Cardinality(Lower(atoms, p)) = Cardinality(Lower(atoms, q))
        /\ Cardinality(Lower(atoms, p)) \in Int
    BY <1>1
  <2>2. p \in Positions(n) /\ q \in Positions(n)
    BY <2>1, EnumerableDef
  <2>3. ~Before(p, q) /\ ~Before(q, p)
    BY <2>1, LowerStrict
  <2> QED
    BY <2>2, <2>3, BeforeOrder
<1> QED
  BY <1>1, <1>2

(***************************************************************************)
(* A call of next                                                          *)
(***************************************************************************)
Current == [slot |-> iter.slot, int |-> iter.int]

CursorTyped == iter \in [public : Nat, slot : DOMAIN atoms, int : BOOLEAN]

(* The public index counts entries, so that it is at most the slot's rank. *)
Counted == iter.public <= Rank(Current, getCapacity(atoms)) + 1

(* Dead keys are dropped; the other entries stay.                          *)
LEMMA SweepMap ==
  ASSUME MapInv, NEW set, set \subseteq Enumerable(atoms),
         NEW passed, passed = Passed(set, Alive(set)),
         atoms' = Swept(passed), hasDeletedItems' = (hasDeletedItems \/ passed # {}),
         UNCHANGED <<kind, m_size, dead, bound>>
  PROVE  /\ MapInv' /\ getCapacity(atoms') = getCapacity(atoms)
         /\ \A q \in Enumerable(atoms) \ passed :
              q \in Enumerable(atoms') /\ atoms'[q.slot] = atoms[q.slot]
         /\ passed # {} => atoms' # atoms
<1>1. PICK n \in Nat \ {0} : /\ getCapacity(atoms) = n /\ DOMAIN atoms = 0 .. n - 1
                             /\ atoms \in Tables(n) /\ Good(atoms, n)
  BY TableFacts
<1>2. /\ Enumerable(atoms) \subseteq Positions(n)
      /\ \A q \in Enumerable(atoms) : q.slot \in Live(atoms) /\ ~atoms[q.slot].hidden
      /\ \A p, q \in Enumerable(atoms) : p.slot = q.slot => p = q
  BY <1>1, EnumerableDef
<1>3. ASSUME NEW q \in passed
      PROVE  q \in Enumerable(atoms) /\ IsNull(atoms[q.slot])
  <2>1. q \in set /\ \A p \in Alive(set) : Before(q, p)
    BY DEF Passed
  <2>2. q \in Positions(n)
    BY <1>2, <2>1
  <2>3. q \notin Alive(set)
    BY <1>1, <2>1, <2>2, BeforeOrder
  <2> QED
    BY <2>1, <2>3 DEF Alive
<1> DEFINE S == {q.slot : q \in passed}
<1>4. S \in SUBSET Live(atoms) /\ (S # {} <=> passed # {})
  BY <1>2, <1>3
<1>5. atoms' = [i \in DOMAIN atoms |-> IF i \in S THEN DeletedPair ELSE atoms[i]]
  BY DEF Swept
<1>6. bound \in [Keys -> Values[kind] \cup {None}]
  BY DEF MapInv, MapTyped
<1>7. \A k \in Keys : \/ bound'[k] = bound[k] /\ \A i \in S : atoms[i].key # k
                      \/ bound'[k] = None /\ \E i \in S : atoms[i].key = k
  <2> SUFFICES ASSUME NEW i \in S PROVE bound[atoms[i].key] = None
    OBVIOUS
  <2>1. i \in Live(atoms) /\ IsNull(atoms[i])
    BY <1>3, <1>4
  <2> QED
    BY <2>1 DEF MapInv, Bindings, Shown
<1>8. \A q \in Enumerable(atoms) \ passed : q.slot \notin S
  BY <1>2, <1>3
<1>8a. ASSUME passed # {} PROVE atoms' # atoms
  <2>1. PICK i \in S : i \in Live(atoms)
    BY <1>4, <1>8a
  <2>2. atoms'[i] = DeletedPair /\ atoms[i].key \in Keys
    BY <1>5, <2>1 DEF Live
  <2> QED
    BY <2>2, Marks
<1> HIDE DEF S
<1>9. /\ MapInv' /\ Keeps({atoms[i].key : i \in S})
      /\ Live(atoms') = Live(atoms) \ S
      /\ \A i \in Live(atoms') : atoms'[i] = atoms[i]
  BY <1>4, <1>5, <1>6, <1>7, DropMap
<1>10. ASSUME NEW q \in Enumerable(atoms) \ passed
       PROVE  q \in Enumerable(atoms') /\ atoms'[q.slot] = atoms[q.slot]
  <2>1. q.slot \in Live(atoms') /\ atoms'[q.slot] = atoms[q.slot]
    BY <1>2, <1>8, <1>9
  <2>2. PICK i \in Live(atoms) : ~atoms[i].hidden /\ q = [slot |-> i, int |-> atoms[i].key \in Ints]
    BY DEF Enumerable
  <2>3. q.slot = i
    BY <2>2
  <2> QED
    BY <2>1, <2>2, <2>3 DEF Enumerable
<1> QED
  BY <1>8a, <1>9, <1>10 DEF Keeps

LEMMA AdvanceDef ==
  ASSUME MapInv, NEW i, Advance(i), NEW set, set = Ahead(i),
         NEW passed, passed = Passed(set, Alive(set))
  PROVE  /\ set \subseteq Enumerable(atoms)
         /\ Alive(set) = {} => iter' = [public |-> 0, slot |-> 0, int |-> FALSE]
         /\ Alive(set) # {} =>
              \E q \in Alive(set) :
                /\ iter' = [public |-> i + Cardinality(passed) + 1,
                            slot |-> q.slot, int |-> q.int]
                /\ \A r \in Alive(set) : r = q \/ Before(q, r)
                /\ \A r \in set : r \in passed <=> Before(r, q)
<1>1. PICK n \in Nat \ {0} : atoms \in Tables(n)
  BY TableFacts
<1>2. Enumerable(atoms) \subseteq Positions(n)
  BY <1>1, EnumerableDef
<1>3. set \subseteq Enumerable(atoms)
  BY DEF Ahead
<1>4. iter' = Cursor(i, passed, Alive(set))
  BY DEF Advance
<1>5. ASSUME Alive(set) # {}
      PROVE  \E q \in Alive(set) :
                /\ iter' = [public |-> i + Cardinality(passed) + 1,
                            slot |-> q.slot, int |-> q.int]
                /\ \A r \in Alive(set) : r = q \/ Before(q, r)
                /\ \A r \in set : r \in passed <=> Before(r, q)
  <2> DEFINE q == First(Alive(set))
  <2>1. Alive(set) \in SUBSET Positions(n) /\ Alive(set) \subseteq set
    BY <1>2, <1>3 DEF Alive
  <2>2. q \in Alive(set) /\ \A r \in Alive(set) \ {q} : Before(q, r)
    BY <1>5, <2>1, FirstDef
  <2>3. iter' = [public |-> i + Cardinality(passed) + 1, slot |-> q.slot, int |-> q.int]
    BY <1>4, <1>5 DEF Cursor
  <2> HIDE DEF q
  <2>4. ASSUME NEW r \in set PROVE r \in passed <=> Before(r, q)
    <3>1. r \in passed => Before(r, q)
      BY <2>2 DEF Passed
    <3>2. ASSUME Before(r, q), NEW p \in Alive(set) PROVE Before(r, p)
      <4>1. r \in Positions(n) /\ q \in Positions(n) /\ p \in Positions(n)
        BY <1>2, <1>3, <2>1, <2>2
      <4> QED
        BY <2>2, <3>2, <4>1, BeforeOrder
    <3> QED
      BY <3>1, <3>2 DEF Passed
  <2> QED
    BY <2>2, <2>3, <2>4
<1> QED
  BY <1>3, <1>4, <1>5 DEF Cursor

LEMMA PositionDef ==
  ASSUME MapInv, CursorTyped, Counted, NEW n \in Nat \ {0}, getCapacity(atoms) = n, NEW i \in Nat
  PROVE  \A p \in Position(i) : /\ p \in Positions(n) /\ i <= Rank(p, n) + 1
                                /\ Position(i) = {p}
<1>1. atoms \in Tables(n) /\ DOMAIN atoms = 0 .. n - 1
  BY TableFacts
<1> SUFFICES ASSUME NEW p \in Position(i)
             PROVE  p \in Positions(n) /\ i <= Rank(p, n) + 1 /\ Position(i) = {p}
  OBVIOUS
<1>2. CASE i = iter.public
  <2>1. Position(i) = {Current}
    BY <1>2 DEF Position, Current
  <2>2. Current \in Positions(n)
    BY <1>1 DEF Current, CursorTyped, Positions
  <2> QED
    BY <1>2, <2>1, <2>2 DEF Counted
<1>3. CASE i # iter.public
  <2>1. Position(i) = publicIterIndexToRealIndex(i)
    BY <1>3 DEF Position
  <2>2. /\ p \in Enumerable(atoms) /\ Cardinality(Lower(atoms, p)) = i - 1
        /\ \A q \in Position(i) : p = q
    BY <1>1, <2>1, RealIndexDef
  <2>3. p \in Positions(n)
    BY <1>1, <2>2, EnumerableDef
  <2>4. Cardinality(Lower(atoms, p)) <= Rank(p, n) /\ Rank(p, n) \in Nat
    BY <1>1, <2>3, LowerDef, RankDef
  <2> QED
    BY <2>2, <2>3, <2>4
<1> QED
  BY <1>2, <1>3

(* The entry that next returns has not been counted too high.              *)
LEMMA AdvanceCounts ==
  ASSUME MapInv, CursorTyped, Counted, NEW i \in Nat, Advance(i)
  PROVE  /\ MapInv' /\ CursorTyped' /\ Counted'
         /\ getCapacity(atoms') = getCapacity(atoms)
         /\ iter'.public <= 2 * getCapacity(atoms)
<1>1. PICK n \in Nat \ {0} : /\ getCapacity(atoms) = n /\ DOMAIN atoms = 0 .. n - 1
                             /\ atoms \in Tables(n)
  BY TableFacts
<1>2. PICK set : set = Ahead(i)
  OBVIOUS
<1>3. PICK passed : passed = Passed(set, Alive(set))
  OBVIOUS
<1>4. /\ set \subseteq Enumerable(atoms)
      /\ Alive(set) = {} => iter' = [public |-> 0, slot |-> 0, int |-> FALSE]
      /\ Alive(set) # {} =>
              \E q \in Alive(set) :
                /\ iter' = [public |-> i + Cardinality(passed) + 1,
                            slot |-> q.slot, int |-> q.int]
                /\ \A r \in Alive(set) : r = q \/ Before(q, r)
                /\ \A r \in set : r \in passed <=> Before(r, q)
  BY <1>2, <1>3, AdvanceDef
<1>5. Enumerable(atoms) \subseteq Positions(n) /\ Alive(set) \subseteq set
      /\ passed \subseteq set
  BY <1>1, <1>3, EnumerableDef DEF Alive, Passed
<1>6. MapInv' /\ getCapacity(atoms') = n
  <2>1. /\ atoms' = Swept(passed) /\ hasDeletedItems' = (hasDeletedItems \/ passed # {})
        /\ UNCHANGED <<kind, m_size, dead, bound>>
    BY <1>2, <1>3 DEF Advance
  <2> QED
    BY <1>1, <1>3, <1>4, <2>1, SweepMap
<1>7. DOMAIN atoms' = 0 .. n - 1
  BY <1>1, <1>2, <1>3 DEF Advance, Swept
<1>8. CASE Alive(set) = {}
  <2>1. iter' = [public |-> 0, slot |-> 0, int |-> FALSE]
    BY <1>4, <1>8
  <2>2. CursorTyped'
    BY <1>7, <2>1 DEF CursorTyped
  <2>3. Current' \in Positions(n)
    BY <1>7, <2>2 DEF Current, CursorTyped, Positions
  <2>4. iter'.public = 0 /\ Rank(Current', n) \in Nat
    BY <2>1, <2>3, RankDef
  <2> QED
    BY <1>1, <1>6, <2>2, <2>4 DEF Counted
<1>9. CASE Alive(set) # {}
  <2>1. PICK q \in Alive(set) :
                /\ iter' = [public |-> i + Cardinality(passed) + 1,
                            slot |-> q.slot, int |-> q.int]
                /\ \A r \in set : r \in passed <=> Before(r, q)
    BY <1>4, <1>9
  <2>2. q \in Positions(n) /\ q \in set
    BY <1>4, <1>5
  <2>3. Current' = q /\ iter'.public = i + Cardinality(passed) + 1
    BY <2>1, <2>2, RankDef DEF Current
  <2>4. Rank(q, n) \in 0 .. 2 * n - 1
    BY <2>2, RankDef
  <2>5. Cardinality(passed) \in Nat /\ i + Cardinality(passed) <= Rank(q, n)
    <3>0. passed \in SUBSET Positions(n)
      BY <1>4, <1>5
    <3>1. CASE i = 0
      <4>1. \A r \in passed : 0 <= Rank(r, n) /\ Rank(r, n) < Rank(q, n)
        BY <1>5, <2>1, <2>2, <3>0, BeforeRank
      <4>2. Rank(q, n) \in Nat /\ 0 <= Rank(q, n) /\ 0 \in Nat
        BY <2>4
      <4>3. Cardinality(passed) \in Nat /\ Cardinality(passed) <= Rank(q, n) - 0
        BY <3>0, <4>1, <4>2, CountRanks
      <4> QED
        BY <2>4, <3>1, <4>3
    <3>2. CASE i # 0
      <4>1. PICK p \in Position(i) : Before(p, q)
        BY <1>2, <2>2, <3>2 DEF Ahead
      <4>2. p \in Positions(n) /\ i <= Rank(p, n) + 1 /\ Position(i) = {p}
        BY <1>1, PositionDef
      <4>3. \A r \in passed : Before(p, r)
        BY <1>2, <1>5, <3>2, <4>2 DEF Ahead
      <4>4. Rank(p, n) \in Nat /\ Rank(p, n) + 1 \in Nat /\ Rank(q, n) \in Nat
            /\ Rank(p, n) + 1 <= Rank(q, n)
        BY <2>2, <4>1, <4>2, BeforeRank
      <4>5. \A r \in passed : Rank(p, n) + 1 <= Rank(r, n) /\ Rank(r, n) < Rank(q, n)
        BY <1>5, <2>1, <2>2, <3>0, <4>2, <4>3, BeforeRank
      <4>6. Cardinality(passed) \in Nat /\ Cardinality(passed) <= Rank(q, n) - (Rank(p, n) + 1)
        BY <3>0, <4>4, <4>5, CountRanks
      <4> QED
        BY <2>4, <4>2, <4>4, <4>6
    <3> QED
      BY <3>1, <3>2
  <2>6. CursorTyped'
    <3>1. q.slot \in 0 .. n - 1 /\ q.int \in BOOLEAN
      BY <2>2, RankDef
    <3> QED
      BY <1>7, <2>1, <2>5, <3>1 DEF CursorTyped
  <2> QED
    BY <1>1, <1>6, <2>3, <2>4, <2>5, <2>6 DEF Counted
<1> QED
  BY <1>8, <1>9

(* While the table stays as it is, the cookie is the rank of the entry.    *)
LEMMA AdvanceSteady ==
  ASSUME MapInv, NEW i \in Nat, Advance(i), atoms' = atoms,
         i # 0 => /\ Position(i) = publicIterIndexToRealIndex(i)
                  /\ \A p \in Position(i) : Position(i) = {p},
         iter'.public # 0
  PROVE  iter'.public = i + 1 /\ Current' \in publicIterIndexToRealIndex(i + 1)
<1>1. PICK n \in Nat \ {0} : atoms \in Tables(n)
  BY TableFacts
<1>2. PICK set : set = Ahead(i)
  OBVIOUS
<1>3. PICK passed : passed = Passed(set, Alive(set))
  OBVIOUS
<1>4. /\ set \subseteq Enumerable(atoms)
      /\ Alive(set) = {} => iter' = [public |-> 0, slot |-> 0, int |-> FALSE]
      /\ Alive(set) # {} =>
              \E q \in Alive(set) :
                /\ iter' = [public |-> i + Cardinality(passed) + 1,
                            slot |-> q.slot, int |-> q.int]
                /\ \A r \in Alive(set) : r = q \/ Before(q, r)
                /\ \A r \in set : r \in passed <=> Before(r, q)
  BY <1>2, <1>3, AdvanceDef
<1>5. passed = {}
  <2>1. /\ atoms' = Swept(passed) /\ hasDeletedItems' = (hasDeletedItems \/ passed # {})
        /\ UNCHANGED <<kind, m_size, dead, bound>>
    BY <1>2, <1>3 DEF Advance
  <2> QED
    BY <1>3, <1>4, <2>1, SweepMap
<1>6. PICK q \in Alive(set) :
        /\ iter' = [public |-> i + Cardinality(passed) + 1, slot |-> q.slot, int |-> q.int]
        /\ \A r \in set : r \in passed <=> Before(r, q)
  BY <1>4
<1>7. iter'.public = i + 1
  BY <1>5, <1>6, FS_EmptySet
<1>8. q \in set /\ q \in Enumerable(atoms) /\ q \in Positions(n)
      /\ Enumerable(atoms) \subseteq Positions(n)
  BY <1>1, <1>4, EnumerableDef DEF Alive
<1>9. Current' = q
  BY <1>1, <1>6, <1>8, RankDef DEF Current
<1>10. \A r \in set : ~Before(r, q)
  BY <1>5, <1>6
<1>11. Cardinality(Lower(atoms, q)) = (i + 1) - 1
  <2>1. CASE i = 0
    <3>1. set = Enumerable(atoms)
      BY <1>2, <2>1 DEF Ahead
    <3>2. Lower(atoms, q) = {}
      BY <1>10, <3>1 DEF Lower
    <3> QED
      BY <2>1, <3>2, FS_EmptySet
  <2>2. CASE i # 0
    <3>1. PICK p \in Position(i) : Before(p, q)
      BY <1>2, <1>8, <2>2 DEF Ahead
    <3>2. p \in Enumerable(atoms) /\ Cardinality(Lower(atoms, p)) = i - 1
      BY <1>1, <2>2, <3>1, RealIndexDef
    <3>3. \A r \in Enumerable(atoms) : Before(p, r) => ~Before(r, q)
      <4>1. \A r \in Enumerable(atoms) : Before(p, r) => r \in set
        BY <1>2, <1>8, <2>2, <3>1 DEF Ahead
      <4> QED
        BY <1>10, <4>1
    <3> QED
      BY <1>1, <1>8, <3>1, <3>2, <3>3, LowerNext
  <2> QED
    BY <2>1, <2>2
<1> QED
  BY <1>1, <1>7, <1>8, <1>9, <1>11, RealIndexDef

(***************************************************************************)
(* A loop between two calls of next                                        *)
(***************************************************************************)
LoopTyped == /\ CursorTyped
             /\ index \in 0 .. 2 * getCapacity(atoms)
             /\ due \subseteq Keys /\ done \subseteq Keys \ due
             /\ shape \in {"same", "edited", "rehashed"} /\ mine \in BOOLEAN

Mine == index # 0 /\ mine => index = iter.public

(* While the table is as it was, a cookie names an entry of it.            *)
Steady == index # 0 /\ shape = "same" =>
            /\ publicIterIndexToRealIndex(index) # {}
            /\ iter.public # 0 => Current \in publicIterIndexToRealIndex(iter.public)

(* The key of an entry that the loop has still to come to, and of one that *)
(* it has left behind.                                                     *)
Waiting(k, at) == \E q \in Enumerable(atoms) : /\ atoms[q.slot].key = k /\ ~IsNull(atoms[q.slot])
                                               /\ \A p \in at : Before(p, q)
Behind(k, at) == \E q \in Enumerable(atoms) : /\ atoms[q.slot].key = k
                                              /\ \A p \in at : ~Before(p, q)

Pending == index # 0 /\ Undisturbed => /\ \A k \in due : Waiting(k, Position(index))
                                       /\ \A k \in done : Behind(k, Position(index))

LoopInv == LoopTyped /\ Counted /\ Mine /\ Steady /\ Pending

IInv == MapInv /\ LoopInv

LEMMA SteadyPosition ==
  ASSUME IInv, index # 0, shape = "same"
  PROVE  /\ Position(index) = publicIterIndexToRealIndex(index)
         /\ Position(index) # {}
<1>1. PICK n \in Nat \ {0} : atoms \in Tables(n) /\ getCapacity(atoms) = n
  BY TableFacts DEF IInv
<1>2. index \in Nat
  BY <1>1 DEF IInv, LoopInv, LoopTyped
<1>3. CASE index = iter.public
  <2>1. Current \in publicIterIndexToRealIndex(index)
    BY <1>3 DEF IInv, LoopInv, Steady
  <2>2. \A p \in publicIterIndexToRealIndex(index) : p = Current
    BY <1>1, <1>2, <2>1, RealIndexDef
  <2>3. Position(index) = {Current}
    BY <1>3 DEF Position, Current
  <2> QED
    BY <2>1, <2>2, <2>3
<1>4. CASE index # iter.public
  BY <1>4 DEF Position, IInv, LoopInv, Steady
<1> QED
  BY <1>3, <1>4

(* The loop stands at one entry.                                           *)
LEMMA LoopPosition ==
  ASSUME IInv, index # 0, Undisturbed
  PROVE  /\ \E p : Position(index) = {p}
         /\ \A n \in Nat \ {0} : getCapacity(atoms) = n => Position(index) \subseteq Positions(n)
<1>1. PICK n \in Nat \ {0} : atoms \in Tables(n) /\ getCapacity(atoms) = n
  BY TableFacts DEF IInv
<1>2. index \in Nat
  BY <1>1 DEF IInv, LoopInv, LoopTyped
<1>3. \A p \in Position(index) : p \in Positions(n) /\ Position(index) = {p}
  BY <1>1, <1>2, PositionDef DEF IInv, LoopInv, LoopTyped
<1>4. Position(index) # {}
  <2>1. CASE shape = "same"
    BY <2>1, SteadyPosition
  <2>2. CASE shape = "edited" /\ mine
    <3>1. index = iter.public
      BY <2>2 DEF IInv, LoopInv, Mine
    <3> QED
      BY <3>1 DEF Position
  <2> QED
    BY <2>1, <2>2 DEF Undisturbed
<1> QED
  BY <1>1, <1>3, <1>4

(* The entries of the keys that a step keeps are the same.                 *)
LEMMA EntriesKept ==
  ASSUME NEW gone, Keeps(gone), NEW q \in Enumerable(atoms), atoms[q.slot].key \notin gone
  PROVE  /\ q \in Enumerable(atoms') /\ atoms'[q.slot].key = atoms[q.slot].key
         /\ ~IsNull(atoms[q.slot]) => ~IsNull(atoms[q.slot])'
<1>1. PICK i \in Live(atoms) : ~atoms[i].hidden /\ q = [slot |-> i, int |-> atoms[i].key \in Ints]
  BY DEF Enumerable
<1>2. q.slot = i
  BY <1>1
<1>3. /\ i \in Live(atoms') /\ atoms'[i].key = atoms[i].key /\ atoms'[i].hidden = atoms[i].hidden
      /\ ~IsNull(atoms[i]) => ~IsNull(atoms[i])'
  BY <1>2 DEF Keeps
<1> QED
  BY <1>1, <1>2, <1>3 DEF Enumerable

LEMMA EditedLoop ==
  ASSUME IInv, MapInv', NEW gone, Keeps(gone), Edited(gone), UNCHANGED iter
  PROVE  LoopInv'
<1>1. PICK n \in Nat \ {0} : getCapacity(atoms) = n /\ DOMAIN atoms = 0 .. n - 1
  BY TableFacts DEF IInv
<1>2. PICK m \in Nat \ {0} : getCapacity(atoms') = m /\ DOMAIN atoms' = 0 .. m - 1
  BY Capacity DEF MapInv, Good
<1>3. m = n /\ DOMAIN atoms' = DOMAIN atoms
  BY <1>1, <1>2 DEF Keeps
<1>4. /\ due' = due \ gone /\ done' = done \ gone
      /\ shape' = IF index # 0 /\ shape = "same" THEN "edited" ELSE shape
      /\ index' = index /\ mine' = mine
  BY DEF Edited
<1>5. LoopTyped' /\ Counted' /\ Mine'
  BY <1>1, <1>2, <1>3, <1>4
     DEF IInv, LoopInv, LoopTyped, CursorTyped, Counted, Mine, Current
<1>6. Steady'
  BY <1>4 DEF Steady
<1>7. Pending'
  <2> SUFFICES ASSUME index' # 0, Undisturbed'
               PROVE  /\ \A k \in due' : Waiting(k, Position(index))'
                      /\ \A k \in done' : Behind(k, Position(index))'
    BY DEF Pending
  <2>1. index # 0 /\ mine /\ Undisturbed
    BY <1>4 DEF Undisturbed
  <2>2. index = iter.public
    BY <2>1 DEF IInv, LoopInv, Mine
  <2>3. Position(index)' = Position(index)
    BY <1>4, <2>2 DEF Position
  <2>4. (\A k \in due : Waiting(k, Position(index))) /\ (\A k \in done : Behind(k, Position(index)))
    BY <2>1 DEF IInv, LoopInv, Pending
  <2>5. PICK at : at = Position(index)
    OBVIOUS
  <2>6. ASSUME NEW k \in due \ gone PROVE Waiting(k, at)'
    <3>1. PICK q \in Enumerable(atoms) : /\ atoms[q.slot].key = k /\ ~IsNull(atoms[q.slot])
                                         /\ \A p \in at : Before(p, q)
      BY <2>4, <2>5 DEF Waiting
    <3>2. q \in Enumerable(atoms') /\ atoms'[q.slot].key = k /\ ~IsNull(atoms[q.slot])'
      BY <3>1, EntriesKept
    <3> QED
      BY <3>1, <3>2 DEF Waiting
  <2>7. ASSUME NEW k \in done \ gone PROVE Behind(k, at)'
    <3>1. PICK q \in Enumerable(atoms) : atoms[q.slot].key = k /\ \A p \in at : ~Before(p, q)
      BY <2>4, <2>5 DEF Behind
    <3>2. q \in Enumerable(atoms') /\ atoms'[q.slot].key = k
      BY <3>1, EntriesKept
    <3> QED
      BY <3>1, <3>2 DEF Behind
  <2> QED
    BY <1>4, <2>3, <2>5, <2>6, <2>7 DEF Waiting, Behind
<1> QED
  BY <1>5, <1>6, <1>7 DEF LoopInv

(* A step that changes no entry, but may let some keys die.                *)
LEMMA SameEntriesLoop ==
  ASSUME IInv, MapInv', NEW gone, Keeps(gone),
         DOMAIN atoms' = DOMAIN atoms, Enumerable(atoms') = Enumerable(atoms),
         due' = due \ gone, done' = done \ gone, UNCHANGED <<iter, index, shape, mine>>
  PROVE  LoopInv'
<1>1. PICK n \in Nat \ {0} : getCapacity(atoms) = n /\ DOMAIN atoms = 0 .. n - 1
  BY TableFacts DEF IInv
<1>2. getCapacity(atoms') = getCapacity(atoms)
  BY DEF Keeps
<1>3. LoopTyped' /\ Counted' /\ Mine'
  BY <1>2 DEF IInv, LoopInv, LoopTyped, CursorTyped, Counted, Mine, Current
<1>4. \A i : publicIterIndexToRealIndex(i)' = publicIterIndexToRealIndex(i)
  BY DEF publicIterIndexToRealIndex
<1>5. Steady'
  BY <1>4 DEF IInv, LoopInv, Steady, Current
<1>6. Position(index)' = Position(index)
  <2>1. CASE index = iter.public
    BY <2>1 DEF Position
  <2>2. CASE index # iter.public
    BY <1>4, <2>2 DEF Position
  <2> QED
    BY <2>1, <2>2
<1>7. Pending'
  <2> SUFFICES ASSUME index' # 0, Undisturbed'
               PROVE  /\ \A k \in due' : Waiting(k, Position(index))'
                      /\ \A k \in done' : Behind(k, Position(index))'
    BY DEF Pending
  <2>1. index # 0 /\ Undisturbed
    BY DEF Undisturbed
  <2>2. (\A k \in due : Waiting(k, Position(index))) /\ (\A k \in done : Behind(k, Position(index)))
    BY <2>1 DEF IInv, LoopInv, Pending
  <2>3. PICK at : at = Position(index)
    OBVIOUS
  <2>4. ASSUME NEW k \in due \ gone PROVE Waiting(k, at)'
    <3>1. PICK q \in Enumerable(atoms) : /\ atoms[q.slot].key = k /\ ~IsNull(atoms[q.slot])
                                         /\ \A p \in at : Before(p, q)
      BY <2>2, <2>3 DEF Waiting
    <3>2. q \in Enumerable(atoms') /\ atoms'[q.slot].key = k /\ ~IsNull(atoms[q.slot])'
      BY <3>1, EntriesKept
    <3> QED
      BY <3>1, <3>2 DEF Waiting
  <2>5. ASSUME NEW k \in done \ gone PROVE Behind(k, at)'
    <3>1. PICK q \in Enumerable(atoms) : atoms[q.slot].key = k /\ \A p \in at : ~Before(p, q)
      BY <2>2, <2>3 DEF Behind
    <3>2. q \in Enumerable(atoms') /\ atoms'[q.slot].key = k
      BY <3>1, EntriesKept
    <3> QED
      BY <3>1, <3>2 DEF Behind
  <2> QED
    BY <1>6, <2>3, <2>4, <2>5 DEF Waiting, Behind
<1> QED
  BY <1>3, <1>5, <1>7 DEF LoopInv

LEMMA GrownLoop ==
  ASSUME IInv, MapInv', getCapacity(atoms') \in Nat, getCapacity(atoms') >= getCapacity(atoms),
         Rehashed, UNCHANGED iter
  PROVE  LoopInv'
<1>1. PICK n \in Nat \ {0} : getCapacity(atoms) = n /\ DOMAIN atoms = 0 .. n - 1
  BY TableFacts DEF IInv
<1>2. PICK m \in Nat \ {0} : getCapacity(atoms') = m /\ DOMAIN atoms' = 0 .. m - 1
  BY Capacity DEF MapInv, Good
<1>3. /\ due' = {} /\ done' = {} /\ index' = index /\ mine' = mine
      /\ shape' = IF index # 0 THEN "rehashed" ELSE shape
  BY DEF Rehashed
<1>4. m >= n
  BY <1>1, <1>2
<1>5. LoopTyped'
  BY <1>1, <1>2, <1>3, <1>4 DEF IInv, LoopInv, LoopTyped, CursorTyped
<1>6. Counted'
  <2>1. Current' = Current
    BY DEF Current
  <2>2. /\ Current \in Positions(n) /\ Current \in Positions(m) /\ iter.public \in Nat
        /\ iter.public <= Rank(Current, n) + 1
    BY <1>1, <1>4 DEF IInv, LoopInv, LoopTyped, CursorTyped, Counted, Current, Positions
  <2>3. Rank(Current, n) <= Rank(Current, m) /\ Rank(Current, n) \in Nat /\ Rank(Current, m) \in Nat
    <3>1. CASE Current.int
      BY <2>2, <3>1, RankDef
    <3>2. CASE ~Current.int
      BY <1>4, <2>2, <3>2, RankDef
    <3> QED
      BY <3>1, <3>2
  <2> QED
    BY <1>2, <2>1, <2>2, <2>3 DEF Counted
<1>7. Mine'
  BY <1>3 DEF IInv, LoopInv, Mine
<1>8. Steady' /\ Pending'
  BY <1>3 DEF Steady, Pending, Undisturbed
<1> QED
  BY <1>5, <1>6, <1>7, <1>8 DEF LoopInv

(***************************************************************************)
(* The steps of the loops                                                  *)
(***************************************************************************)
LEMMA NotOver ==
  ASSUME MapInv, NEW i \in Nat, Advance(i), Alive(Ahead(i)) # {}
  PROVE  iter'.public # 0
<1>1. PICK n \in Nat \ {0} : atoms \in Tables(n)
  BY TableFacts
<1>2. PICK set : set = Ahead(i)
  OBVIOUS
<1>3. PICK passed : passed = Passed(set, Alive(set))
  OBVIOUS
<1>4. set \subseteq Enumerable(atoms) /\ \E q \in Alive(set) :
         iter' = [public |-> i + Cardinality(passed) + 1, slot |-> q.slot, int |-> q.int]
  BY <1>2, <1>3, AdvanceDef
<1>5. IsFiniteSet(Enumerable(atoms)) /\ passed \subseteq Enumerable(atoms)
  BY <1>1, <1>3, <1>4, EnumerableDef DEF Passed
<1>6. Cardinality(passed) \in Nat
  BY <1>5, FS_Subset, FS_CardinalityType
<1> QED
  BY <1>4, <1>6

(* The entry q that next returns, and what becomes of the others.          *)
LEMMA Onward ==
  ASSUME MapInv, NEW i \in Nat, Advance(i), iter'.public # 0
  PROVE  \E q \in Ahead(i) :
           /\ Current' = q /\ Reported = {atoms[q.slot].key}
           /\ \A r \in Enumerable(atoms) :
                r = q \/ r \notin Ahead(i) \/ ~IsNull(atoms[r.slot])
                => r \in Enumerable(atoms') /\ atoms'[r.slot] = atoms[r.slot]
           /\ \A r \in Ahead(i) : ~IsNull(atoms[r.slot]) /\ r # q => Before(q, r)
<1>1. PICK n \in Nat \ {0} : atoms \in Tables(n)
  BY TableFacts
<1>2. PICK set : set = Ahead(i)
  OBVIOUS
<1>3. PICK passed : passed = Passed(set, Alive(set))
  OBVIOUS
<1>4. /\ set \subseteq Enumerable(atoms)
      /\ Alive(set) = {} => iter' = [public |-> 0, slot |-> 0, int |-> FALSE]
      /\ Alive(set) # {} =>
              \E q \in Alive(set) :
                /\ iter' = [public |-> i + Cardinality(passed) + 1,
                            slot |-> q.slot, int |-> q.int]
                /\ \A r \in Alive(set) : r = q \/ Before(q, r)
                /\ \A r \in set : r \in passed <=> Before(r, q)
  BY <1>2, <1>3, AdvanceDef
<1>5. PICK q \in Alive(set) :
        /\ iter' = [public |-> i + Cardinality(passed) + 1, slot |-> q.slot, int |-> q.int]
        /\ \A r \in Alive(set) : r = q \/ Before(q, r)
        /\ \A r \in set : r \in passed <=> Before(r, q)
  BY <1>4
<1>6. /\ q \in set /\ q \in Positions(n) /\ Enumerable(atoms) \subseteq Positions(n)
      /\ q.slot \in Live(atoms)
  BY <1>1, <1>4, EnumerableDef DEF Alive
<1>7. Current' = q /\ iter'.slot = q.slot
  BY <1>1, <1>5, <1>6, RankDef DEF Current
<1>8. Reported = {atoms[q.slot].key}
  <2>1. atoms[q.slot].key \in Keys
    BY <1>6 DEF Live
  <2> QED
    BY <1>7, <2>1 DEF Reported
<1>9. \A r \in Enumerable(atoms) \ passed :
        r \in Enumerable(atoms') /\ atoms'[r.slot] = atoms[r.slot]
  <2>1. /\ atoms' = Swept(passed) /\ hasDeletedItems' = (hasDeletedItems \/ passed # {})
        /\ UNCHANGED <<kind, m_size, dead, bound>>
    BY <1>2, <1>3 DEF Advance
  <2> QED
    BY <1>3, <1>4, <2>1, SweepMap
<1>10. passed \subseteq set
  BY <1>3 DEF Passed
<1>11. \A r \in set : ~IsNull(atoms[r.slot]) => r \in Alive(set)
  BY DEF Alive
<1>12. \A r \in Alive(set) : r \notin passed
  <2> SUFFICES ASSUME NEW r \in Alive(set), r \in passed PROVE FALSE
    OBVIOUS
  <2>1. Before(r, r) /\ r \in Positions(n)
    BY <1>3, <1>4, <1>6 DEF Passed, Alive
  <2> QED
    BY <2>1, BeforeOrder
<1>13. ASSUME NEW r \in Enumerable(atoms), r = q \/ r \notin set \/ ~IsNull(atoms[r.slot])
       PROVE  r \in Enumerable(atoms') /\ atoms'[r.slot] = atoms[r.slot]
  <2>1. r \notin passed
    BY <1>10, <1>11, <1>12, <1>13
  <2> QED
    BY <1>9, <2>1
<1>14. \A r \in set : ~IsNull(atoms[r.slot]) /\ r # q => Before(q, r)
  BY <1>5, <1>11
<1> QED
  BY <1>2, <1>6, <1>7, <1>8, <1>13, <1>14

LEMMA BeginStep ==
  ASSUME IInv, BeginLoop
  PROVE  MapInv' /\ LoopInv'
<1>1. PICK n \in Nat \ {0} : getCapacity(atoms) = n /\ atoms \in Tables(n)
  BY TableFacts DEF IInv
<1>2. /\ Advance(0) /\ index' = iter'.public
      /\ due' = (IF index' = 0 THEN {} ELSE Lasting) \ Reported
      /\ done' = Reported \cap Lasting
      /\ shape' = IF index' = 0 \/ atoms' = atoms THEN "same" ELSE "edited"
      /\ mine' = TRUE /\ UNCHANGED <<kind, dead>>
  BY DEF BeginLoop, Advance
<1>3. /\ MapInv' /\ CursorTyped' /\ Counted'
      /\ getCapacity(atoms') = getCapacity(atoms)
      /\ iter'.public <= 2 * getCapacity(atoms)
  BY <1>2, AdvanceCounts DEF IInv, LoopInv, LoopTyped
<1>4. LoopTyped'
  <2>1. iter'.public \in Nat
    BY <1>3 DEF CursorTyped
  <2>2. due' \subseteq Keys /\ done' \subseteq Keys \ due'
    BY <1>2 DEF Lasting, Reported
  <2> QED
    BY <1>1, <1>2, <1>3, <2>1, <2>2 DEF LoopTyped
<1>5. Mine'
  BY <1>2 DEF Mine
<1>6. Steady'
  <2> SUFFICES ASSUME index' # 0, shape' = "same"
               PROVE  Current' \in publicIterIndexToRealIndex(iter.public)'
    BY <1>2 DEF Steady
  <2>1. atoms' = atoms
    BY <1>2
  <2>2. iter'.public = 0 + 1 /\ Current' \in publicIterIndexToRealIndex(0 + 1)
    BY <1>2, <2>1, AdvanceSteady DEF IInv
  <2> QED
    BY <2>1, <2>2 DEF publicIterIndexToRealIndex
<1>7. Pending'
  <2> SUFFICES ASSUME index' # 0
               PROVE  /\ \A k \in due' : Waiting(k, Position(index))'
                      /\ \A k \in done' : Behind(k, Position(index))'
    BY DEF Pending
  <2>1. Ahead(0) = Enumerable(atoms)
    BY DEF Ahead
  <2>2. PICK q \in Enumerable(atoms) :
           /\ Current' = q /\ Reported = {atoms[q.slot].key}
           /\ \A r \in Enumerable(atoms) : r = q \/ ~IsNull(atoms[r.slot])
                => r \in Enumerable(atoms') /\ atoms'[r.slot] = atoms[r.slot]
           /\ \A r \in Enumerable(atoms) : ~IsNull(atoms[r.slot]) /\ r # q => Before(q, r)
    <3>1. iter'.public # 0
      BY <1>2
    <3> QED
      BY <1>2, <2>1, <3>1, Onward DEF IInv
  <2>3. Position(index)' = {q}
    BY <1>2, <2>2 DEF Position, Current
  <2>4. ASSUME NEW k \in due' PROVE Waiting(k, {q})'
    <3>1. k \in Lasting /\ k # atoms[q.slot].key
      BY <1>2, <2>2
    <3>2. PICK r \in Enumerable(atoms) : k = atoms[r.slot].key /\ ~IsNull(atoms[r.slot])
      BY <3>1 DEF Lasting
    <3>3. r \in Enumerable(atoms') /\ atoms'[r.slot] = atoms[r.slot] /\ Before(q, r)
      BY <2>2, <3>1, <3>2
    <3>4. ~IsNull(atoms[r.slot])'
      BY <1>2, <3>2, <3>3 DEF IsNull
    <3> QED
      BY <3>2, <3>3, <3>4 DEF Waiting
  <2>5. ASSUME NEW k \in done' PROVE Behind(k, {q})'
    <3>1. k = atoms[q.slot].key /\ q \in Enumerable(atoms') /\ atoms'[q.slot] = atoms[q.slot]
      BY <1>2, <2>2
    <3>2. ~Before(q, q)
      BY <1>1, <2>2, EnumerableDef, BeforeOrder
    <3> QED
      BY <3>1, <3>2 DEF Behind
  <2> QED
    BY <2>3, <2>4, <2>5 DEF Waiting, Behind
<1> QED
  BY <1>3, <1>4, <1>5, <1>6, <1>7 DEF LoopInv

LEMMA ContinueStep ==
  ASSUME IInv, ContinueLoop
  PROVE  MapInv' /\ LoopInv'
<1>1. PICK n \in Nat \ {0} : getCapacity(atoms) = n /\ atoms \in Tables(n)
  BY TableFacts DEF IInv
<1>2. /\ Advance(index) /\ index' = iter'.public /\ index # 0
      /\ due' = IF index' = 0 \/ ~Undisturbed THEN {} ELSE due \ Reported
      /\ done' = IF index' = 0 \/ ~Undisturbed THEN {} ELSE done \cup (due \cap Reported)
      /\ mine' = TRUE /\ UNCHANGED <<kind, dead>>
  BY DEF ContinueLoop, Advance
<1>3. /\ index' = 0 => shape' = "same"
      /\ index' # 0 /\ ~Undisturbed => shape' = "rehashed"
      /\ index' # 0 /\ Undisturbed =>
           shape' = IF atoms' # atoms /\ shape = "same" THEN "edited" ELSE shape
  BY DEF ContinueLoop
<1>4. index \in Nat
  BY <1>1 DEF IInv, LoopInv, LoopTyped
<1>5. /\ MapInv' /\ CursorTyped' /\ Counted'
      /\ getCapacity(atoms') = getCapacity(atoms)
      /\ iter'.public <= 2 * getCapacity(atoms)
  BY <1>2, <1>4, AdvanceCounts DEF IInv, LoopInv, LoopTyped
<1>6. LoopTyped'
  <2>1. iter'.public \in Nat
    BY <1>5 DEF CursorTyped
  <2>2. due' \subseteq Keys /\ done' \subseteq Keys \ due'
    BY <1>2 DEF IInv, LoopInv, LoopTyped
  <2>3. shape' \in {"same", "edited", "rehashed"}
    BY <1>3 DEF IInv, LoopInv, LoopTyped
  <2> QED
    BY <1>1, <1>2, <1>5, <2>1, <2>2, <2>3 DEF LoopTyped
<1>7. Mine'
  BY <1>2 DEF Mine
<1>8. Steady'
  <2> SUFFICES ASSUME index' # 0, shape' = "same"
               PROVE  Current' \in publicIterIndexToRealIndex(iter.public)'
    BY <1>2 DEF Steady
  <2>1. Undisturbed
    BY <1>3
  <2>2. atoms' = atoms /\ shape = "same"
    BY <1>3, <2>1
  <2>3. /\ Position(index) = publicIterIndexToRealIndex(index)
        /\ \E p : Position(index) = {p}
    BY <1>2, <2>1, <2>2, SteadyPosition, LoopPosition
  <2>4. \A p \in Position(index) : Position(index) = {p}
    BY <2>3
  <2>5. iter'.public = index + 1 /\ Current' \in publicIterIndexToRealIndex(index + 1)
    BY <1>2, <1>4, <2>2, <2>3, <2>4, AdvanceSteady DEF IInv
  <2> QED
    BY <2>2, <2>5 DEF publicIterIndexToRealIndex
<1>9. Pending'
  <2> SUFFICES ASSUME index' # 0, Undisturbed'
               PROVE  /\ \A k \in due' : Waiting(k, Position(index))'
                      /\ \A k \in done' : Behind(k, Position(index))'
    BY DEF Pending
  <2>1. Undisturbed
    BY <1>3 DEF Undisturbed
  <2>2. due' = due \ Reported /\ done' = done \cup (due \cap Reported)
    BY <1>2, <2>1
  <2>3. PICK p : Position(index) = {p}
    BY <1>2, <2>1, LoopPosition
  <2>4. p \in Positions(n)
    BY <1>1, <1>2, <2>1, <2>3, LoopPosition
  <2>5. \A r : r \in Ahead(index) <=> r \in Enumerable(atoms) /\ Before(p, r)
    <3>1. ~(index > 2 * getCapacity(atoms))
      BY <1>1 DEF IInv, LoopInv, LoopTyped
    <3> QED
      BY <1>2, <2>3, <3>1 DEF Ahead
  <2>6. PICK q \in Ahead(index) :
           /\ Current' = q /\ Reported = {atoms[q.slot].key}
           /\ \A r \in Enumerable(atoms) :
                r = q \/ r \notin Ahead(index) \/ ~IsNull(atoms[r.slot])
                => r \in Enumerable(atoms') /\ atoms'[r.slot] = atoms[r.slot]
           /\ \A r \in Ahead(index) : ~IsNull(atoms[r.slot]) /\ r # q => Before(q, r)
    <3>1. iter'.public # 0
      BY <1>2
    <3> QED
      BY <1>2, <1>4, <3>1, Onward DEF IInv
  <2>7. Position(index)' = {q}
    BY <1>2, <2>6 DEF Position, Current
  <2>8. (\A k \in due : Waiting(k, {p})) /\ (\A k \in done : Behind(k, {p}))
    BY <1>2, <2>1, <2>3 DEF IInv, LoopInv, Pending
  <2>9. q \in Enumerable(atoms) /\ Before(p, q) /\ Enumerable(atoms) \subseteq Positions(n)
    BY <1>1, <2>5, <2>6, EnumerableDef
  <2>10. ASSUME NEW k \in due' PROVE Waiting(k, {q})'
    <3>1. k \in due /\ k # atoms[q.slot].key
      BY <2>2, <2>6
    <3>2. PICK r \in Enumerable(atoms) :
             k = atoms[r.slot].key /\ ~IsNull(atoms[r.slot]) /\ Before(p, r)
      BY <2>8, <3>1 DEF Waiting
    <3>3. r \in Ahead(index)
      BY <2>5, <3>2
    <3>4. r \in Enumerable(atoms') /\ atoms'[r.slot] = atoms[r.slot] /\ Before(q, r)
      BY <2>6, <3>1, <3>2, <3>3
    <3>5. ~IsNull(atoms[r.slot])'
      BY <1>2, <3>2, <3>4 DEF IsNull
    <3> QED
      BY <3>2, <3>4, <3>5 DEF Waiting
  <2>11. ASSUME NEW k \in done' PROVE Behind(k, {q})'
    <3>1. CASE k \in done
      <4>1. PICK r \in Enumerable(atoms) : k = atoms[r.slot].key /\ ~Before(p, r)
        BY <2>8, <3>1 DEF Behind
      <4>2. r \in Enumerable(atoms') /\ atoms'[r.slot] = atoms[r.slot]
        BY <2>5, <2>6, <4>1
      <4>3. ~Before(q, r)
        BY <2>4, <2>9, <4>1, BeforeOrder
      <4> QED
        BY <4>1, <4>2, <4>3 DEF Behind
    <3>2. CASE k \in Reported
      <4>1. k = atoms[q.slot].key /\ q \in Enumerable(atoms') /\ atoms'[q.slot] = atoms[q.slot]
        BY <2>6, <2>9, <3>2
      <4>2. ~Before(q, q)
        BY <2>9, BeforeOrder
      <4> QED
        BY <4>1, <4>2 DEF Behind
    <3> QED
      BY <2>2, <3>1, <3>2
  <2> QED
    BY <2>7, <2>10, <2>11 DEF Waiting, Behind
<1> QED
  BY <1>5, <1>6, <1>7, <1>8, <1>9 DEF LoopInv

LEMMA InnerStep ==
  ASSUME IInv, InnerLoop
  PROVE  MapInv' /\ LoopInv'
<1>1. PICK n \in Nat \ {0} : getCapacity(atoms) = n /\ atoms \in Tables(n)
  BY TableFacts DEF IInv
<1>2. PICK i : Advance(i) /\ i \in {0, iter.public}
  BY DEF InnerLoop
<1>3. /\ shape' = IF atoms' # atoms /\ shape = "same" THEN "edited" ELSE shape
      /\ mine' = FALSE /\ index' = index /\ due' = due /\ done' = done
      /\ index # 0 /\ UNCHANGED <<kind, dead>>
  BY <1>2 DEF InnerLoop, Advance
<1>4. i \in Nat /\ Advance(i)
  BY <1>2 DEF IInv, LoopInv, LoopTyped, CursorTyped, InnerLoop
<1>5. /\ MapInv' /\ CursorTyped' /\ Counted'
      /\ getCapacity(atoms') = getCapacity(atoms)
  BY <1>4, AdvanceCounts DEF IInv, LoopInv, LoopTyped
<1>6. LoopTyped'
  BY <1>1, <1>3, <1>5 DEF IInv, LoopInv, LoopTyped
<1>7. Mine'
  BY <1>3 DEF Mine
<1>8. ASSUME shape' = "same"
      PROVE  /\ atoms' = atoms /\ shape = "same"
             /\ publicIterIndexToRealIndex(index)' # {}
             /\ iter'.public # 0 => Current' \in publicIterIndexToRealIndex(iter.public)'
  <2>1. atoms' = atoms /\ shape = "same"
    BY <1>3, <1>8
  <2>2. ASSUME i # 0
        PROVE  /\ Position(i) = publicIterIndexToRealIndex(i)
               /\ \A p \in Position(i) : Position(i) = {p}
    <3>1. i = iter.public
      BY <1>2, <2>2
    <3>2. Current \in publicIterIndexToRealIndex(i)
      BY <1>3, <2>1, <2>2, <3>1 DEF IInv, LoopInv, Steady
    <3>3. \A p \in publicIterIndexToRealIndex(i) : p = Current
      BY <1>1, <1>4, <3>2, RealIndexDef
    <3>4. Position(i) = {Current}
      BY <3>1 DEF Position, Current
    <3> QED
      BY <3>2, <3>3, <3>4
  <2>3. ASSUME iter'.public # 0
        PROVE  Current' \in publicIterIndexToRealIndex(iter.public)'
    <3>1. iter'.public = i + 1 /\ Current' \in publicIterIndexToRealIndex(i + 1)
      BY <1>4, <2>1, <2>2, <2>3, AdvanceSteady DEF IInv
    <3> QED
      BY <2>1, <3>1 DEF publicIterIndexToRealIndex
  <2>4. publicIterIndexToRealIndex(index)' = publicIterIndexToRealIndex(index)
    BY <1>3, <2>1 DEF publicIterIndexToRealIndex
  <2> QED
    BY <1>3, <2>1, <2>3, <2>4 DEF IInv, LoopInv, Steady
<1>9. Steady'
  BY <1>8 DEF Steady
<1>10. Pending'
  <2> SUFFICES ASSUME index' # 0, Undisturbed'
               PROVE  /\ \A k \in due' : Waiting(k, Position(index))'
                      /\ \A k \in done' : Behind(k, Position(index))'
    BY DEF Pending
  <2>1. shape' = "same" /\ atoms' = atoms /\ shape = "same" /\ Undisturbed
    BY <1>3, <1>8 DEF Undisturbed
  <2>2. Position(index) = publicIterIndexToRealIndex(index)
    BY <1>3, <2>1, SteadyPosition
  <2>3. Position(index)' = Position(index)
    <3>1. CASE index = iter'.public
      <4>1. Current' \in publicIterIndexToRealIndex(index)
        BY <1>3, <1>8, <2>1, <3>1 DEF publicIterIndexToRealIndex
      <4>2. index \in Nat
        BY <1>1 DEF IInv, LoopInv, LoopTyped
      <4>3. \A p \in publicIterIndexToRealIndex(index) : p = Current'
        BY <1>1, <4>1, <4>2, RealIndexDef
      <4>4. Position(index)' = {Current'}
        BY <1>3, <3>1 DEF Position, Current
      <4> QED
        BY <2>2, <4>1, <4>3, <4>4
    <3>2. CASE index # iter'.public
      BY <1>3, <2>1, <2>2, <3>2 DEF Position, publicIterIndexToRealIndex
    <3> QED
      BY <3>1, <3>2
  <2>4. (\A k \in due : Waiting(k, Position(index))) /\ (\A k \in done : Behind(k, Position(index)))
    BY <1>3, <2>1 DEF IInv, LoopInv, Pending
  <2>5. PICK at : at = Position(index)
    OBVIOUS
  <2>6. \A k : Waiting(k, at)' = Waiting(k, at) /\ Behind(k, at)' = Behind(k, at)
    BY <1>3, <2>1 DEF Waiting, Behind, IsNull
  <2>7. (\A k \in due : Waiting(k, at)') /\ (\A k \in done : Behind(k, at)')
    BY <2>4, <2>5, <2>6
  <2> QED
    BY <1>3, <2>3, <2>5, <2>7 DEF Waiting, Behind
<1> QED
  BY <1>5, <1>6, <1>7, <1>9, <1>10 DEF LoopInv

(***************************************************************************)
(* Every step                                                              *)
(***************************************************************************)
LEMMA InitInv == Init => IInv
<1> SUFFICES ASSUME Init PROVE IInv
  OBVIOUS
<1>1. MapInv
  BY InitMap
<1>2. PICK n \in Nat \ {0} : getCapacity(atoms) = n /\ DOMAIN atoms = 0 .. n - 1
  BY <1>1, TableFacts
<1>3. LoopTyped
  BY <1>2 DEF Init, LoopTyped, CursorTyped
<1>4. Counted
  <2>1. Current \in Positions(n) /\ iter.public = 0
    BY <1>2 DEF Init, Current, Positions
  <2>2. Rank(Current, n) \in Nat
    BY <2>1, RankDef
  <2> QED
    BY <1>2, <2>1, <2>2 DEF Counted
<1>5. Mine /\ Steady /\ Pending
  BY DEF Init, Mine, Steady, Pending
<1> QED
  BY <1>1, <1>3, <1>4, <1>5 DEF IInv, LoopInv

LEMMA UpdateStep ==
  ASSUME IInv, NEW k \in Keys, NEW v \in Values[kind], Update(k, v)
  PROVE  IInv'
<1>1. MapInv' /\ Keeps({}) /\ Live(atoms') = Live(atoms)
  BY UpdateMap DEF IInv
<1>2. PICK n \in Nat \ {0} : DOMAIN atoms = 0 .. n - 1
  BY TableFacts DEF IInv
<1>3. DOMAIN atoms' = DOMAIN atoms
  BY <1>2 DEF Update
<1>4. Enumerable(atoms') = Enumerable(atoms)
  BY <1>1 DEF Enumerable, Keeps
<1>5. LoopInv'
  BY <1>1, <1>3, <1>4, SameEntriesLoop DEF Update, loopVars
<1> QED
  BY <1>1, <1>5 DEF IInv

LEMMA InsertStep ==
  ASSUME IInv, NEW k \in Keys, NEW v \in Values[kind], Insert(k, v)
  PROVE  IInv'
<1>1. MapInv' /\ Keeps({})
  BY InsertMap DEF IInv
<1>2. LoopInv'
  BY <1>1, EditedLoop DEF Insert
<1> QED
  BY <1>1, <1>2 DEF IInv

LEMMA InsertAndGrowStep ==
  ASSUME IInv, NEW k \in Keys, NEW v \in Values[kind], InsertAndGrow(k, v)
  PROVE  IInv'
<1>1. /\ MapInv' /\ getCapacity(atoms') >= getCapacity(atoms)
      /\ getCapacity(atoms') \in Nat
  BY GrowMap DEF IInv
<1>2. Rehashed /\ UNCHANGED iter
  BY DEF InsertAndGrow
<1>3. LoopInv'
  BY <1>1, <1>2, GrownLoop
<1> QED
  BY <1>1, <1>3 DEF IInv

LEMMA DeleteStep ==
  ASSUME IInv, NEW s \in Live(atoms), DeletePairAt(s)
  PROVE  IInv'
<1>1. MapInv' /\ Keeps({atoms[s].key})
  BY DeleteMap DEF IInv
<1>2. LoopInv'
  BY <1>1, EditedLoop DEF DeletePairAt
<1> QED
  BY <1>1, <1>2 DEF IInv

LEMMA FoundLive ==
  ASSUME IInv, NEW k \in Keys, contains(k, atoms)
  PROVE  find(k, atoms) \in Live(atoms)
BY Lookup DEF IInv, MapInv

LEMMA HideStep ==
  ASSUME IInv, NEW k \in Keys, NEW e \in BOOLEAN, SetAtomPropertyIsEnumerable(k, e)
  PROVE  IInv'
<1>1. MapInv' /\ Keeps({k})
  BY HideMap DEF IInv
<1>2. LoopInv'
  BY <1>1, EditedLoop DEF SetAtomPropertyIsEnumerable
<1> QED
  BY <1>1, <1>2 DEF IInv

LEMMA CollectStep ==
  ASSUME IInv, NEW x \in WeaklyHeld, Collect(x)
  PROVE  IInv'
<1> DEFINE gone == {k \in Keys : x \in {k, bound[k]}}
<1>1. MapInv' /\ Keeps(gone)
  BY CollectMap DEF IInv
<1>2. due' = due \ gone /\ done' = done \ gone /\ UNCHANGED <<iter, index, shape, mine, atoms>>
  BY DEF Collect, tableVars, IInv, LoopInv, LoopTyped
<1> HIDE DEF gone
<1>3. LoopInv'
  BY <1>1, <1>2, SameEntriesLoop
<1> QED
  BY <1>1, <1>3 DEF IInv

LEMMA RecycleStep ==
  ASSUME IInv, NEW x, Recycle(x)
  PROVE  IInv'
<1>1. MapInv' /\ Keeps({})
  BY RecycleMap DEF IInv
<1>2. UNCHANGED <<iter, atoms, index, due, done, shape, mine>>
  BY DEF Recycle, tableVars, loopVars
<1>3. LoopInv'
  BY <1>1, <1>2, SameEntriesLoop
<1> QED
  BY <1>1, <1>3 DEF IInv

LEMMA StutterStep == ASSUME IInv, UNCHANGED vars PROVE IInv'
<1> USE DEF vars, tableVars, loopVars
<1>1. MapInv'
  BY DEF IInv, MapInv, MapTyped, WeaklyHeld, Sized, Bindings, Shown, IsNull
<1>2. LoopInv'
  <2>1. LoopTyped' /\ Counted' /\ Mine' /\ Steady'
    BY DEF IInv, LoopInv, LoopTyped, CursorTyped, Counted, Mine, Steady, Current,
           publicIterIndexToRealIndex
  <2>2. Pending'
    <3>1. Position(index)' = Position(index)
      BY DEF Position, publicIterIndexToRealIndex
    <3>2. PICK at : at = Position(index)
      OBVIOUS
    <3>3. \A k : Waiting(k, at)' = Waiting(k, at) /\ Behind(k, at)' = Behind(k, at)
      BY DEF Waiting, Behind, IsNull
    <3>4. Pending
      BY DEF IInv, LoopInv
    <3> QED
      BY <3>1, <3>2, <3>3, <3>4 DEF Pending, Undisturbed, Waiting, Behind
  <2> QED
    BY <2>1, <2>2 DEF LoopInv
<1> QED
  BY <1>1, <1>2 DEF IInv

LEMMA NextInv == IInv /\ [Next]_vars => IInv'
<1> SUFFICES ASSUME IInv, [Next]_vars PROVE IInv'
  OBVIOUS
<1>1. ASSUME NEW k \in Keys, NEW v \in Values[kind], Update(k, v) PROVE IInv'
  BY <1>1, UpdateStep
<1>2. ASSUME NEW k \in Keys, NEW v \in Values[kind], Insert(k, v) PROVE IInv'
  BY <1>2, InsertStep
<1>3. ASSUME NEW k \in Keys, NEW v \in Values[kind], InsertAndGrow(k, v) PROVE IInv'
  BY <1>3, InsertAndGrowStep
<1>4. ASSUME NEW k \in Keys, Remove(k) \/ GetDead(k) PROVE IInv'
  <2>1. contains(k, atoms) /\ DeletePairAt(find(k, atoms))
    BY <1>4 DEF Remove, GetDead
  <2> QED
    BY <2>1, FoundLive, DeleteStep
<1>5. ASSUME NEW k \in Hideable, NEW e \in BOOLEAN, SetAtomPropertyIsEnumerable(k, e) PROVE IInv'
  <2>1. k \in Keys
    BY HashtableAssumption DEF HashtableAssumption
  <2> QED
    BY <1>5, <2>1, HideStep
<1>6. ASSUME NEW x \in WeaklyHeld, Collect(x) PROVE IInv'
  BY <1>6, CollectStep
<1>7. ASSUME NEW x \in WeaklyHeld, Recycle(x) PROVE IInv'
  BY <1>7, RecycleStep
<1>8. CASE BeginLoop
  BY <1>8, BeginStep DEF IInv
<1>9. CASE ContinueLoop
  BY <1>9, ContinueStep DEF IInv
<1>10. CASE InnerLoop
  BY <1>10, InnerStep DEF IInv
<1>11. CASE UNCHANGED vars
  BY <1>11, StutterStep
<1> QED
  BY <1>1, <1>2, <1>3, <1>4, <1>5, <1>6, <1>7, <1>8, <1>9, <1>10, <1>11 DEF Next

(* The inductive invariant: the table is well formed and is the map that   *)
(* the calls have made of it (MapInv), and the loop under way stands       *)
(* between the keys it has reported and those it has to report (LoopInv).  *)
THEOREM Invariance == Spec => []IInv
<1>1. Init => IInv
  BY InitInv
<1>2. IInv /\ [Next]_vars => IInv'
  BY NextInv
<1> QED
  BY <1>1, <1>2, PTL DEF Spec

(* find returns for every key, whatever was deleted and however the table  *)
(* has grown: put's caller always leaves a free slot.                      *)
THEOREM FindReturnsAlways == Spec => []FindReturns
<1>1. IInv => FindReturns
  BY MapFindReturns DEF IInv
<1> QED
  BY <1>1, Invariance, PTL

LEMMA TypeCorrect == IInv => TypeOK
<1> SUFFICES ASSUME IInv PROVE TypeOK
  OBVIOUS
<1>1. PICK n \in Nat \ {0} : /\ getCapacity(atoms) = n /\ DOMAIN atoms = 0 .. n - 1
                             /\ PowerOfTwo(n) /\ atoms \in Tables(n) /\ Good(atoms, n)
                             /\ m_size \in Nat
  BY TableFacts DEF IInv
<1>2. ASSUME NEW i \in DOMAIN atoms
      PROVE  \/ atoms[i] \in {EmptyPair, DeletedPair}
             \/ atoms[i] \in [key : Keys, val : Values[kind], hidden : BOOLEAN]
  <2>1. atoms[i] \in Entries
    BY <1>1, EntryKey
  <2>2. CASE atoms[i] \in {EmptyPair, DeletedPair}
    BY <2>2
  <2>3. CASE atoms[i] \in [key : Keys, val : UNION {Values[k] : k \in Kinds}, hidden : BOOLEAN]
    <3>1. i \in Live(atoms)
      BY <2>3 DEF Live
    <3>2. atoms[i].val \in Values[kind]
      BY <3>1 DEF IInv, MapInv, Bindings
    <3> QED
      BY <2>3, <3>2
  <2> QED
    BY <2>1, <2>2, <2>3 DEF Entries
<1>3. m_size \in 0 .. n /\ hasDeletedItems \in BOOLEAN
  BY <1>1 DEF IInv, MapInv, Sized, Fits
<1>4. iter.public \in 0 .. 2 * n /\ iter.slot \in DOMAIN atoms
  <2>1. Current \in Positions(n) /\ iter.public \in Nat /\ iter.public <= Rank(Current, n) + 1
        /\ iter.slot \in DOMAIN atoms
    BY <1>1 DEF IInv, LoopInv, LoopTyped, CursorTyped, Counted, Current, Positions
  <2>2. Rank(Current, n) \in 0 .. 2 * n - 1
    BY <2>1, RankDef
  <2> QED
    BY <2>1, <2>2
<1> QED
  BY <1>1, <1>2, <1>3, <1>4 DEF TypeOK, IInv, MapInv, MapTyped, LoopInv, LoopTyped

(* The table implements a map: what find and the weak references give for  *)
(* a key is what the calls have bound to it, whatever was rehashed,        *)
(* deleted, hidden, pruned or cleared by the collector in between.         *)
THEOREM TableIsMapAlways == Spec => []TableIsMap
<1>1. IInv => TableIsMap
  BY TypeCorrect, MapIsMap DEF TableIsMap, IInv
<1> QED
  BY <1>1, Invariance, PTL

LEMMA OnceStep ==
  ASSUME IInv, [Next]_vars, index # 0, index' # index, Undisturbed
  PROVE  (Reported \cap done = {}) /\ (index' = 0 => due = {})
<1>1. PICK n \in Nat \ {0} : getCapacity(atoms) = n /\ atoms \in Tables(n) /\ Good(atoms, n)
  BY TableFacts DEF IInv
<1>2. ContinueLoop
  BY DEF Next, vars, loopVars, Update, Insert, InsertAndGrow, Remove, GetDead, DeletePairAt,
         SetAtomPropertyIsEnumerable, Collect, Recycle, BeginLoop, InnerLoop, Edited, Rehashed
<1>3. Advance(index) /\ index' = iter'.public
  BY <1>2 DEF ContinueLoop
<1>4. index \in Nat /\ index <= 2 * getCapacity(atoms)
  BY <1>1 DEF IInv, LoopInv, LoopTyped
<1>5. PICK p : Position(index) = {p}
  BY LoopPosition
<1>6. \A r : r \in Ahead(index) <=> r \in Enumerable(atoms) /\ Before(p, r)
  BY <1>1, <1>4, <1>5 DEF Ahead
<1>7. (\A k \in due : Waiting(k, {p})) /\ (\A k \in done : Behind(k, {p}))
  BY <1>5 DEF IInv, LoopInv, Pending
<1>8. ASSUME NEW k \in Reported \cap done PROVE FALSE
  <2>1. iter'.public # 0
    BY <1>8 DEF Reported
  <2>2. PICK q \in Ahead(index) : Reported = {atoms[q.slot].key}
    BY <1>3, <1>4, <2>1, Onward DEF IInv
  <2>3. PICK r \in Enumerable(atoms) : k = atoms[r.slot].key /\ ~Before(p, r)
    BY <1>7, <1>8 DEF Behind
  <2>4. q \in Enumerable(atoms) /\ Before(p, q) /\ k = atoms[q.slot].key
    BY <1>6, <1>8, <2>2
  <2>5. q.slot \in Live(atoms) /\ r.slot \in Live(atoms)
        /\ (q.slot = r.slot => q = r)
    BY <1>1, <2>3, <2>4, EnumerableDef
  <2>6. q.slot = r.slot
    BY <1>1, <2>3, <2>4, <2>5, KeyOnce
  <2> QED
    BY <2>3, <2>4, <2>5, <2>6
<1>9. ASSUME index' = 0, NEW k \in due PROVE FALSE
  <2>1. PICK r \in Enumerable(atoms) : ~IsNull(atoms[r.slot]) /\ Before(p, r)
    BY <1>7 DEF Waiting
  <2>2. r \in Alive(Ahead(index))
    BY <1>6, <2>1 DEF Alive
  <2> QED
    BY <1>3, <1>4, <1>9, <2>2, NotOver DEF IInv
<1> QED
  BY <1>8, <1>9

(* A loop reports no key twice and misses none that was there throughout,  *)
(* unless the table was rehashed, or edited while an inner loop had taken  *)
(* the cursor.                                                             *)
THEOREM EnumeratesOnceAlways == Spec => EnumeratesOnce
<1>1. IInv /\ [Next]_vars =>
        [index # 0 /\ index' # index /\ Undisturbed
           => (Reported \cap done = {}) /\ (index' = 0 => due = {})]_vars
  BY OnceStep
<1> QED
  BY <1>1, Invariance, PTL DEF Spec, EnumeratesOnce
=============================================================================
