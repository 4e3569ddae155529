------------------------------ MODULE DriverProofs --------------------------
(***************************************************************************)
(* Proofs about the two drivers: the concrete one, and the servers that the*)
(* tests of the differential one start.                                    *)
(***************************************************************************)
EXTENDS ConcreteDriver, Harness, FiniteSetTheorems, SequenceTheorems,
        WellFoundedInduction, TLAPS

-----------------------------------------------------------------------------
(***************************************************************************)
(* Proofs about the concrete driver, for words, shifts, seeds and scripts  *)
(* of any size.                                                            *)
(*                                                                         *)
(* The stream: xoring a word with itself shifted keeps the highest bit     *)
(* (right shift) or the lowest (left shift), so it is never 0.             *)
(*                                                                         *)
(* The verdict: while a rule runs, what has been recorded is what the part *)
(* of its script that has been executed deserves; between two rules, what  *)
(* is counted and reported is what the seeds so far deserve.               *)
(***************************************************************************)

-----------------------------------------------------------------------------
(***************************************************************************)
(* The stream                                                              *)
(***************************************************************************)
\* A word that is not 0 has a lowest bit.
LEMMA LowestBit ==
    ASSUME NEW x \in Word, x # {}
    PROVE  \E b \in x : \A c \in x : b <= c
<1> DEFINE upTo(b) == {c \in x : c <= b}
           prefixes == {upTo(b) : b \in x}
<1>1. x \subseteq Int
  BY WidthAssumption DEF Word
<1>2. IsFiniteSet(x)
  <2>1. IsFiniteSet(0..(Width - 1))
    BY FS_Interval, WidthAssumption
  <2>2. x \subseteq 0..(Width - 1)
    BY DEF Word
  <2> QED
    BY <2>1, <2>2, FS_Subset
<1>3. prefixes \subseteq FiniteSubsetsOf(x)
  <2>1. \A y \in SUBSET x : y \in FiniteSubsetsOf(x)
    BY <1>2, FS_Subset DEF FiniteSubsetsOf
  <2> QED
    BY <2>1
<1>4. PICK p \in prefixes : \A q \in prefixes : ~ (<<q, p>> \in StrictSubsetOrdering(x))
  <2>1. prefixes # {}
    OBVIOUS
  <2> HIDE DEF prefixes
  <2>2. IsWellFoundedOn(StrictSubsetOrdering(x), FiniteSubsetsOf(x))
    BY FS_StrictSubsetOrderingWellFounded
  <2> QED
    BY <2>1, <2>2, <1>3, WFMin
<1>5. PICK b \in x : p = upTo(b)
  OBVIOUS
<1>6. \A c \in x : b <= c
  <2> SUFFICES ASSUME NEW c \in x, c < b PROVE FALSE
    BY <1>1
  <2>1. b \in Int /\ c \in Int
    BY <1>1
  <2>2. b \in upTo(b) /\ b \notin upTo(c)
    BY <2>1
  <2>3. upTo(c) \subseteq upTo(b)
    <3>1. \A d \in x : d <= c => d <= b
      BY <1>1, <2>1
    <3> QED
      BY <3>1
  <2>4. upTo(c) \in prefixes /\ upTo(c) \in SUBSET x /\ upTo(b) \in SUBSET x
    OBVIOUS
  <2> HIDE DEF upTo, prefixes
  <2>5. <<upTo(c), upTo(b)>> \in StrictSubsetOrdering(x)
    BY <2>2, <2>3, <2>4 DEF StrictSubsetOrdering
  <2> QED
    BY <2>4, <2>5, <1>4, <1>5
<1> QED
  BY <1>6

\* And it has a highest one.
LEMMA HighestBit ==
    ASSUME NEW x \in Word, x # {}
    PROVE  \E b \in x : \A c \in x : c <= b
<1> DEFINE mirror == {Width - 1 - c : c \in x}
<1>1. mirror \in Word /\ mirror # {}
  <2>1. \A c \in x : Width - 1 - c \in 0..(Width - 1)
    BY WidthAssumption DEF Word
  <2>2. mirror # {}
    OBVIOUS
  <2> QED
    BY <2>1, <2>2 DEF Word
<1>2. PICK b \in mirror : \A c \in mirror : b <= c
  <2> HIDE DEF mirror
  <2> QED
    BY <1>1, LowestBit
<1>3. PICK a \in x : b = Width - 1 - a
  BY <1>2
<1>4. \A c \in x : Width - 1 - a <= Width - 1 - c
  BY <1>2, <1>3
<1> QED
  BY <1>4, WidthAssumption DEF Word

\* `x ^= x >> n` keeps the highest bit.
LEMMA XorShiftRight ==
    ASSUME NEW x \in Word, x # {}, NEW n \in Nat \ {0}
    PROVE  Xor(x, ShiftRight(x, n)) \in Word \ {{}}
<1>1. PICK b \in x : \A c \in x : c <= b
  BY HighestBit
<1>2. b \notin ShiftRight(x, n)
  BY <1>1, WidthAssumption DEF ShiftRight, Word
<1>3. ShiftRight(x, n) \in Word
  BY WidthAssumption DEF ShiftRight, Word
<1> QED
  BY <1>2, <1>3 DEF Xor, Word

\* `x ^= x << n` keeps the lowest.
LEMMA XorShiftLeft ==
    ASSUME NEW x \in Word, x # {}, NEW n \in Nat \ {0}
    PROVE  Xor(x, ShiftLeft(x, n)) \in Word \ {{}}
<1>1. PICK b \in x : \A c \in x : b <= c
  BY LowestBit
<1>2. b \notin ShiftLeft(x, n)
  BY <1>1, WidthAssumption DEF ShiftLeft, Word
<1>3. ShiftLeft(x, n) \in Word
  BY WidthAssumption DEF ShiftLeft, Word
<1> QED
  BY <1>2, <1>3 DEF Xor, Word

\* next_u64 leaves a stream that is not 0, whatever it finds.
LEMMA NextStreamNonZero ==
    ASSUME NEW x \in Word
    PROVE  NextStream(x) \in Word \ {{}}
<1> DEFINE x0 == IF x = {} THEN Golden ELSE x
           x1 == Xor(x0, ShiftRight(x0, ShiftA))
           x2 == Xor(x1, ShiftLeft(x1, ShiftB))
           x3 == Xor(x2, ShiftRight(x2, ShiftC))
<1>0. /\ ShiftA \in Nat \ {0} /\ ShiftB \in Nat \ {0} /\ ShiftC \in Nat \ {0}
      /\ Golden \in Word /\ Golden # {}
  BY WidthAssumption
<1>1. x0 \in Word \ {{}}
  BY <1>0
<1> HIDE DEF x0
<1>2. x1 \in Word \ {{}}
  BY <1>0, <1>1, XorShiftRight
<1> HIDE DEF x1
<1>3. x2 \in Word \ {{}}
  BY <1>0, <1>2, XorShiftLeft
<1> HIDE DEF x2
<1>4. x3 \in Word \ {{}}
  BY <1>0, <1>3, XorShiftRight
<1>5. NextStream(x) = x3
  BY DEF NextStream, Scrambled, x0, x1, x2
<1> QED
  BY <1>4, <1>5

\* A seed's stream has its lowest bit set.
LEMMA StartNonZero == \A s \in 0..N : StartOf(s) \in Word \ {{}}
<1>1. 0 \in 0..(Width - 1)
  BY WidthAssumption
<1> QED
  BY <1>1, SeedsAssumption DEF StartOf, Word

-----------------------------------------------------------------------------
(***************************************************************************)
(* The streams of the seeds.  A number is its half and whether it is odd,  *)
(* so numbers with the same bits are equal, and with the lowest bit set    *)
(* two seeds have the same bits exactly when their halves are equal.       *)
(***************************************************************************)
\* A set of natural numbers that is not empty has a least element.
LEMMA LeastNatural ==
    ASSUME NEW T \in SUBSET Nat, T # {}
    PROVE  \E n \in T : \A m \in T : n <= m
<1>1. PICK n \in T : \A m \in T : ~ (<<m, n>> \in OpToRel(<, Nat))
  <2>1. IsWellFoundedOn(OpToRel(<, Nat), Nat)
    BY NatLessThanWellFounded
  <2> QED
    BY <2>1, WFMin
<1>2. \A m \in T : n <= m
  <2> SUFFICES ASSUME NEW m \in T, ~(n <= m) PROVE FALSE
    OBVIOUS
  <2>1. m \in Nat /\ n \in Nat /\ m < n
    OBVIOUS
  <2>2. <<m, n>> \in OpToRel(<, Nat)
    BY <2>1 DEF OpToRel
  <2> QED
    BY <1>1, <2>2
<1> QED
  BY <1>2

\* What the bits of n are, given those of its half
Doubled(half, n) == {b + 1 : b \in half} \cup (IF n % 2 = 1 THEN {0} ELSE {})

\* f gives the bits of the numbers up to m.
Halves(f, m) == f = [n \in 0..m |-> IF n = 0 THEN {} ELSE Doubled(f[n \div 2], n)]

\* The half of a number is smaller.
LEMMA HalfIsSmaller ==
    ASSUME NEW n \in Nat, n # 0
    PROVE  n \div 2 \in 0..(n - 1)
  OBVIOUS

\* The recursion that defines Bits is well founded.
LEMMA HalvesExists == \A m \in Nat : \E f : Halves(f, m)
<1> DEFINE T == {m \in Nat : ~ \E f : Halves(f, m)}
<1> SUFFICES ASSUME T # {} PROVE FALSE
  OBVIOUS
<1>1. PICK m \in T : \A k \in T : m <= k
  <2>1. T \in SUBSET Nat
    OBVIOUS
  <2> HIDE DEF T
  <2> QED
    BY <2>1, LeastNatural
<1>2. CASE m = 0
  <2> DEFINE g == [n \in 0..0 |-> {}]
  <2>1. g = [n \in 0..0 |-> IF n = 0 THEN {} ELSE Doubled(g[n \div 2], n)]
    OBVIOUS
  <2> HIDE DEF g
  <2> QED
    BY <1>2, <2>1 DEF Halves
<1>3. CASE m # 0
  <2>1. m \in Nat \ {0} /\ m - 1 \in Nat /\ ~ (m <= m - 1)
    BY <1>3
  <2>2. PICK f : Halves(f, m - 1)
    BY <1>1, <2>1
  <2> DEFINE g == [n \in 0..m |-> IF n < m THEN f[n] ELSE Doubled(f[n \div 2], n)]
  <2>3. \A n \in 0..m : n # 0 => g[n \div 2] = f[n \div 2]
    <3> SUFFICES ASSUME NEW n \in 0..m, n # 0 PROVE g[n \div 2] = f[n \div 2]
      OBVIOUS
    <3>1. n \div 2 \in 0..(n - 1)
      BY HalfIsSmaller
    <3>2. n \div 2 \in 0..m /\ n \div 2 < m
      BY <2>1, <3>1
    <3> QED
      BY <3>2
  <2>4. \A n \in 0..m : g[n] = IF n = 0 THEN {} ELSE Doubled(f[n \div 2], n)
    <3> SUFFICES ASSUME NEW n \in 0..m
                 PROVE  g[n] = IF n = 0 THEN {} ELSE Doubled(f[n \div 2], n)
      OBVIOUS
    <3>1. CASE n < m
      <4>1. n \in 0..(m - 1) /\ g[n] = f[n]
        BY <2>1, <3>1
      <4>2. f[n] = IF n = 0 THEN {} ELSE Doubled(f[n \div 2], n)
        BY <2>2, <4>1 DEF Halves
      <4> QED
        BY <4>1, <4>2
    <3>2. CASE ~ (n < m)
      <4>1. n # 0
        BY <2>1, <3>2
      <4> QED
        BY <3>2, <4>1
    <3> QED
      BY <3>1, <3>2
  <2>5. g = [n \in 0..m |-> g[n]]
    OBVIOUS
  <2> HIDE DEF g
  <2>6. \A n \in 0..m : g[n] = IF n = 0 THEN {} ELSE Doubled(g[n \div 2], n)
    BY <2>3, <2>4
  <2>7. g = [n \in 0..m |-> IF n = 0 THEN {} ELSE Doubled(g[n \div 2], n)]
    BY <2>5, <2>6
  <2>8. Halves(g, m)
    BY <2>7 DEF Halves
  <2> QED
    BY <2>8
<1> QED
  BY <1>2, <1>3

\* The defining equation of Bits
LEMMA BitsOfHalf ==
    \A n \in 0..N : Bits[n] = IF n = 0 THEN {} ELSE Doubled(Bits[n \div 2], n)
<1>1. \E f : Halves(f, N)
  BY HalvesExists, CountsAssumption
<1>2. Halves(Bits, N)
  BY <1>1 DEF Bits, Halves, Doubled
<1> QED
  BY <1>2 DEF Halves

\* The bits are natural numbers, and 0 is one of them if the number is odd.
LEMMA BitsAreNaturals == \A n \in 0..N : Bits[n] \subseteq Nat
  BY SeedsAssumption DEF Word

LEMMA OddBit ==
    ASSUME NEW n \in 0..N
    PROVE  0 \in Bits[n] <=> n % 2 = 1
<1>1. CASE n = 0
  <2>1. Bits[n] = {}
    BY <1>1, BitsOfHalf
  <2>2. n % 2 # 1
    BY <1>1
  <2> QED
    BY <2>1, <2>2
<1>2. CASE n # 0
  <2>1. n \div 2 \in 0..N
    BY <1>2, HalfIsSmaller, CountsAssumption
  <2>2. \A b \in Bits[n \div 2] : b + 1 # 0
    BY <2>1, BitsAreNaturals
  <2>3. Bits[n] = Doubled(Bits[n \div 2], n)
    BY <1>2, BitsOfHalf
  <2> QED
    BY <2>2, <2>3 DEF Doubled
<1> QED
  BY <1>1, <1>2

\* The other bits are those of the half.
LEMMA UpperBits ==
    ASSUME NEW n \in 0..N
    PROVE  /\ n \div 2 \in 0..N
           /\ \A b \in Nat : b + 1 \in Bits[n] <=> b \in Bits[n \div 2]
<1>0. n \div 2 \in 0..N
  BY CountsAssumption
<1>1. CASE n = 0
  <2>1. Bits[n] = {} /\ n \div 2 = 0
    BY <1>1, BitsOfHalf
  <2> QED
    BY <1>0, <1>1, <2>1
<1>2. CASE n # 0
  <2>1. \A b \in Bits[n \div 2] : b \in Nat
    BY <1>0, BitsAreNaturals
  <2>2. Bits[n] = Doubled(Bits[n \div 2], n)
    BY <1>2, BitsOfHalf
  <2> QED
    BY <1>0, <2>1, <2>2 DEF Doubled
<1> QED
  BY <1>1, <1>2

\* A number is its half and whether it is odd.
LEMMA HalfAndParity ==
    ASSUME NEW m \in Nat, NEW n \in Nat, m \div 2 = n \div 2, m % 2 = 1 <=> n % 2 = 1
    PROVE  m = n
<1>1. m = 2 * (m \div 2) + (m % 2) /\ m % 2 \in 0..1
  OBVIOUS
<1>2. n = 2 * (n \div 2) + (n % 2) /\ n % 2 \in 0..1
  OBVIOUS
<1> QED
  BY <1>1, <1>2

\* Only 0 has no bits.
LEMMA NoBits == \A n \in 0..N : Bits[n] = {} => n = 0
<1> DEFINE T == {n \in 0..N : Bits[n] = {} /\ n # 0}
<1> SUFFICES ASSUME T # {} PROVE FALSE
  OBVIOUS
<1>1. PICK n \in T : \A k \in T : n <= k
  <2>1. T \in SUBSET Nat
    OBVIOUS
  <2> HIDE DEF T
  <2> QED
    BY <2>1, LeastNatural
<1>2. n \in 0..N /\ n \in Nat /\ n # 0 /\ Bits[n] = {}
  OBVIOUS
<1>3. n \div 2 \in 0..N /\ n \div 2 < n
  BY <1>2, UpperBits, HalfIsSmaller
<1>4. Bits[n \div 2] = {}
  BY <1>2, <1>3, UpperBits, BitsAreNaturals
<1>5. n \div 2 # 0
  <2>1. ~ (n % 2 = 1)
    BY <1>2, OddBit
  <2> QED
    BY <1>2, <2>1, HalfAndParity
<1> QED
  BY <1>1, <1>2, <1>3, <1>4, <1>5

\* Numbers with the same bits are equal.
LEMMA BitsDiffer == \A m, n \in 0..N : Bits[m] = Bits[n] => m = n
<1> DEFINE T == {n \in 0..N : \E m \in 0..N : Bits[m] = Bits[n] /\ m # n}
<1> SUFFICES ASSUME T # {} PROVE FALSE
  OBVIOUS
<1>1. PICK n \in T : \A k \in T : n <= k
  <2>1. T \in SUBSET Nat
    OBVIOUS
  <2> HIDE DEF T
  <2> QED
    BY <2>1, LeastNatural
<1>2. PICK m \in 0..N : Bits[m] = Bits[n] /\ m # n
  OBVIOUS
<1>3. n \in 0..N /\ n \in Nat /\ m \in Nat
  OBVIOUS
<1>4. n # 0
  <2>1. CASE n = 0
    <3>1. Bits[m] = {}
      BY <1>2, <2>1, BitsOfHalf, <1>3
    <3> QED
      BY <1>2, <2>1, <3>1, NoBits
  <2> QED
    BY <2>1
<1>5. m \div 2 \in 0..N /\ n \div 2 \in 0..N /\ n \div 2 < n
  BY <1>3, <1>4, UpperBits, HalfIsSmaller
<1>6. Bits[m \div 2] = Bits[n \div 2]
  <2>1. \A b \in Nat : b \in Bits[m \div 2] <=> b \in Bits[n \div 2]
    BY <1>2, <1>3, UpperBits
  <2> QED
    BY <1>5, <2>1, BitsAreNaturals
<1>7. m \div 2 # n \div 2
  <2>1. m % 2 = 1 <=> n % 2 = 1
    BY <1>2, <1>3, OddBit
  <2> QED
    BY <1>2, <1>3, <2>1, HalfAndParity
<1> QED
  BY <1>1, <1>3, <1>5, <1>6, <1>7

\* Two seeds begin on the same stream exactly when their halves are equal.
LEMMA SameStart ==
    \A s, t \in 0..N : StartOf(s) = StartOf(t) <=> s \div 2 = t \div 2
<1> SUFFICES ASSUME NEW s \in 0..N, NEW t \in 0..N
             PROVE  StartOf(s) = StartOf(t) <=> s \div 2 = t \div 2
  OBVIOUS
<1>1. /\ s \div 2 \in 0..N /\ t \div 2 \in 0..N
      /\ \A b \in Nat : b + 1 \in Bits[s] <=> b \in Bits[s \div 2]
      /\ \A b \in Nat : b + 1 \in Bits[t] <=> b \in Bits[t \div 2]
  BY UpperBits
<1>2. Bits[s] \subseteq Nat /\ Bits[t] \subseteq Nat
  BY BitsAreNaturals
<1>3. ASSUME StartOf(s) = StartOf(t) PROVE s \div 2 = t \div 2
  <2>1. \A b \in Nat : b + 1 \in StartOf(s) <=> b + 1 \in Bits[s]
    BY DEF StartOf
  <2>2. \A b \in Nat : b + 1 \in StartOf(t) <=> b + 1 \in Bits[t]
    BY DEF StartOf
  <2>3. \A b \in Nat : b \in Bits[s \div 2] <=> b \in Bits[t \div 2]
    BY <1>1, <1>3, <2>1, <2>2
  <2>4. Bits[s \div 2] = Bits[t \div 2]
    BY <1>1, <2>3, BitsAreNaturals
  <2> QED
    BY <1>1, <2>4, BitsDiffer
<1>4. ASSUME s \div 2 = t \div 2 PROVE StartOf(s) = StartOf(t)
  <2>1. \A b \in Nat : b + 1 \in Bits[s] <=> b + 1 \in Bits[t]
    BY <1>1, <1>4
  <2>2. \A b \in Nat \ {0} : b \in Bits[s] <=> b \in Bits[t]
    <3> SUFFICES ASSUME NEW b \in Nat \ {0} PROVE b \in Bits[s] <=> b \in Bits[t]
      OBVIOUS
    <3>1. b - 1 \in Nat /\ (b - 1) + 1 = b
      OBVIOUS
    <3> QED
      BY <2>1, <3>1
  <2> QED
    BY <1>2, <2>2 DEF StartOf
<1> QED
  BY <1>3, <1>4

\* So the seeds 1..N begin on N \div 2 + 1 streams.
LEMMA StartsAreCounted == Cardinality({StartOf(s) : s \in 1..N}) = N \div 2 + 1
<1> DEFINE low == 0..(N \div 2)
           starts == {StartOf(s) : s \in 1..N}
           first(k) == IF k = 0 THEN 1 ELSE 2 * k
           f == [k \in low |-> StartOf(first(k))]
<1>0. N \in Nat \ {0} /\ N \div 2 \in Nat
  BY CountsAssumption
<1>1. \A k \in low : first(k) \in 1..N /\ first(k) \div 2 = k
  <2> SUFFICES ASSUME NEW k \in low PROVE first(k) \in 1..N /\ first(k) \div 2 = k
    OBVIOUS
  <2>1. CASE k = 0
    BY <1>0, <2>1
  <2>2. CASE k # 0
    <3>1. 2 * (N \div 2) <= N
      BY <1>0
    <3>2. k \in Nat /\ k <= N \div 2 /\ k >= 1 /\ first(k) = 2 * k
      BY <1>0, <2>2
    <3> HIDE DEF low, first
    <3>3. 2 * k \in 1..N
      BY <1>0, <3>1, <3>2
    <3>4. (2 * k) \div 2 = k
      BY <3>2
    <3> QED
      BY <3>2, <3>3, <3>4
  <2> QED
    BY <2>1, <2>2
<1> HIDE DEF first
<1>2. f \in Injection(low, starts)
  <2>1. f \in [low -> starts]
    BY <1>1
  <2>2. \A j, k \in low : f[j] = f[k] => j = k
    <3> SUFFICES ASSUME NEW j \in low, NEW k \in low, f[j] = f[k] PROVE j = k
      OBVIOUS
    <3>1. StartOf(first(j)) = StartOf(first(k)) /\ first(j) \in 0..N /\ first(k) \in 0..N
      BY <1>0, <1>1
    <3>2. first(j) \div 2 = first(k) \div 2
      BY <3>1, SameStart
    <3> QED
      BY <1>1, <3>2
  <2> HIDE DEF f, low, starts
  <2> QED
    BY <2>1, <2>2 DEF Injection, IsInjective
<1>3. f \in Surjection(low, starts)
  <2>1. f \in [low -> starts]
    BY <1>1
  <2>2. \A x \in starts : \E k \in low : f[k] = x
    <3> SUFFICES ASSUME NEW s \in 1..N PROVE \E k \in low : f[k] = StartOf(s)
      OBVIOUS
    <3>1. s \div 2 \in low
      BY <1>0
    <3>2. first(s \div 2) \in 0..N /\ first(s \div 2) \div 2 = s \div 2 /\ s \in 0..N
      BY <1>0, <1>1, <3>1
    <3>3. StartOf(first(s \div 2)) = StartOf(s)
      BY <3>2, SameStart
    <3> QED
      BY <3>1, <3>3
  <2> HIDE DEF f, low, starts
  <2> QED
    BY <2>1, <2>2 DEF Surjection
<1>4. f \in Bijection(low, starts)
  BY <1>2, <1>3 DEF Bijection
<1>5. IsFiniteSet(low) /\ Cardinality(low) = N \div 2 + 1
  <2>1. 0 \in Int /\ N \div 2 \in Int /\ ~ (0 > N \div 2) /\ (N \div 2) - 0 + 1 = N \div 2 + 1
    BY <1>0
  <2> QED
    BY <2>1, FS_Interval
<1> HIDE DEF f, low, starts
<1>6. Cardinality(starts) = Cardinality(low)
  BY <1>4, <1>5, FS_Bijection DEF ExistsBijection
<1> QED
  BY <1>5, <1>6 DEF starts

-----------------------------------------------------------------------------
(***************************************************************************)
(* The verdict                                                             *)
(***************************************************************************)
Script == rule[StartOf(seed)]
Executed == Len(Script) - Len(todo)

\* What the first n events of the script deserve
AssumedIn(n) == \E i \in 1..n : Script[i] = "assume"
AssertedIn(n) ==
    \E i \in 1..n : Script[i] = "assert" /\ \A j \in 1..(i - 1) : Script[j] # "assume"

\* Seeds before s that were rejected
RejectedBefore(s) == {t \in 1..(s - 1) : Rejects(t)}

TypeInv ==
    /\ rule \in [{StartOf(s) : s \in 1..N} -> Scripts]
    /\ phase \in {"begin", "rule", "done"}
    /\ seed \in 1..(N + 1) /\ (phase = "done" <=> seed = N + 1)
    /\ stream \in Word /\ rejected \in BOOLEAN /\ failed \in BOOLEAN
    /\ todo \in Seq(Event)
    /\ failures \in Seq(1..N)

StreamInv == phase = "rule" => stream # {}

RunningInv ==
    phase = "rule" =>
        /\ Len(todo) <= Len(Script)
        /\ \A j \in 1..Len(todo) : todo[j] = Script[Executed + j]
        /\ rejected <=> AssumedIn(Executed)
        /\ failed <=> AssertedIn(Executed)

CountInv == discarded = Cardinality(RejectedBefore(seed))

DriverInv == TypeInv /\ StreamInv /\ RunningInv /\ CountInv /\ FailuresReproduce

\* The script of every seed is a sequence of events.
LEMMA ScriptIsASequence ==
    ASSUME TypeInv, NEW s \in 1..N
    PROVE  /\ rule[StartOf(s)] \in Scripts
           /\ rule[StartOf(s)] \in Seq(Event)
           /\ DOMAIN rule[StartOf(s)] = 1..Len(rule[StartOf(s)])
           /\ Len(rule[StartOf(s)]) \in Nat
<1>1. rule[StartOf(s)] \in Scripts
  BY DEF TypeInv
<1>2. rule[StartOf(s)] \in Seq(Event)
  BY <1>1, ScriptsAssumption
<1> QED
  BY <1>1, <1>2, LenProperties

\* An assertion that fails first means no assumption fails at all.
LEMMA RefutedIsNotRejected ==
    ASSUME TypeInv, NEW s \in 1..N, Refutes(s)
    PROVE  ~ Rejects(s)
<1> DEFINE script == rule[StartOf(s)]
<1>1. /\ script \in Scripts /\ DOMAIN script = 1..Len(script) /\ Len(script) \in Nat
  BY ScriptIsASequence
<1>2. PICK i \in DOMAIN script :
         script[i] = "assert" /\ \A j \in 1..(i - 1) : script[j] # "assume"
  BY DEF Refutes
<1>3. ASSUME NEW j \in DOMAIN script, script[j] = "assume" PROVE FALSE
  <2>1. j < i
    BY <1>1, <1>2, <1>3, ScriptsAssumption
  <2> QED
    BY <1>1, <1>2, <1>3, <2>1
<1> QED
  BY <1>3 DEF Rejects

LEMMA DriverInitInv == DriverInit => DriverInv
<1> SUFFICES ASSUME DriverInit PROVE DriverInv
  OBVIOUS
<1> USE DEF DriverInit
<1>1. TypeInv
  <2>1. seed \in 1..(N + 1) /\ seed # N + 1 /\ phase # "done"
    BY CountsAssumption
  <2>2. stream \in Word
    BY DEF Word
  <2>3. todo \in Seq(Event) /\ failures \in Seq(1..N)
    OBVIOUS
  <2> QED
    BY <2>1, <2>2, <2>3 DEF TypeInv
<1>2. CountInv
  <2>1. RejectedBefore(1) = {}
    BY DEF RejectedBefore
  <2> QED
    BY <2>1, FS_EmptySet DEF CountInv
<1>3. FailuresReproduce
  BY DEF FailuresReproduce
<1> QED
  BY <1>1, <1>2, <1>3 DEF DriverInv, StreamInv, RunningInv

\* One more event of the script, and what the events so far deserve.
LEMMA CallAdvances ==
    ASSUME DriverInv, NEW event \in Event, Call(event)
    PROVE  /\ Executed \in Nat /\ Executed + 1 \in 1..Len(Script)
           /\ Script[Executed + 1] = event
           /\ Executed' = Executed + 1 /\ Script' = Script
           /\ todo' \in Seq(Event) /\ Len(todo') <= Len(Script)
           /\ \A j \in 1..Len(todo') : todo'[j] = Script[Executed + 1 + j]
           /\ AssumedIn(Executed + 1) <=> AssumedIn(Executed) \/ event = "assume"
           /\ AssertedIn(Executed + 1) <=>
                 AssertedIn(Executed) \/ (event = "assert" /\ ~ AssumedIn(Executed))
<1>1. TypeInv /\ phase = "rule" /\ RunningInv /\ seed \in 1..N
  BY CountsAssumption DEF DriverInv, Call, TypeInv
<1>2. Script \in Seq(Event) /\ Len(Script) \in Nat
  BY <1>1, ScriptIsASequence DEF Script
<1>3. todo \in Seq(Event) /\ todo # <<>> /\ todo' = Tail(todo) /\ Head(todo) = event
  BY <1>1 DEF TypeInv, Call
<1>4. Len(todo) \in Nat \ {0} /\ Head(todo) = todo[1]
  BY <1>3, EmptySeq, LenProperties
<1>5. /\ todo' \in Seq(Event) /\ Len(todo') = Len(todo) - 1
      /\ \A j \in 1..Len(todo') : todo'[j] = todo[j + 1]
  BY <1>3, HeadTailProperties
<1>6. Script' = Script
  BY DEF Call, Script
<1>7. Executed \in Nat /\ Executed + 1 \in 1..Len(Script) /\ Executed' = Executed + 1
  BY <1>1, <1>2, <1>4, <1>5, <1>6 DEF Executed, RunningInv
<1>8. Script[Executed + 1] = event
  BY <1>1, <1>3, <1>4 DEF RunningInv
<1>9. \A j \in 1..Len(todo') : todo'[j] = Script[Executed + 1 + j]
  <2> SUFFICES ASSUME NEW j \in 1..Len(todo') PROVE todo'[j] = Script[Executed + 1 + j]
    OBVIOUS
  <2>1. todo'[j] = todo[j + 1] /\ j + 1 \in 1..Len(todo)
    BY <1>4, <1>5
  <2>2. todo[j + 1] = Script[Executed + (j + 1)]
    BY <1>1, <2>1 DEF RunningInv
  <2>3. Executed + (j + 1) = Executed + 1 + j
    BY <1>4, <1>5, <1>7
  <2> QED
    BY <2>1, <2>2, <2>3
<1>10. \A n \in Nat : 1..(n + 1) = (1..n) \cup {n + 1}
  OBVIOUS
<1>11. AssumedIn(Executed + 1) <=> AssumedIn(Executed) \/ event = "assume"
  BY <1>7, <1>8, <1>10 DEF AssumedIn
<1>12. AssertedIn(Executed + 1) <=>
          AssertedIn(Executed) \/ (event = "assert" /\ ~ AssumedIn(Executed))
  <2>1. (Executed + 1) - 1 = Executed
    BY <1>7
  <2> QED
    BY <1>7, <1>8, <1>10, <2>1 DEF AssertedIn, AssumedIn
<1> QED
  BY <1>2, <1>4, <1>5, <1>6, <1>7, <1>8, <1>9, <1>11, <1>12, <1>1 DEF RunningInv

\* The parts of the invariant that a call of the rule leaves alone
LEMMA CallKeepsVerdict ==
    ASSUME DriverInv, NEW event \in Event, Call(event)
    PROVE  CountInv' /\ FailuresReproduce'
<1>1. /\ rule' = rule /\ seed' = seed /\ discarded' = discarded /\ failures' = failures
  BY DEF Call
<1>2. \A s : (Rejects(s)' <=> Rejects(s)) /\ (Refutes(s)' <=> Refutes(s))
  BY <1>1 DEF Rejects, Refutes
<1>3. CountInv'
  BY <1>1, <1>2 DEF DriverInv, CountInv, RejectedBefore
<1>4. FailuresReproduce'
  BY <1>1, <1>2 DEF DriverInv, FailuresReproduce
<1> QED
  BY <1>3, <1>4

\* A call keeps RunningInv if it records what the event deserves.
LEMMA RecordedAdvances ==
    ASSUME DriverInv, NEW event \in Event, Call(event),
           rejected' <=> AssumedIn(Executed + 1), failed' <=> AssertedIn(Executed + 1)
    PROVE  RunningInv'
<1>1. Executed' = Executed + 1 /\ Script' = Script
  BY CallAdvances
<1>2. AssumedIn(Executed)' <=> AssumedIn(Executed + 1)
  BY <1>1 DEF AssumedIn
<1>3. AssertedIn(Executed)' <=> AssertedIn(Executed + 1)
  BY <1>1 DEF AssertedIn
<1>4. /\ Len(todo') <= Len(Script')
      /\ \A j \in 1..Len(todo') : todo'[j] = Script'[Executed' + j]
  BY <1>1, CallAdvances
<1> QED
  BY <1>2, <1>3, <1>4 DEF RunningInv

LEMMA BeginPreserves == DriverInv /\ Begin => DriverInv'
<1> SUFFICES ASSUME DriverInv, Begin PROVE DriverInv'
  OBVIOUS
<1>1. TypeInv /\ seed \in 1..N
  BY CountsAssumption DEF DriverInv, Begin, TypeInv
<1>2. Script \in Seq(Event) /\ Len(Script) \in Nat
  BY <1>1, ScriptIsASequence DEF Script
<1>3. /\ rule' = rule /\ seed' = seed /\ discarded' = discarded /\ failures' = failures
      /\ phase' = "rule" /\ todo' = Script /\ Script' = Script
      /\ rejected' = FALSE /\ failed' = FALSE /\ stream' = StartOf(seed)
  BY DEF Begin, Script
<1>3a. StartOf(seed) \in Word \ {{}}
  <2>1. seed \in 0..N
    BY <1>1, CountsAssumption
  <2> QED
    BY <2>1, StartNonZero
<1>4. TypeInv'
  <2>1. phase' \in {"begin", "rule", "done"} /\ (phase' = "done" <=> seed' = N + 1)
    BY <1>1, <1>3, CountsAssumption
  <2>2. stream' \in Word /\ todo' \in Seq(Event)
    BY <1>2, <1>3, <1>3a
  <2> QED
    BY <1>1, <1>3, <2>1, <2>2 DEF TypeInv
<1>5. StreamInv'
  BY <1>3, <1>3a DEF StreamInv
<1>6. Executed' = 0
  BY <1>2, <1>3 DEF Executed
<1>7. RunningInv'
  <2>1. ~ AssumedIn(0)' /\ ~ AssertedIn(0)'
    BY DEF AssumedIn, AssertedIn
  <2>2. \A j \in 1..Len(todo') : todo'[j] = Script'[0 + j]
    BY <1>2, <1>3
  <2> QED
    BY <1>2, <1>3, <1>6, <2>1, <2>2 DEF RunningInv
<1>8. \A s : (Rejects(s)' <=> Rejects(s)) /\ (Refutes(s)' <=> Refutes(s))
  BY <1>3 DEF Rejects, Refutes
<1>9. CountInv' /\ FailuresReproduce'
  BY <1>3, <1>8 DEF DriverInv, CountInv, RejectedBefore, FailuresReproduce
<1> QED
  BY <1>4, <1>5, <1>7, <1>9 DEF DriverInv

LEMMA DrawPreserves == DriverInv /\ Draw => DriverInv'
<1> SUFFICES ASSUME DriverInv, Draw PROVE DriverInv'
  OBVIOUS
<1>1. "draw" \in Event /\ Call("draw")
  BY DEF Event, Draw
<1>2. /\ rule' = rule /\ seed' = seed /\ phase' = phase /\ failures' = failures
      /\ rejected' = rejected /\ failed' = failed /\ stream' = NextStream(stream)
  BY DEF Draw, Call
<1>3. TypeInv'
  <2>1. stream' \in Word
    BY <1>2, NextStreamNonZero DEF DriverInv, TypeInv
  <2> QED
    BY <1>1, <1>2, <2>1, CallAdvances DEF DriverInv, TypeInv
<1>4. StreamInv'
  BY <1>2, NextStreamNonZero DEF DriverInv, TypeInv, StreamInv
<1>5. RunningInv'
  <2>1. (rejected' <=> AssumedIn(Executed + 1)) /\ (failed' <=> AssertedIn(Executed + 1))
    BY <1>1, <1>2, CallAdvances DEF DriverInv, RunningInv, Call
  <2> QED
    BY <1>1, <2>1, RecordedAdvances
<1> QED
  BY <1>1, <1>3, <1>4, <1>5, CallKeepsVerdict DEF DriverInv

LEMMA AssumeFailsPreserves == DriverInv /\ AssumeFails => DriverInv'
<1> SUFFICES ASSUME DriverInv, AssumeFails PROVE DriverInv'
  OBVIOUS
<1>1. "assume" \in Event /\ Call("assume")
  BY DEF Event, AssumeFails
<1>2. /\ rule' = rule /\ seed' = seed /\ phase' = phase /\ failures' = failures
      /\ rejected' = TRUE /\ failed' = failed /\ stream' = stream
  BY DEF AssumeFails, Call
<1>3. TypeInv' /\ StreamInv'
  BY <1>1, <1>2, CallAdvances DEF DriverInv, TypeInv, StreamInv
<1>4. RunningInv'
  <2>1. (rejected' <=> AssumedIn(Executed + 1)) /\ (failed' <=> AssertedIn(Executed + 1))
    BY <1>1, <1>2, CallAdvances DEF DriverInv, RunningInv, Call
  <2> QED
    BY <1>1, <2>1, RecordedAdvances
<1> QED
  BY <1>1, <1>3, <1>4, CallKeepsVerdict DEF DriverInv

LEMMA AssertFailsPreserves == DriverInv /\ AssertFails => DriverInv'
<1> SUFFICES ASSUME DriverInv, AssertFails PROVE DriverInv'
  OBVIOUS
<1>1. "assert" \in Event /\ Call("assert")
  BY DEF Event, AssertFails
<1>2. /\ rule' = rule /\ seed' = seed /\ phase' = phase /\ failures' = failures
      /\ rejected' = rejected /\ failed' = (failed \/ ~rejected) /\ stream' = stream
  BY DEF AssertFails, Call
<1>3. TypeInv' /\ StreamInv'
  BY <1>1, <1>2, CallAdvances DEF DriverInv, TypeInv, StreamInv
<1>4. RunningInv'
  <2>1. (rejected <=> AssumedIn(Executed)) /\ (failed <=> AssertedIn(Executed))
    BY DEF DriverInv, RunningInv, AssertFails, Call
  <2>2. (rejected' <=> AssumedIn(Executed + 1)) /\ (failed' <=> AssertedIn(Executed + 1))
    BY <1>1, <1>2, <2>1, CallAdvances
  <2> QED
    BY <1>1, <2>2, RecordedAdvances
<1> QED
  BY <1>1, <1>3, <1>4, CallKeepsVerdict DEF DriverInv

\* The rule has returned: what is recorded is what its whole script deserves.
LEMMA EndRecords ==
    ASSUME DriverInv, End
    PROVE  /\ TypeInv /\ seed \in 1..N
           /\ rejected <=> Rejects(seed)
           /\ failed <=> Refutes(seed)
<1>1. TypeInv /\ seed \in 1..N
  BY CountsAssumption DEF DriverInv, End, TypeInv
<1>2. /\ Len(Script) \in Nat /\ DOMAIN Script = 1..Len(Script)
  BY <1>1, ScriptIsASequence DEF Script
<1>3. Executed = Len(Script)
  BY <1>2 DEF End, Executed
<1>4. (rejected <=> AssumedIn(Len(Script))) /\ (failed <=> AssertedIn(Len(Script)))
  BY <1>3 DEF DriverInv, RunningInv, End
<1>5. (AssumedIn(Len(Script)) <=> Rejects(seed)) /\ (AssertedIn(Len(Script)) <=> Refutes(seed))
  BY <1>2 DEF AssumedIn, AssertedIn, Rejects, Refutes, Script
<1> QED
  BY <1>1, <1>4, <1>5

LEMMA EndPreserves == DriverInv /\ End => DriverInv'
<1> SUFFICES ASSUME DriverInv, End PROVE DriverInv'
  OBVIOUS
<1>1. /\ TypeInv /\ seed \in 1..N
      /\ (rejected <=> Rejects(seed)) /\ (failed <=> Refutes(seed))
  BY EndRecords
<1>2. /\ rule' = rule /\ seed' = seed + 1 /\ stream' = stream /\ todo' = todo
      /\ rejected' = rejected /\ failed' = failed
      /\ phase' = IF seed = N THEN "done" ELSE "begin"
  BY DEF End
<1>3. \A s : (Rejects(s)' <=> Rejects(s)) /\ (Refutes(s)' <=> Refutes(s))
  BY <1>2 DEF Rejects, Refutes
<1>4. failures \in Seq(1..N) /\ failures' \in Seq(1..N)
  <2>1. failures' = failures \/ failures' = Append(failures, seed)
    BY DEF End
  <2>2. failures \in Seq(1..N)
    BY <1>1 DEF TypeInv
  <2>3. Append(failures, seed) \in Seq(1..N)
    BY <1>1, <2>2
  <2> QED
    BY <2>1, <2>2, <2>3
<1>5. TypeInv'
  <2>1. seed' \in 1..(N + 1) /\ (phase' = "done" <=> seed' = N + 1)
    BY <1>1, <1>2, CountsAssumption
  <2>2. phase' \in {"begin", "rule", "done"}
    BY <1>2
  <2> QED
    BY <1>1, <1>2, <1>4, <2>1, <2>2 DEF TypeInv
<1>6. phase' # "rule"
  BY <1>2
<1>7. CountInv'
  <2>1. IsFiniteSet(RejectedBefore(seed))
    <3>1. IsFiniteSet(1..(seed - 1))
      BY <1>1, FS_Interval
    <3> QED
      BY <3>1, FS_Subset DEF RejectedBefore
  <2>2. RejectedBefore(seed)' = IF rejected THEN RejectedBefore(seed) \cup {seed}
                                ELSE RejectedBefore(seed)
    <3>1. 1..(seed' - 1) = (1..(seed - 1)) \cup {seed}
      BY <1>1, <1>2
    <3> QED
      BY <1>1, <1>3, <3>1 DEF RejectedBefore
  <2>3. seed \notin RejectedBefore(seed)
    BY <1>1 DEF RejectedBefore
  <2>4. discarded = Cardinality(RejectedBefore(seed))
    BY DEF DriverInv, CountInv
  <2>5. CASE rejected
    <3>1. Cardinality(RejectedBefore(seed) \cup {seed}) = Cardinality(RejectedBefore(seed)) + 1
      BY <2>1, <2>3, FS_AddElement
    <3> QED
      BY <2>2, <2>4, <2>5, <3>1 DEF CountInv, End
  <2>6. CASE ~ rejected
    BY <2>2, <2>4, <2>6 DEF CountInv, End
  <2> QED
    BY <2>5, <2>6
<1>8. FailuresReproduce'
  <2>1. CASE ~rejected /\ failed /\ Len(failures) < MaxFailures
    <3>1. failures' = Append(failures, seed)
      BY <2>1 DEF End
    <3>2. /\ DOMAIN failures = 1..Len(failures) /\ Len(failures) \in Nat
          /\ DOMAIN failures' = 1..(Len(failures) + 1)
          /\ failures'[Len(failures) + 1] = seed
          /\ \A i \in 1..Len(failures) : failures'[i] = failures[i]
      BY <1>1, <1>4, <3>1
    <3>3. \A i \in DOMAIN failures' : Refutes(failures'[i])
      BY <1>1, <2>1, <3>2 DEF DriverInv, FailuresReproduce
    <3>4. ASSUME NEW s \in 1..(seed' - 1), Refutes(s)
          PROVE  \E i \in DOMAIN failures' : failures'[i] = s
      <4>1. CASE s = seed
        BY <3>2, <4>1
      <4>2. CASE s # seed
        <5>1. s \in 1..(seed - 1)
          BY <1>1, <1>2, <4>2
        <5>2. PICK i \in DOMAIN failures : failures[i] = s
          BY <2>1, <3>4, <5>1 DEF DriverInv, FailuresReproduce
        <5> QED
          BY <3>2, <5>2
      <4> QED
        BY <4>1, <4>2
    <3> QED
      BY <1>3, <3>3, <3>4 DEF FailuresReproduce
  <2>2. CASE ~ (~rejected /\ failed /\ Len(failures) < MaxFailures)
    <3>1. failures' = failures
      BY <2>2 DEF End
    <3>2. \A i \in DOMAIN failures' : Refutes(failures'[i])
      BY <3>1 DEF DriverInv, FailuresReproduce
    <3>3. ASSUME Len(failures) < MaxFailures, NEW s \in 1..(seed' - 1), Refutes(s)
          PROVE  \E i \in DOMAIN failures' : failures'[i] = s
      <4>1. s # seed
        BY <1>1, <2>2, <3>3, RefutedIsNotRejected
      <4>2. s \in 1..(seed - 1)
        BY <1>1, <1>2, <4>1
      <4> QED
        BY <3>1, <3>3, <4>2 DEF DriverInv, FailuresReproduce
    <3> QED
      BY <1>3, <3>1, <3>2, <3>3 DEF FailuresReproduce
  <2> QED
    BY <2>1, <2>2
<1> QED
  BY <1>5, <1>6, <1>7, <1>8 DEF DriverInv, StreamInv, RunningInv

LEMMA DriverInvariant == DriverSpec => []DriverInv
<1>1. DriverInv /\ [DriverNext]_driverVars => DriverInv'
  <2> SUFFICES ASSUME DriverInv, [DriverNext]_driverVars PROVE DriverInv'
    OBVIOUS
  <2>1. CASE Begin
    BY <2>1, BeginPreserves
  <2>2. CASE Draw
    BY <2>2, DrawPreserves
  <2>3. CASE AssumeFails
    BY <2>3, AssumeFailsPreserves
  <2>4. CASE AssertFails
    BY <2>4, AssertFailsPreserves
  <2>5. CASE End
    BY <2>5, EndPreserves
  <2>6. CASE UNCHANGED driverVars
    BY <2>6 DEF driverVars, DriverInv, TypeInv, StreamInv, RunningInv, CountInv,
                FailuresReproduce, Script, Executed, AssumedIn, AssertedIn,
                RejectedBefore, Rejects, Refutes
  <2> QED
    BY <2>1, <2>2, <2>3, <2>4, <2>5, <2>6 DEF DriverNext
<1> QED
  BY DriverInitInv, <1>1, PTL DEF DriverSpec

\* The verdict over N seeds, from the invariant between two rules.
LEMMA VerdictIsHonest == DriverInv => StatusIsHonest
<1> SUFFICES ASSUME DriverInv, phase = "done"
             PROVE  Status = IF \E s \in 1..N : Refutes(s) THEN "FAIL"
                             ELSE IF \A s \in 1..N : Rejects(s) THEN "VACUOUS" ELSE "ok"
  BY DEF StatusIsHonest
<1>1. seed = N + 1 /\ N \in Nat \ {0} /\ MaxFailures \in Nat \ {0} /\ failures \in Seq(1..N)
  BY CountsAssumption DEF DriverInv, TypeInv
<1>2. seed - 1 = N
  BY <1>1
<1>3. failures # <<>> <=> \E s \in 1..N : Refutes(s)
  <2>1. ASSUME failures # <<>> PROVE \E s \in 1..N : Refutes(s)
    <3>1. 1 \in DOMAIN failures /\ failures[1] \in 1..N
      BY <1>1, <2>1, EmptySeq, LenProperties, ElementOfSeq
    <3> QED
      BY <3>1 DEF DriverInv, FailuresReproduce
  <2>2. ASSUME NEW s \in 1..N, Refutes(s), failures = <<>> PROVE FALSE
    <3>1. Len(failures) < MaxFailures /\ DOMAIN failures = {}
      BY <1>1, <2>2
    <3> QED
      BY <1>2, <2>2, <3>1 DEF DriverInv, FailuresReproduce
  <2> QED
    BY <2>1, <2>2
<1>4. N - discarded = 0 <=> \A s \in 1..N : Rejects(s)
  <2>1. IsFiniteSet(1..N) /\ Cardinality(1..N) = N
    BY <1>1, FS_Interval
  <2>2. discarded = Cardinality({t \in 1..N : Rejects(t)})
    BY <1>2 DEF DriverInv, CountInv, RejectedBefore
  <2>3. {t \in 1..N : Rejects(t)} \in SUBSET (1..N)
    OBVIOUS
  <2>4. discarded \in Nat
    BY <2>1, <2>2, <2>3, FS_Subset, FS_CardinalityType
  <2>5. discarded = N => {t \in 1..N : Rejects(t)} = 1..N
    BY <2>1, <2>2, <2>3, FS_Subset
  <2>6. {t \in 1..N : Rejects(t)} = 1..N => discarded = N
    BY <2>1, <2>2
  <2>7. N - discarded = 0 <=> discarded = N
    BY <1>1, <2>4
  <2>8. {t \in 1..N : Rejects(t)} = 1..N <=> \A s \in 1..N : Rejects(s)
    OBVIOUS
  <2> QED
    BY <2>5, <2>6, <2>7, <2>8
<1> QED
  BY <1>3, <1>4 DEF Status

\* The streams that executions have begun on are those of the seeds so far.
Begun == IF phase = "rule" THEN seed ELSE seed - 1
StartedInv == started = {StartOf(s) : s \in 1..Begun}

LEMMA StartedInvariant == DriverSpec => []StartedInv
<1>1. DriverInit => StartedInv
  <2>1. 1..(1 - 1) = {}
    OBVIOUS
  <2> QED
    BY <2>1 DEF DriverInit, StartedInv, Begun
<1>2. DriverInv /\ StartedInv /\ [DriverNext]_driverVars => StartedInv'
  <2> SUFFICES ASSUME DriverInv, StartedInv, [DriverNext]_driverVars PROVE StartedInv'
    OBVIOUS
  <2>1. CASE Begin
    <3>1. seed \in 1..N /\ Begun = seed - 1 /\ Begun' = seed
      BY <2>1, CountsAssumption DEF DriverInv, TypeInv, Begin, Begun
    <3>2. 1..seed = (1..(seed - 1)) \cup {seed}
      BY <3>1, CountsAssumption
    <3>3. started' = {StartOf(s) : s \in 1..(seed - 1)} \cup {StartOf(seed)}
      BY <2>1, <3>1 DEF Begin, StartedInv
    <3>4. {StartOf(s) : s \in 1..seed} = {StartOf(s) : s \in 1..(seed - 1)} \cup {StartOf(seed)}
      BY <3>2
    <3> QED
      BY <3>1, <3>3, <3>4 DEF StartedInv
  <2>2. CASE End
    <3>1. Begun = seed /\ Begun' = (seed + 1) - 1 /\ seed \in Nat
      BY <2>2, CountsAssumption DEF DriverInv, TypeInv, End, Begun
    <3> QED
      BY <2>2, <3>1 DEF End, StartedInv
  <2>3. CASE Draw \/ AssumeFails \/ AssertFails \/ UNCHANGED driverVars
    <3>1. started' = started /\ phase' = phase /\ seed' = seed
      BY <2>3 DEF Draw, AssumeFails, AssertFails, Call, driverVars
    <3> QED
      BY <3>1 DEF StartedInv, Begun
  <2> QED
    BY <2>1, <2>2, <2>3 DEF DriverNext
<1> QED
  BY <1>1, <1>2, DriverInvariant, PTL DEF DriverSpec

-----------------------------------------------------------------------------
\* Concrete execution never draws from a stream that is 0 (next_u64, begin).
THEOREM StreamsNeverDie == DriverSpec => []NeverZero
<1>1. DriverInv => NeverZero
  BY DEF DriverInv, TypeInv, StreamInv, NeverZero
<1> QED
  BY <1>1, DriverInvariant, PTL

\* The seeds that exercise reports are the first that refute the rule when run
\* alone.
THEOREM ReportedSeedsFail == DriverSpec => []FailuresReproduce
<1>1. DriverInv => FailuresReproduce
  BY DEF DriverInv
<1> QED
  BY <1>1, DriverInvariant, PTL

\* FAIL, VACUOUS and ok (tests/concrete.rs) say what the executions deserve.
THEOREM VerdictsAreHonest == DriverSpec => []StatusIsHonest
  BY VerdictIsHonest, DriverInvariant, PTL

\* The seeds 2k and 2k + 1 begin on the same stream (begin sets the lowest bit)
\* and no others do: N executions begin on N \div 2 + 1 streams.
THEOREM SeedsComeInPairs == DriverSpec => []StreamsInPairs
<1>1. DriverInv /\ StartedInv => StreamsInPairs
  <2> SUFFICES ASSUME DriverInv, StartedInv, phase = "done"
               PROVE  Cardinality(started) = N \div 2 + 1
    BY DEF StreamsInPairs
  <2>1. Begun = N
    BY CountsAssumption DEF DriverInv, TypeInv, Begun
  <2> QED
    BY <2>1, StartsAreCounted DEF StartedInv
<1> QED
  BY <1>1, DriverInvariant, StartedInvariant, PTL

-----------------------------------------------------------------------------
(***************************************************************************)
(* Proofs about the servers of the tests, for any number of tests, probes  *)
(* and killed runs.                                                        *)
(*                                                                         *)
(* Neither property is inductive: a test's peer is right because only its  *)
(* own server can have its port, and its port is free in the end because   *)
(* only a server that is up has one.  PortsInv says both.                  *)
(***************************************************************************)

HarnessType ==
    /\ pc \in [Test -> {"start", "probe", "ping", "run", "drop", "ended"}]
    /\ child \in [Test -> {"none", "booting", "up", "dead", "reaped"}]
    /\ peer \in [Test -> Test \cup {Nobody, Orphan}]
    /\ listener \in [Ports -> Test \cup {Nobody, Orphan}]
    /\ taken \subseteq Ports

\* Only a test's own server has its port, while it is up; an orphan has one
\* from before the tests started only.
PortsInv ==
    \A p \in Ports :
        /\ listener[p] \in Test => p = Offset[listener[p]] /\ child[listener[p]] = "up"
        /\ listener[p] = Orphan => p \in taken

\* What a test has spawned before it starts and after it has ended
ChildInv ==
    \A t \in Test :
        /\ pc[t] = "start" => child[t] = "none"
        /\ pc[t] = "ended" => child[t] \in {"none", "reaped"}

HarnessInv == HarnessType /\ PortsInv /\ ChildInv /\ OwnServer

LEMMA PortsOfTests ==
    /\ Nobody \notin Test /\ Orphan \notin Test /\ Nobody # Orphan
    /\ \A t \in Test : Offset[t] \in Ports /\ PortOf(t) = Offset[t]
    /\ \A s, t \in Test : Offset[s] = Offset[t] => s = t
  BY OffsetAssumption, NamesAssumption DEF Ports, PortOf, Nobody, Orphan

LEMMA HarnessInitInv == HarnessInit => HarnessInv
  BY PortsOfTests
  DEF HarnessInit, Occupied, HarnessInv, HarnessType, PortsInv, ChildInv, OwnServer

\* What a thread of a test does keeps the invariant.
LEMMA TestStepInv ==
    ASSUME HarnessInv, NEW t \in Test, TestStep(t)
    PROVE  HarnessInv'
<1> USE PortsOfTests
    DEF HarnessInv, HarnessType, PortsInv, ChildInv, OwnServer
<1>1. CASE Skip(t)
  BY <1>1 DEF Skip
<1>2. CASE Spawn(t)
  BY <1>2 DEF Spawn
<1>3. CASE Connect(t)
  BY <1>3 DEF Connect
<1>4. CASE ConnectFails(t)
  BY <1>4 DEF ConnectFails
<1>5. CASE Answered(t)
  BY <1>5 DEF Answered
<1>6. CASE PingFails(t)
  BY <1>6 DEF PingFails
<1>7. CASE GiveUp(t)
  BY <1>7 DEF GiveUp
<1>8. CASE Finish(t)
  BY <1>8 DEF Finish
<1>9. CASE Drop(t)
  BY <1>9 DEF Drop, Freed
<1> QED
  BY <1>1, <1>2, <1>3, <1>4, <1>5, <1>6, <1>7, <1>8, <1>9
  DEF TestStep, OwnStep, PeerStep

\* What a server does keeps it, too.
LEMMA ServerStepInv ==
    ASSUME HarnessInv, NEW t \in Test, ServerStep(t)
    PROVE  HarnessInv'
<1> USE PortsOfTests
    DEF HarnessInv, HarnessType, PortsInv, ChildInv, OwnServer
<1>1. CASE Bind(t)
  BY <1>1 DEF Bind
<1>2. CASE Die(t)
  BY <1>2 DEF Die, Freed
<1> QED
  BY <1>1, <1>2 DEF ServerStep

\* So does an orphan that goes.
LEMMA OrphanInv ==
    ASSUME HarnessInv, NEW p \in Ports, OrphanDies(p)
    PROVE  HarnessInv'
  BY PortsOfTests
  DEF OrphanDies, HarnessInv, HarnessType, PortsInv, ChildInv, OwnServer

\* So does killing the process: its servers become orphans.
LEMMA KillInv ==
    ASSUME HarnessInv, KillAndRerun
    PROVE  HarnessInv'
  BY PortsOfTests
  DEF KillAndRerun, Occupied, HarnessInv, HarnessType, PortsInv, ChildInv, OwnServer

LEMMA HarnessNextInv == HarnessInv /\ [HarnessNext]_harnessVars => HarnessInv'
<1> SUFFICES ASSUME HarnessInv, [HarnessNext]_harnessVars
             PROVE  HarnessInv'
  OBVIOUS
<1>1. CASE HarnessNext
  BY <1>1, TestStepInv, ServerStepInv, OrphanInv, KillInv DEF HarnessNext
<1>2. CASE UNCHANGED harnessVars
  BY <1>2 DEF harnessVars, HarnessInv, HarnessType, PortsInv, ChildInv, OwnServer
<1> QED
  BY <1>1, <1>2

LEMMA SpecHarnessInv == HarnessSpec => []HarnessInv
  BY HarnessInitInv, HarnessNextInv, PTL DEF HarnessSpec

-----------------------------------------------------------------------------
\* No test ever talks to another test's server, nor to a stranger's on a port
\* that was free when the tests started: start() in tests/difftest.rs.
THEOREM TestsTalkToTheirServers == HarnessSpec => []OwnServer
<1>1. HarnessInv => OwnServer
  BY DEF HarnessInv
<1> QED
  BY <1>1, SpecHarnessInv, PTL

\* However a test ends, its server is reaped and its port free: the guard
\* Server of tests/difftest.rs, dropped on every path.
THEOREM ServersAreReaped == HarnessSpec => []NoServerLeftBehind
<1>1. HarnessInv => NoServerLeftBehind
  BY PortsOfTests DEF HarnessInv, HarnessType, PortsInv, ChildInv, NoServerLeftBehind
<1> QED
  BY <1>1, SpecHarnessInv, PTL
=============================================================================
