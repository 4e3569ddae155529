----------------------------- MODULE RespProofs -----------------------------
(***************************************************************************)
(* Proofs that the client of driver/resp.rs stays in step with its server, *)
(* for every set of requests, every reply of any size and nesting, and a   *)
(* crash at any byte.                                                      *)
(*                                                                         *)
(* The argument.  What is still to come, on the wire and unwritten, is     *)
(* known at every step: what is left of the value that is being read, then *)
(* for every open array, from the innermost outwards, the items behind     *)
(* that one.  Within(stack, r, v, s) ties the stack of frames to the reply *)
(* r, At says where in v the client is.  A token read, an item finished    *)
(* and a header understood each take from both sides the same thing, so    *)
(* when the outermost value returns nothing is left, and what it returns   *)
(* is r.  What a bulk string is made of never matters: its length came     *)
(* before it.                                                              *)
(***************************************************************************)
EXTENDS RespClient, SequenceTheorems, WellFoundedInduction, TLAPS

-----------------------------------------------------------------------------
(***************************************************************************)
(* Sequences of sequences                                                  *)
(***************************************************************************)
\* A set of natural numbers that is not empty has a least element.
LEMMA LeastNatural ==
    ASSUME NEW T \in SUBSET Nat, T # {}
    PROVE  \E n \in T : \A m \in T : n <= m
<1>1. PICK n \in T : \A m \in T : ~ (<<m, n>> \in OpToRel(<, Nat))
  <2>1. IsWellFoundedOn(OpToRel(<, Nat), Nat)
    BY NatLessThanWellFounded
  <2> QED
    BY <2>1, WFMin
<1>2. \A m \in T : n <= m
  <2> SUFFICES ASSUME NEW m \in T, ~(n <= m) PROVE FALSE
    OBVIOUS
  <2>1. m \in Nat /\ n \in Nat /\ m < n
    OBVIOUS
  <2>2. <<m, n>> \in OpToRel(<, Nat)
    BY <2>1 DEF OpToRel
  <2> QED
    BY <1>1, <2>2
<1> QED
  BY <1>2

\* What the recursion inside FlattenSeq computes step by step
Flattens(f, s, n) ==
    f = [i \in 1..n |-> IF i = 1 THEN s[i] ELSE f[i - 1] \o s[i]]

LEMMA FlattensUpTo ==
    ASSUME NEW s, NEW n \in Nat
    PROVE  \E f : Flattens(f, s, n)
<1> DEFINE T == {m \in 0..n : ~ \E f : Flattens(f, s, m)}
<1>1. SUFFICES ASSUME T # {} PROVE FALSE
  OBVIOUS
<1>2. PICK m \in T : \A k \in T : m <= k
  <2>1. T \in SUBSET Nat
    OBVIOUS
  <2> HIDE DEF T
  <2> QED
    BY <1>1, <2>1, LeastNatural
<1>3. CASE m = 0
  <2> DEFINE f == [i \in 1..0 |-> {}]
  <2>1. f = [i \in 1..0 |-> IF i = 1 THEN s[i] ELSE f[i - 1] \o s[i]]
    OBVIOUS
  <2> HIDE DEF f
  <2> QED
    BY <1>3, <2>1 DEF Flattens
<1>4. CASE m # 0
  <2>1. m - 1 \in 0..n /\ m - 1 \notin T /\ m \in 1..n
    BY <1>2, <1>4
  <2>2. PICK g : Flattens(g, s, m - 1)
    BY <2>1
  <2> DEFINE f == [i \in 1..m |-> IF i < m THEN g[i]
                                  ELSE IF i = 1 THEN s[i] ELSE g[i - 1] \o s[i]]
  <2>3. \A i \in 1..m : f[i] = IF i = 1 THEN s[i] ELSE f[i - 1] \o s[i]
    <3> SUFFICES ASSUME NEW i \in 1..m
                 PROVE  f[i] = IF i = 1 THEN s[i] ELSE f[i - 1] \o s[i]
      OBVIOUS
    <3>1. CASE i < m
      <4>1. i \in 1..(m - 1) /\ f[i] = g[i]
        BY <2>1, <3>1
      <4>2. g[i] = IF i = 1 THEN s[i] ELSE g[i - 1] \o s[i]
        BY <2>2, <4>1 DEF Flattens
      <4>3. i # 1 => f[i - 1] = g[i - 1]
        BY <2>1, <3>1
      <4> QED
        BY <4>1, <4>2, <4>3
    <3>2. CASE i = m
      <4>1. i # 1 => f[i - 1] = g[i - 1]
        BY <2>1, <3>2
      <4> QED
        BY <3>2, <4>1
    <3> QED
      BY <2>1, <3>1, <3>2
  <2>4. f = [i \in 1..m |-> IF i = 1 THEN s[i] ELSE f[i - 1] \o s[i]]
    BY <2>3
  <2> HIDE DEF f
  <2>5. Flattens(f, s, m)
    BY <2>4 DEF Flattens
  <2> QED
    BY <2>5
<1> QED
  BY <1>3, <1>4

\* A flattened sequence grows part by part.
LEMMA Flattened ==
    ASSUME NEW S, NEW s \in Seq(Seq(S))
    PROVE  \E pre \in [0..Len(s) -> Seq(S)] :
              /\ pre[0] = <<>> /\ FlattenSeq(s) = pre[Len(s)]
              /\ \A i \in 1..Len(s) : pre[i] = pre[i - 1] \o s[i]
<1> DEFINE n == Len(s)
           f == CHOOSE f : Flattens(f, s, n)
           pre == [i \in 0..n |-> IF i = 0 THEN <<>> ELSE f[i]]
<1>1. n \in Nat /\ \A i \in 1..n : s[i] \in Seq(S)
  BY ElementOfSeq
<1>2. Flattens(f, s, n)
  BY <1>1, FlattensUpTo
<1>3. FlattenSeq(s) = IF n = 0 THEN s ELSE f[n]
  BY DEF FlattenSeq, Flattens
<1>4. n = 0 => s = <<>>
  BY EmptySeq
<1> HIDE DEF n, f
<1>5. \A i \in 1..n : f[i] = IF i = 1 THEN s[i] ELSE f[i - 1] \o s[i]
  BY <1>1, <1>2 DEF Flattens
<1>6. pre[0] = <<>> /\ \A i \in 1..n : pre[i] = f[i]
  BY <1>1
<1>7. FlattenSeq(s) = pre[n]
  BY <1>1, <1>3, <1>4, <1>6
<1>8. \A i \in 0..n : pre[i] \in Seq(S)
  <2> DEFINE T == {i \in 0..n : pre[i] \notin Seq(S)}
  <2>1. SUFFICES ASSUME T # {} PROVE FALSE
    OBVIOUS
  <2>2. PICK m \in T : \A k \in T : m <= k
    <3>1. T \in SUBSET Nat
      BY <1>1
    <3> HIDE DEF T
    <3> QED
      BY <2>1, <3>1, LeastNatural
  <2>3. m # 0
    BY <1>6
  <2>4. m \in 1..n /\ m - 1 \in 0..n /\ m - 1 \notin T
    BY <1>1, <2>2, <2>3
  <2>5. pre[m - 1] \in Seq(S) /\ s[m] \in Seq(S)
    BY <1>1, <2>4
  <2>6. pre[m] = IF m = 1 THEN s[m] ELSE pre[m - 1] \o s[m]
    <3>1. m # 1 => m - 1 \in 1..n
      BY <1>1, <2>4
    <3> HIDE DEF pre, T
    <3> QED
      BY <1>5, <1>6, <2>4, <3>1
  <2> HIDE DEF pre
  <2>7. pre[m] \in Seq(S)
    BY <2>5, <2>6, ConcatProperties
  <2> QED
    BY <2>7
<1>9. \A i \in 1..n : pre[i] = pre[i - 1] \o s[i]
  <2> SUFFICES ASSUME NEW i \in 1..n PROVE pre[i] = pre[i - 1] \o s[i]
    OBVIOUS
  <2>1. CASE i = 1
    <3>1. pre[i - 1] = <<>> /\ pre[i] = s[i]
      BY <1>1, <1>5, <1>6, <2>1
    <3> HIDE DEF pre
    <3> QED
      BY <1>1, <3>1, ConcatEmptySeq
  <2>2. CASE i # 1
    <3>1. i - 1 \in 1..n
      BY <1>1, <2>2
    <3> HIDE DEF pre
    <3> QED
      BY <1>5, <1>6, <2>2, <3>1
  <2> QED
    BY <2>1, <2>2
<1>10. pre \in [0..n -> Seq(S)]
  BY <1>8
<1> HIDE DEF pre
<1> QED
  BY <1>6, <1>7, <1>9, <1>10 DEF n

\* The two parts of a concatenation
LEMMA Parts ==
    ASSUME NEW S, NEW a \in Seq(S), NEW b \in Seq(S)
    PROVE  /\ a \o b \in Seq(S) /\ Len(a \o b) = Len(a) + Len(b)
           /\ Len(a) \in Nat /\ Len(b) \in Nat
           /\ \A j \in 1..Len(a) : (a \o b)[j] = a[j]
           /\ \A j \in 1..Len(b) : (a \o b)[Len(a) + j] = b[j]
<1>1. Len(a) \in Nat /\ Len(b) \in Nat
  BY LenProperties
<1>2. /\ a \o b \in Seq(S) /\ Len(a \o b) = Len(a) + Len(b)
      /\ \A j \in 1..(Len(a) + Len(b)) :
            (a \o b)[j] = IF j <= Len(a) THEN a[j] ELSE b[j - Len(a)]
  BY ConcatProperties
<1>3. \A j \in 1..Len(a) : j \in 1..(Len(a) + Len(b)) /\ j <= Len(a)
  BY <1>1
<1>4. \A j \in 1..Len(b) : /\ Len(a) + j \in 1..(Len(a) + Len(b))
                           /\ ~(Len(a) + j <= Len(a)) /\ Len(a) + j - Len(a) = j
  BY <1>1
<1> QED
  BY <1>1, <1>2, <1>3, <1>4

\* What is left of a flattened sequence after its first i parts
Remainders(S, s, suf) ==
    /\ suf \in [0..Len(s) -> Seq(S)]
    /\ suf[0] = FlattenSeq(s) /\ suf[Len(s)] = <<>>
    /\ \A i \in 1..Len(s) : suf[i - 1] = s[i] \o suf[i]

\* The last n - m of them
Endings(S, s, n, m, g) ==
    /\ g \in [m..n -> Seq(S)] /\ g[n] = <<>>
    /\ \A i \in (m + 1)..n : g[i - 1] = s[i] \o g[i]

LEMMA EndingsUpTo ==
    ASSUME NEW S, NEW n \in Nat, NEW s, \A i \in 1..n : s[i] \in Seq(S)
    PROVE  \E g : Endings(S, s, n, 0, g)
<1> DEFINE T == {m \in 0..n : ~ \E g : Endings(S, s, n, n - m, g)}
<1>1. SUFFICES ASSUME T # {} PROVE FALSE
  <2>1. ASSUME T = {} PROVE \E g : Endings(S, s, n, n - n, g)
    BY <2>1
  <2>2. n - n = 0
    OBVIOUS
  <2> HIDE DEF T
  <2> QED
    BY <2>1, <2>2
<1>2. PICK m \in T : \A k \in T : m <= k
  <2>1. T \in SUBSET Nat
    OBVIOUS
  <2> HIDE DEF T
  <2> QED
    BY <1>1, <2>1, LeastNatural
<1>3. m \in 0..n /\ ~ \E g : Endings(S, s, n, n - m, g)
  OBVIOUS
<1>4. CASE m = 0
  <2> DEFINE g == [i \in n..n |-> <<>>]
  <2>1. g \in [n..n -> Seq(S)] /\ g[n] = <<>>
    BY EmptySeq
  <2>2. \A i \in (n + 1)..n : FALSE
    OBVIOUS
  <2> HIDE DEF g
  <2>3. Endings(S, s, n, n, g)
    BY <2>1, <2>2 DEF Endings
  <2>4. n - m = n
    BY <1>4
  <2> QED
    BY <1>3, <2>3, <2>4
<1>5. CASE m # 0
  <2> DEFINE l == n - m
  <2>1. m - 1 \in 0..n /\ ~(m <= m - 1) /\ n - (m - 1) = l + 1
    BY <1>3, <1>5
  <2>2. m - 1 \notin T
    BY <1>2, <2>1
  <2>3. l \in Nat /\ l + 1 \in 1..n
    BY <1>3, <1>5
  <2>4. PICK g : Endings(S, s, n, l + 1, g)
    BY <2>1, <2>2
  <2> HIDE DEF l, T
  <2> DEFINE f == [i \in l..n |-> IF i = l THEN s[l + 1] \o g[l + 1] ELSE g[i]]
  <2>5. /\ g \in [(l + 1)..n -> Seq(S)] /\ g[n] = <<>>
        /\ \A i \in (l + 2)..n : g[i - 1] = s[i] \o g[i]
    <3>1. l + 1 + 1 = l + 2
      BY <2>3
    <3> QED
      BY <2>4, <3>1 DEF Endings
  <2>6. s[l + 1] \in Seq(S) /\ g[l + 1] \in Seq(S)
    <3>1. l + 1 \in (l + 1)..n
      BY <2>3
    <3> QED
      BY <2>3, <2>5, <3>1
  <2>7. s[l + 1] \o g[l + 1] \in Seq(S)
    BY <2>6, ConcatProperties
  <2>8. f \in [l..n -> Seq(S)]
    <3>1. \A i \in l..n : i # l => i \in (l + 1)..n
      BY <2>3
    <3> QED
      BY <2>5, <2>7, <3>1
  <2>9. f[l] = s[l + 1] \o g[l + 1] /\ \A i \in (l + 1)..n : f[i] = g[i]
    <3>1. l \in l..n /\ \A i \in (l + 1)..n : i \in l..n /\ i # l
      BY <2>3
    <3> QED
      BY <3>1
  <2> HIDE DEF f
  <2>10. f[n] = <<>>
    <3>1. n \in (l + 1)..n
      BY <2>3
    <3> QED
      BY <2>5, <2>9, <3>1
  <2>11. \A i \in (l + 1)..n : f[i - 1] = s[i] \o f[i]
    <3> SUFFICES ASSUME NEW i \in (l + 1)..n PROVE f[i - 1] = s[i] \o f[i]
      OBVIOUS
    <3>1. CASE i = l + 1
      <4>1. i - 1 = l
        BY <2>3, <3>1
      <4> QED
        BY <2>9, <3>1, <4>1
    <3>2. CASE i # l + 1
      <4>1. i \in (l + 2)..n /\ i - 1 \in (l + 1)..n
        BY <2>3, <3>2
      <4> QED
        BY <2>5, <2>9, <4>1
    <3> QED
      BY <3>1, <3>2
  <2>12. Endings(S, s, n, l, f)
    BY <2>8, <2>10, <2>11 DEF Endings
  <2> QED
    BY <1>3, <2>12 DEF l
<1> QED
  BY <1>4, <1>5

LEMMA FlattenedRemainders ==
    ASSUME NEW S, NEW s \in Seq(Seq(S))
    PROVE  \E suf : Remainders(S, s, suf)
<1> DEFINE n == Len(s)
           flat == FlattenSeq(s)
<1>1. n \in Nat /\ \A i \in 1..n : s[i] \in Seq(S)
  BY ElementOfSeq
<1>2. PICK pre \in [0..n -> Seq(S)] :
         /\ pre[0] = <<>> /\ flat = pre[n]
         /\ \A i \in 1..n : pre[i] = pre[i - 1] \o s[i]
  BY Flattened
<1> HIDE DEF n, flat
<1>3. PICK suf : Endings(S, s, n, 0, suf)
  BY <1>1, EndingsUpTo
<1>4. /\ suf \in [0..n -> Seq(S)] /\ suf[n] = <<>>
      /\ \A i \in 1..n : suf[i - 1] = s[i] \o suf[i]
  <2>1. 0 + 1 = 1
    OBVIOUS
  <2> QED
    BY <1>3, <2>1 DEF Endings
<1>5. \A i \in 0..n : pre[i] \o suf[i] = suf[0]
  <2> DEFINE T == {i \in 0..n : pre[i] \o suf[i] # suf[0]}
  <2>1. SUFFICES ASSUME T # {} PROVE FALSE
    OBVIOUS
  <2>2. PICK m \in T : \A k \in T : m <= k
    <3>1. T \in SUBSET Nat
      BY <1>1
    <3> HIDE DEF T
    <3> QED
      BY <2>1, <3>1, LeastNatural
  <2>3. m # 0
    <3>1. 0 \in 0..n /\ suf[0] \in Seq(S)
      BY <1>1, <1>4
    <3>2. pre[0] \o suf[0] = suf[0]
      BY <1>2, <3>1, ConcatEmptySeq
    <3> QED
      BY <3>2
  <2>4. m \in 1..n /\ m - 1 \in 0..n /\ ~(m <= m - 1)
    BY <1>1, <2>3
  <2>5. pre[m - 1] \o suf[m - 1] = suf[0]
    BY <2>2, <2>4
  <2> DEFINE a == pre[m - 1]
             b == s[m]
             c == suf[m]
  <2>6. a \in Seq(S) /\ b \in Seq(S) /\ c \in Seq(S)
    BY <1>1, <1>2, <1>4, <2>4
  <2>7. pre[m] = a \o b /\ suf[m - 1] = b \o c
    BY <1>2, <1>4, <2>4
  <2> HIDE DEF a, b, c
  <2>8. (a \o b) \o c = a \o (b \o c)
    BY <2>6, ConcatAssociative
  <2>9. pre[m] \o suf[m] = suf[0]
    BY <2>5, <2>7, <2>8 DEF a, c
  <2> QED
    BY <2>9
<1>6. suf[0] = flat
  <2>1. n \in 0..n /\ pre[n] \in Seq(S)
    BY <1>1, <1>2
  <2>2. pre[n] \o suf[n] = suf[0]
    BY <1>5, <2>1
  <2> QED
    BY <1>2, <1>4, <2>1, <2>2, ConcatEmptySeq
<1>7. Remainders(S, s, suf)
  BY <1>4, <1>6 DEF Remainders, n, flat
<1> QED
  BY <1>7

\* Two ways to cut the same sequence at the same place
LEMMA SameCut ==
    ASSUME NEW S, NEW a \in Seq(S), NEW b \in Seq(S), NEW x \in Seq(S), NEW y \in Seq(S),
           a \o x = b \o y, Len(a) = Len(b)
    PROVE  a = b /\ x = y
<1>1. \A j \in 1..Len(a) : a[j] = b[j]
  BY Parts
<1>2. a = b
  BY <1>1, SeqEqual
<1> QED
  BY <1>2, ConcatSimplifications

\* What is to come, d and then p, is a and then s.
Comes(d, p, a, s) == d \o p = a \o s

\* A sequence is its first n elements and the rest.
LEMMA SplitAt ==
    ASSUME NEW S, NEW d \in Seq(S), NEW n \in 0..Len(d), NEW p \in Seq(S)
    PROVE  LET x == SubSeq(d, 1, n)
               y == SubSeq(d, n + 1, Len(d))
           IN /\ x \in Seq(S) /\ Len(x) = n /\ y \in Seq(S) /\ y \o p \in Seq(S)
              /\ Comes(d, p, x, y \o p)
<1> DEFINE m == Len(d)
           x == SubSeq(d, 1, n)
           y == SubSeq(d, n + 1, m)
<1>1. n \in Nat /\ m \in Nat /\ m >= n /\ \A i \in 1..m : d[i] \in S
  BY ElementOfSeq, LenProperties
<1>2. x \in Seq(S) /\ Len(x) = n
  <2>1. \A i \in 1..n : d[i] \in S
    BY <1>1
  <2>2. /\ SubSeq(d, 1, n) \in Seq(S)
        /\ Len(SubSeq(d, 1, n)) = IF 1 <= n THEN n - 1 + 1 ELSE 0
    BY <1>1, <2>1, SubSeqProperties
  <2> QED
    BY <1>1, <2>2
<1>3. y \in Seq(S)
  <2>1. \A i \in (n + 1)..m : d[i] \in S
    BY <1>1
  <2>2. n + 1 \in Int /\ m \in Int
    BY <1>1
  <2> HIDE DEF m
  <2> QED
    BY <2>1, <2>2, SubSeqProperties
<1>4. x \o y = d
  <2>1. 1 \in 1..(m + 1) /\ n \in 0..m /\ m \in n..m /\ 1 - 1 = 0
    BY <1>1
  <2>2. SubSeq(d, 1, n) \o SubSeq(d, n + 1, m) = SubSeq(d, 1, m)
    BY <2>1, ConcatAdjacentSubSeq
  <2> QED
    BY <2>2, SubSeqFull
<1> HIDE DEF x, y
<1>5. (x \o y) \o p = x \o (y \o p)
  BY <1>2, <1>3, ConcatAssociative
<1>6. y \o p \in Seq(S)
  BY <1>3, ConcatProperties
<1> QED
  BY <1>2, <1>3, <1>4, <1>5, <1>6 DEF Comes, x, y, m

\* What comes first is taken from d when all of it is there.
LEMMA TakeFront ==
    ASSUME NEW S, NEW d \in Seq(S), NEW p \in Seq(S), NEW a \in Seq(S), NEW s \in Seq(S),
           Comes(d, p, a, s), Len(d) >= Len(a)
    PROVE  /\ SubSeq(d, 1, Len(a)) = a
           /\ SubSeq(d, Len(a) + 1, Len(d)) \in Seq(S)
           /\ SubSeq(d, Len(a) + 1, Len(d)) \o p = s
<1> DEFINE n == Len(a)
           x == SubSeq(d, 1, n)
           y == SubSeq(d, n + 1, Len(d))
           z == y \o p
<1>1. n \in 0..Len(d)
  BY LenProperties
<1> HIDE DEF n
<1>2. /\ x \in Seq(S) /\ Len(x) = n /\ y \in Seq(S) /\ z \in Seq(S)
      /\ Comes(d, p, x, z)
  BY <1>1, SplitAt
<1> HIDE DEF x, y, z
<1>3. x \o z = a \o s /\ Len(x) = Len(a)
  BY <1>2 DEF Comes, n
<1>4. x = a /\ z = s
  BY <1>2, <1>3, SameCut
<1> QED
  BY <1>2, <1>4 DEF x, y, z, n

LEMMA TakeFirst ==
    ASSUME NEW S, NEW d \in Seq(S), NEW p \in Seq(S), NEW x \in S, NEW s \in Seq(S),
           Comes(d, p, <<x>>, s), d # <<>>
    PROVE  Head(d) = x /\ Tail(d) \in Seq(S) /\ Tail(d) \o p = s
<1> DEFINE one == <<x>>
<1>1. one \in Seq(S) /\ Len(one) = 1 /\ one[1] = x /\ Comes(d, p, one, s)
  OBVIOUS
<1> HIDE DEF one
<1>2. Len(d) \in Nat \ {0} /\ Len(d) >= Len(one)
  BY <1>1, EmptySeq
<1>3. /\ SubSeq(d, 1, Len(one)) = one /\ SubSeq(d, Len(one) + 1, Len(d)) \in Seq(S)
      /\ SubSeq(d, Len(one) + 1, Len(d)) \o p = s
  <2>1. one \in Seq(S)
    BY <1>1
  <2>2. Comes(d, p, one, s)
    BY <1>1
  <2>3. Len(d) >= Len(one)
    BY <1>2
  <2> QED
    BY <2>1, <2>2, <2>3, TakeFront
<1>4. Len(one) + 1 = 2 /\ Len(one) = 1
  BY <1>1
<1>5. /\ SubSeq(d, 1, 1) = one /\ SubSeq(d, 2, Len(d)) \in Seq(S)
      /\ SubSeq(d, 2, Len(d)) \o p = s
  BY <1>3, <1>4
<1>6. Tail(d) = SubSeq(d, 2, Len(d))
  BY TailIsSubSeq
<1>7. Head(d) = x
  <2>1. 1 \in 1..Len(d)
    BY <1>2
  <2>2. Head(SubSeq(d, 1, 1)) = d[1]
    BY <2>1, HeadTailOfSubSeq
  <2>3. Head(one) = one[1] /\ Head(d) = d[1]
    BY <1>1, <1>2
  <2> QED
    BY <1>1, <1>5, <2>2, <2>3
<1> QED
  BY <1>5, <1>6, <1>7

-----------------------------------------------------------------------------
(***************************************************************************)
(* What is on the wire                                                     *)
(***************************************************************************)
\* The tokens of a number, a line end and a byte are different things.
LEMMA HeaderIsNoByte ==
    ASSUME NEW h \in Header
    PROVE  h # CR /\ "tag" \in DOMAIN h /\ h \in Token
<1>1. DOMAIN CR = {"byte"}
  BY DEF CR, Byte
<1>2. CASE h \in [tag : {"*", "$", ":"}, n : Int]
  <2>1. DOMAIN h = {"tag", "n"}
    BY <1>2
  <2> QED
    BY <1>1, <2>1 DEF Token
<1>3. CASE h \in [tag : {"+", "-"}, text : STRING]
  <2>1. DOMAIN h = {"tag", "text"}
    BY <1>3
  <2> QED
    BY <1>1, <2>1 DEF Token
<1> QED
  BY <1>2, <1>3 DEF Header

\* A header with its line end, and the line end of a bulk string
Line(h) == <<h, CR, LF>>
Ending == <<CR, LF>>

LEMMA LineTokens ==
    ASSUME NEW h \in Header
    PROVE  /\ Line(h) \in Seq(Token) /\ Len(Line(h)) = 3
           /\ Line(h)[1] = h /\ Line(h)[2] = CR /\ Line(h)[3] = LF
<1>1. h \in Token /\ CR \in Token /\ LF \in Token
  BY HeaderIsNoByte DEF Token
<1> QED
  BY <1>1 DEF Line

\* The header a value begins with
Heading(r) ==
    CASE r.tag = "Simple" -> Text("+", r.text)
      [] r.tag = "Error" -> Text("-", r.text)
      [] r.tag = "Int" -> Sized(":", r.n)
      [] r.tag = "Bulk" -> Sized("$", Len(r.bytes))
      [] r.tag = "Nil" -> Sized("$", -1)
      [] r.tag = "NilArray" -> Sized("*", -1)
      [] r.tag = "Array" -> Sized("*", Len(r.items))

\* The encodings of the items of an array
Parcels(r) == [i \in DOMAIN r.items |-> Wire[r.items[i]]]

\* A value is one of these.
LEMMA ValueKinds ==
    ASSUME NEW r \in Values
    PROVE  \/ r = NilResp
           \/ r = NilArrayResp
           \/ r.tag = "Simple" /\ r = SimpleResp(r.text) /\ r.text \in STRING
           \/ r.tag = "Error" /\ r = ErrorResp(r.text) /\ r.text \in STRING
           \/ r.tag = "Int" /\ r = IntResp(r.n) /\ r.n \in Int
           \/ r.tag = "Bulk" /\ r = BulkResp(r.bytes) /\ r.bytes \in Seq(Bytes)
           \/ r.tag = "Array" /\ r = ArrayResp(r.items) /\ r.items \in Seq(Values)
<1>1. r \in RespValue
  BY WireAssumption
<1>2. CASE r \in [tag : {"Simple", "Error"}, text : STRING]
  BY <1>2 DEF SimpleResp, ErrorResp
<1>3. CASE r \in [tag : {"Int"}, n : Int]
  BY <1>3 DEF IntResp
<1>4. CASE r \in [tag : {"Bulk"}, bytes : Seq(Bytes)]
  BY <1>4 DEF BulkResp
<1>5. CASE r \in [tag : {"Array"}, items : Seq(Values)]
  BY <1>5 DEF ArrayResp
<1> QED
  BY <1>1, <1>2, <1>3, <1>4, <1>5 DEF RespValue

\* A sequence of bytes is one of tokens.
LEMMA BytesAreTokens == ASSUME NEW s \in Seq(Bytes) PROVE s \in Seq(Token)
<1>1. Bytes \subseteq Token
  BY DEF Token
<1> QED
  BY <1>1, SeqMonotonic

\* What a value is written with behind its header line
Body(r) ==
    CASE r.tag = "Bulk" -> r.bytes \o Ending
      [] r.tag = "Array" -> FlattenSeq(Parcels(r))
      [] OTHER -> <<>>

LEMMA ParcelsTyped ==
    ASSUME NEW r \in Values, r.tag = "Array"
    PROVE  /\ r.items \in Seq(Values) /\ r = ArrayResp(r.items) /\ Len(r.items) \in Nat
           /\ Parcels(r) \in Seq(Seq(Token)) /\ Len(Parcels(r)) = Len(r.items)
           /\ \A i \in 1..Len(r.items) : /\ r.items[i] \in Values
                                         /\ Parcels(r)[i] = Wire[r.items[i]]
<1> DEFINE n == Len(r.items)
<1>1. r.items \in Seq(Values) /\ r = ArrayResp(r.items)
  BY ValueKinds DEF NilResp, NilArrayResp
<1>2. n \in Nat /\ DOMAIN r.items = 1..n /\ \A i \in 1..n : r.items[i] \in Values
  BY <1>1, LenProperties, ElementOfSeq
<1> HIDE DEF n
<1>3. Parcels(r) = [i \in 1..n |-> Wire[r.items[i]]]
  BY <1>2 DEF Parcels
<1>4. \A i \in 1..n : Wire[r.items[i]] \in Seq(Token)
  BY <1>2, WireAssumption
<1>5. Parcels(r) \in Seq(Seq(Token)) /\ Len(Parcels(r)) = n
  BY <1>2, <1>3, <1>4
<1>6. \A i \in 1..n : Parcels(r)[i] = Wire[r.items[i]]
  BY <1>3
<1> QED
  BY <1>1, <1>2, <1>5, <1>6 DEF n

\* What is left of the body of an array after i items
Tails(r) == CHOOSE suf : Remainders(Token, Parcels(r), suf)

LEMMA TailsAre ==
    ASSUME NEW r \in Values, r.tag = "Array"
    PROVE  /\ Tails(r) \in [0..Len(r.items) -> Seq(Token)]
           /\ Tails(r)[0] = Body(r) /\ Tails(r)[Len(r.items)] = <<>>
           /\ \A i \in 1..Len(r.items) :
                 Tails(r)[i - 1] = Wire[r.items[i]] \o Tails(r)[i]
<1>1. /\ Parcels(r) \in Seq(Seq(Token)) /\ Len(Parcels(r)) = Len(r.items)
      /\ \A i \in 1..Len(r.items) : Parcels(r)[i] = Wire[r.items[i]]
  BY ParcelsTyped
<1>2. Remainders(Token, Parcels(r), Tails(r))
  BY <1>1, FlattenedRemainders DEF Tails
<1>3. Body(r) = FlattenSeq(Parcels(r))
  BY DEF Body
<1> QED
  BY <1>1, <1>2, <1>3 DEF Remainders

\* A value is written as a header, a line end and a body.
LEMMA WireParts ==
    ASSUME NEW r \in Values
    PROVE  /\ Heading(r) \in Header /\ Body(r) \in Seq(Token)
           /\ Wire[r] = Line(Heading(r)) \o Body(r)
<1>1. Wire[r] = Encoded(r)
  BY WireAssumption
<1>2. CASE r = NilResp
  <2>1. /\ Heading(r) \in Header /\ Body(r) = <<>> /\ Wire[r] = Line(Heading(r))
    BY <1>1, <1>2 DEF Encoded, EncodedWith, Line, Heading, Header, Sized, NilResp, Body
  <2> QED
    BY <2>1, LineTokens, ConcatEmptySeq
<1>3. CASE r = NilArrayResp
  <2>1. /\ Heading(r) \in Header /\ Body(r) = <<>> /\ Wire[r] = Line(Heading(r))
    BY <1>1, <1>3 DEF Encoded, EncodedWith, Line, Heading, Header, Sized, NilArrayResp, Body
  <2> QED
    BY <2>1, LineTokens, ConcatEmptySeq
<1>4. CASE r.tag = "Simple" /\ r.text \in STRING
  <2>1. /\ Heading(r) \in Header /\ Body(r) = <<>> /\ Wire[r] = Line(Heading(r))
    BY <1>1, <1>4 DEF Encoded, EncodedWith, Line, Heading, Header, Text, Body
  <2> QED
    BY <2>1, LineTokens, ConcatEmptySeq
<1>5. CASE r.tag = "Error" /\ r.text \in STRING
  <2>1. /\ Heading(r) \in Header /\ Body(r) = <<>> /\ Wire[r] = Line(Heading(r))
    BY <1>1, <1>5 DEF Encoded, EncodedWith, Line, Heading, Header, Text, Body
  <2> QED
    BY <2>1, LineTokens, ConcatEmptySeq
<1>6. CASE r.tag = "Int" /\ r.n \in Int
  <2>1. /\ Heading(r) \in Header /\ Body(r) = <<>> /\ Wire[r] = Line(Heading(r))
    BY <1>1, <1>6 DEF Encoded, EncodedWith, Line, Heading, Header, Sized, Body
  <2> QED
    BY <2>1, LineTokens, ConcatEmptySeq
<1>7. CASE r.tag = "Bulk" /\ r.bytes \in Seq(Bytes)
  <2> DEFINE h == Heading(r)
             b == r.bytes
             e == Ending
             l == Line(h)
  <2>1. b \in Seq(Token) /\ e \in Seq(Token)
    BY <1>7, BytesAreTokens DEF Token, Ending
  <2>2. h \in Header
    BY <1>7, <2>1, LenProperties DEF Heading, Header, Sized
  <2>3. l \in Seq(Token)
    BY <2>2, LineTokens
  <2>4. Wire[r] = (l \o b) \o e /\ Body(r) = b \o e
    BY <1>1, <1>7 DEF Encoded, EncodedWith, Line, Ending, Heading, Body
  <2> HIDE DEF h, b, e, l
  <2>5. (l \o b) \o e = l \o (b \o e)
    BY <2>1, <2>3, ConcatAssociative
  <2>6. b \o e \in Seq(Token)
    BY <2>1, ConcatProperties
  <2> QED
    BY <2>2, <2>4, <2>5, <2>6 DEF h, l
<1>8. CASE r.tag = "Array" /\ r.items \in Seq(Values)
  <2>1. Len(r.items) \in Nat
    BY <1>8, LenProperties
  <2>2. Heading(r) \in Header
    BY <1>8, <2>1 DEF Heading, Header, Sized
  <2>3. Wire[r] = Line(Heading(r)) \o Body(r)
    BY <1>1, <1>8 DEF Encoded, EncodedWith, Line, Heading, Parcels, Body
  <2>4. 0 \in 0..Len(r.items)
    BY <2>1
  <2>5. Body(r) \in Seq(Token)
    BY <1>8, <2>4, TailsAre
  <2> QED
    BY <2>2, <2>3, <2>5
<1> QED
  BY <1>2, <1>3, <1>4, <1>5, <1>6, <1>7, <1>8, ValueKinds

\* What the client makes of a header is what the server meant by it.
LEMMA HeadingKinds ==
    ASSUME NEW r \in Values
    PROVE  LET h == Heading(r)
           IN /\ h.tag \in {"+", "-", ":", "$", "*"}
              /\ h.tag = "+" => r = SimpleResp(h.text) /\ Body(r) = <<>>
              /\ h.tag = "-" => r = ErrorResp(h.text) /\ Body(r) = <<>>
              /\ h.tag = ":" => r = IntResp(h.n) /\ Body(r) = <<>>
              /\ h.tag = "$" => /\ h.n < 0 => r = NilResp /\ Body(r) = <<>>
                                /\ ~(h.n < 0) => r.tag = "Bulk" /\ h.n = Len(r.bytes)
              /\ h.tag = "*" => /\ h.n < 0 => r = NilArrayResp /\ Body(r) = <<>>
                                /\ ~(h.n < 0) => r.tag = "Array" /\ h.n = Len(r.items)
<1>1. CASE r = NilResp
  BY <1>1 DEF Heading, Body, Sized, NilResp
<1>2. CASE r = NilArrayResp
  BY <1>2 DEF Heading, Body, Sized, NilArrayResp
<1>3. CASE r.tag = "Simple" /\ r = SimpleResp(r.text)
  BY <1>3 DEF Heading, Body, Text
<1>4. CASE r.tag = "Error" /\ r = ErrorResp(r.text)
  BY <1>4 DEF Heading, Body, Text
<1>5. CASE r.tag = "Int" /\ r = IntResp(r.n)
  BY <1>5 DEF Heading, Body, Sized
<1>6. CASE r.tag = "Bulk" /\ r.bytes \in Seq(Bytes)
  <2>1. Len(r.bytes) \in Nat
    BY <1>6, LenProperties
  <2> QED
    BY <1>6, <2>1 DEF Heading, Sized
<1>7. CASE r.tag = "Array" /\ r.items \in Seq(Values)
  <2>1. Len(r.items) \in Nat
    BY <1>7, LenProperties
  <2> QED
    BY <1>7, <2>1 DEF Heading, Sized
<1> QED
  BY <1>1, <1>2, <1>3, <1>4, <1>5, <1>6, <1>7, ValueKinds

-----------------------------------------------------------------------------
(***************************************************************************)
(* Where the client is in the reply                                        *)
(***************************************************************************)
\* The frame f belongs to the array a, whose item v is being read; s is what
\* follows v on the wire when `outer' is what follows a.
Open(f, a, v, outer, s) ==
    /\ a.tag = "Array"
    /\ \E i \in 1..Len(a.items) :
          /\ f = [left |-> Len(a.items) - i + 1, items |-> SubSeq(a.items, 1, i - 1)]
          /\ v = a.items[i] /\ s = Tails(a)[i] \o outer

\* The values from the reply r, at depth 0, inwards, and what follows each
Nested(st, r, vals, rest) ==
    /\ vals \in [0..Len(st) -> Values] /\ rest \in [0..Len(st) -> Seq(Token)]
    /\ vals[0] = r /\ rest[0] = <<>>
    /\ \A d \in 1..Len(st) :
          Open(st[Len(st) + 1 - d], vals[d - 1], vals[d], rest[d - 1], rest[d])

Frames == [left : Nat, items : Seq(Values)]

\* With the frames st, the value v of the reply r is being read and s follows it.
Within(st, r, v, s) ==
    /\ st \in Seq(Frames)
    /\ \E vals, rest : /\ Nested(st, r, vals, rest)
                       /\ v = vals[Len(st)] /\ s = rest[Len(st)]

LEMMA WithinTyped ==
    ASSUME NEW st, NEW r, NEW v, NEW s, Within(st, r, v, s)
    PROVE  /\ st \in Seq(Frames) /\ Len(st) \in Nat /\ v \in Values /\ s \in Seq(Token)
           /\ st = <<>> => v = r /\ s = <<>>
<1>1. PICK vals, rest : Nested(st, r, vals, rest) /\ v = vals[Len(st)] /\ s = rest[Len(st)]
  BY DEF Within
<1>2. st \in Seq(Frames) /\ Len(st) \in Nat
  BY LenProperties DEF Within
<1>3. Len(st) \in 0..Len(st)
  BY <1>2
<1>4. v \in Values /\ s \in Seq(Token)
  BY <1>1, <1>3 DEF Nested
<1>5. st = <<>> => Len(st) = 0
  BY EmptySeq
<1>6. st = <<>> => v = r /\ s = <<>>
  BY <1>1, <1>5 DEF Nested
<1> QED
  BY <1>2, <1>4, <1>6

LEMMA WithinReply ==
    ASSUME NEW r \in Values
    PROVE  Within(<<>>, r, r, <<>>)
<1> DEFINE vals == [d \in 0..0 |-> r]
           rest == [d \in 0..0 |-> <<>>]
<1>1. /\ vals \in [0..0 -> Values] /\ rest \in [0..0 -> Seq(Token)]
      /\ vals[0] = r /\ rest[0] = <<>>
  BY EmptySeq
<1> HIDE DEF vals, rest
<1>2. <<>> \in Seq(Frames) /\ Len(<<>>) = 0
  BY EmptySeq
<1>3. Nested(<<>>, r, vals, rest)
  <2>1. \A d \in 1..0 : FALSE
    OBVIOUS
  <2> QED
    BY <1>1, <1>2, <2>1 DEF Nested
<1> QED
  BY <1>1, <1>2, <1>3 DEF Within

\* One array further in
LEMMA WithinPushed ==
    ASSUME NEW st, NEW r, NEW a, NEW outer, Within(st, r, a, outer),
           NEW f \in Frames, NEW v \in Values, NEW s \in Seq(Token), Open(f, a, v, outer, s)
    PROVE  Within(<<f>> \o st, r, v, s)
<1> DEFINE n == Len(st)
           one == <<f>>
           new == one \o st
<1>1. PICK vals, rest : Nested(st, r, vals, rest) /\ a = vals[n] /\ outer = rest[n]
  BY DEF Within
<1>2. st \in Seq(Frames) /\ n \in Nat
  BY WithinTyped
<1>3. one \in Seq(Frames) /\ Len(one) = 1 /\ one[1] = f
  OBVIOUS
<1> HIDE DEF one
<1>4. /\ new \in Seq(Frames) /\ Len(new) = 1 + n
      /\ \A j \in 1..1 : new[j] = one[j]
      /\ \A j \in 1..n : new[1 + j] = st[j]
  BY <1>2, <1>3, Parts
<1>5. /\ vals \in [0..n -> Values] /\ rest \in [0..n -> Seq(Token)]
      /\ vals[0] = r /\ rest[0] = <<>>
      /\ \A d \in 1..n : Open(st[n + 1 - d], vals[d - 1], vals[d], rest[d - 1], rest[d])
  BY <1>1 DEF Nested
<1> HIDE DEF new, n
<1> DEFINE vals2 == [d \in 0..(n + 1) |-> IF d = n + 1 THEN v ELSE vals[d]]
           rest2 == [d \in 0..(n + 1) |-> IF d = n + 1 THEN s ELSE rest[d]]
<1>6. \A d \in 0..n : d \in 0..(n + 1) /\ d # n + 1
  BY <1>2
<1>7. \A d \in 0..n : vals2[d] = vals[d] /\ rest2[d] = rest[d]
  BY <1>6
<1>8. n + 1 \in 0..(n + 1)
  BY <1>2
<1>9. vals2[n + 1] = v /\ rest2[n + 1] = s
  BY <1>8
<1>10. vals2 \in [0..(n + 1) -> Values] /\ rest2 \in [0..(n + 1) -> Seq(Token)]
  <2>1. \A d \in 0..(n + 1) : d # n + 1 => d \in 0..n
    BY <1>2
  <2> QED
    BY <1>5, <2>1
<1> HIDE DEF vals2, rest2
<1>11. \A d \in 1..(n + 1) :
          Open(new[n + 1 + 1 - d], vals2[d - 1], vals2[d], rest2[d - 1], rest2[d])
  <2> SUFFICES ASSUME NEW d \in 1..(n + 1)
               PROVE  Open(new[n + 1 + 1 - d], vals2[d - 1], vals2[d], rest2[d - 1], rest2[d])
    OBVIOUS
  <2>1. CASE d = n + 1
    <3>1. n + 1 + 1 - d = 1 /\ d - 1 = n /\ 1 \in 1..1 /\ n \in 0..n
      BY <1>2, <2>1
    <3>2. new[n + 1 + 1 - d] = f
      BY <1>3, <1>4, <3>1
    <3> QED
      BY <1>1, <1>7, <1>9, <2>1, <3>1, <3>2 DEF n
  <2>2. CASE d # n + 1
    <3>1. /\ d \in 1..n /\ d \in 0..n /\ d - 1 \in 0..n
          /\ n + 1 - d \in 1..n /\ n + 1 + 1 - d = 1 + (n + 1 - d)
      BY <1>2, <2>2
    <3>2. new[n + 1 + 1 - d] = st[n + 1 - d]
      BY <1>4, <3>1
    <3> QED
      BY <1>5, <1>7, <3>1, <3>2
  <2> QED
    BY <2>1, <2>2
<1>12. Len(new) = n + 1
  BY <1>2, <1>4
<1>13. 0 \in 0..n
  BY <1>2
<1>14. Nested(new, r, vals2, rest2)
  BY <1>5, <1>7, <1>10, <1>11, <1>12, <1>13 DEF Nested
<1>15. Within(new, r, v, s)
  BY <1>4, <1>9, <1>12, <1>14 DEF Within
<1> QED
  BY <1>15 DEF new, one

\* One array further out
LEMMA WithinPopped ==
    ASSUME NEW st, NEW r, NEW v, NEW s, Within(st, r, v, s), st # <<>>
    PROVE  /\ st[1] \in Frames
           /\ \E a, outer : /\ Within(Tail(st), r, a, outer)
                            /\ Open(st[1], a, v, outer, s)
<1>1. st \in Seq(Frames) /\ Len(st) \in Nat \ {0}
  BY WithinTyped, EmptySeq
<1>2. PICK n \in Nat : Len(st) = n + 1
  <2>1. Len(st) - 1 \in Nat /\ Len(st) = (Len(st) - 1) + 1
    BY <1>1
  <2> QED
    BY <2>1
<1>3. PICK vals, rest : Nested(st, r, vals, rest) /\ v = vals[n + 1] /\ s = rest[n + 1]
  BY <1>2 DEF Within
<1>4. /\ vals \in [0..(n + 1) -> Values] /\ rest \in [0..(n + 1) -> Seq(Token)]
      /\ vals[0] = r /\ rest[0] = <<>>
      /\ \A d \in 1..(n + 1) :
            Open(st[n + 1 + 1 - d], vals[d - 1], vals[d], rest[d - 1], rest[d])
  BY <1>2, <1>3 DEF Nested
<1>5. Tail(st) \in Seq(Frames) /\ Len(Tail(st)) = n /\ \A j \in 1..n : Tail(st)[j] = st[j + 1]
  BY <1>1, <1>2
<1> DEFINE t == Tail(st)
           vals2 == [d \in 0..n |-> vals[d]]
           rest2 == [d \in 0..n |-> rest[d]]
<1>6. \A d \in 0..n : d \in 0..(n + 1) /\ vals2[d] = vals[d] /\ rest2[d] = rest[d]
  OBVIOUS
<1>7. vals2 \in [0..n -> Values] /\ rest2 \in [0..n -> Seq(Token)]
  BY <1>4, <1>6
<1> HIDE DEF vals2, rest2, t
<1>8. \A d \in 1..n : Open(t[n + 1 - d], vals2[d - 1], vals2[d], rest2[d - 1], rest2[d])
  <2> SUFFICES ASSUME NEW d \in 1..n
               PROVE  Open(t[n + 1 - d], vals2[d - 1], vals2[d], rest2[d - 1], rest2[d])
    OBVIOUS
  <2>1. /\ d \in 1..(n + 1) /\ d \in 0..n /\ d - 1 \in 0..n
        /\ n + 1 - d \in 1..n /\ n + 1 + 1 - d = (n + 1 - d) + 1
    OBVIOUS
  <2>2. t[n + 1 - d] = st[n + 1 + 1 - d]
    BY <1>5, <2>1 DEF t
  <2> QED
    BY <1>4, <1>6, <2>1, <2>2
<1>9. 0 \in 0..n /\ n \in 0..n
  OBVIOUS
<1>10. Nested(t, r, vals2, rest2)
  BY <1>4, <1>5, <1>6, <1>7, <1>8, <1>9 DEF Nested, t
<1>11. Within(t, r, vals[n], rest[n])
  BY <1>5, <1>6, <1>9, <1>10 DEF Within, t
<1>12. Open(st[1], vals[n], v, rest[n], s)
  <2>1. n + 1 \in 1..(n + 1) /\ n + 1 + 1 - (n + 1) = 1 /\ n + 1 - 1 = n
    OBVIOUS
  <2> QED
    BY <1>3, <1>4, <2>1
<1>13. st[1] \in Frames
  BY <1>1, ElementOfSeq
<1> QED
  BY <1>11, <1>12, <1>13 DEF t

-----------------------------------------------------------------------------
(***************************************************************************)
(* What is on the wire, a token at a time                                  *)
(***************************************************************************)
\* A line, cut into its three tokens
LEMMA LineSteps ==
    ASSUME NEW h \in Token
    PROVE  /\ <<h>> \in Seq(Token) /\ <<CR>> \in Seq(Token) /\ <<LF>> \in Seq(Token)
           /\ <<CR>> \o <<LF>> \in Seq(Token)
           /\ <<h, CR, LF>> = <<h>> \o (<<CR>> \o <<LF>>)
<1>1. CR \in Token /\ LF \in Token
  BY DEF Token
<1> DEFINE x == <<h>>
           y == <<CR>>
           z == <<LF>>
           yz == y \o z
           xyz == <<h, CR, LF>>
<1>2. /\ x \in Seq(Token) /\ Len(x) = 1 /\ x[1] = h
      /\ y \in Seq(Token) /\ Len(y) = 1 /\ y[1] = CR
      /\ z \in Seq(Token) /\ Len(z) = 1 /\ z[1] = LF
      /\ xyz \in Seq(Token) /\ Len(xyz) = 3 /\ xyz[1] = h /\ xyz[2] = CR /\ xyz[3] = LF
  BY <1>1
<1> HIDE DEF x, y, z, xyz
<1>3. /\ yz \in Seq(Token) /\ Len(yz) = Len(y) + Len(z)
      /\ \A j \in 1..Len(y) : yz[j] = y[j]
      /\ \A j \in 1..Len(z) : yz[Len(y) + j] = z[j]
  <2>1. y \in Seq(Token) /\ z \in Seq(Token)
    BY <1>2
  <2> QED
    BY <2>1, Parts
<1>4. Len(yz) = 2 /\ yz[1] = CR /\ yz[2] = LF
  BY <1>2, <1>3
<1> HIDE DEF yz
<1> DEFINE all == x \o yz
<1>5. /\ all \in Seq(Token) /\ Len(all) = Len(x) + Len(yz)
      /\ \A j \in 1..Len(x) : all[j] = x[j]
      /\ \A j \in 1..Len(yz) : all[Len(x) + j] = yz[j]
  <2>1. x \in Seq(Token) /\ yz \in Seq(Token)
    BY <1>2, <1>3
  <2> QED
    BY <2>1, Parts
<1> HIDE DEF all
<1>6. Len(all) = 3 /\ all[1] = h /\ all[2] = CR /\ all[3] = LF
  BY <1>2, <1>4, <1>5
<1>7. \A j \in 1..3 : xyz[j] = all[j]
  <2>1. \A j \in 1..3 : j = 1 \/ j = 2 \/ j = 3
    OBVIOUS
  <2> QED
    BY <1>2, <1>6, <2>1
<1>8. xyz = all
  BY <1>2, <1>5, <1>6, <1>7, SeqEqual
<1> QED
  BY <1>2, <1>3, <1>8 DEF x, y, z, yz, xyz, all

\* A value and what follows it, cut behind the header, the CR and the LF
LEMMA WireSteps ==
    ASSUME NEW v \in Values, NEW s \in Seq(Token)
    PROVE  LET b == Body(v) \o s
               l == <<LF>> \o b
               c == <<CR>> \o l
           IN /\ b \in Seq(Token) /\ l \in Seq(Token) /\ c \in Seq(Token)
              /\ Wire[v] \in Seq(Token) /\ Wire[v] \o s \in Seq(Token)
              /\ Wire[v] \o s = <<Heading(v)>> \o c
<1> DEFINE h1 == <<Heading(v)>>
           c1 == <<CR>>
           l1 == <<LF>>
           bd == Body(v)
           cl == c1 \o l1
           b == bd \o s
           hl == Line(Heading(v))
<1>1. /\ Heading(v) \in Header /\ bd \in Seq(Token) /\ Wire[v] = hl \o bd
  BY WireParts
<1>2. Heading(v) \in Token /\ CR \in Token /\ LF \in Token
  BY <1>1, HeaderIsNoByte DEF Token
<1>3. h1 \in Seq(Token) /\ c1 \in Seq(Token) /\ l1 \in Seq(Token)
  BY <1>2
<1>4. hl = h1 \o cl
  BY <1>2, LineSteps DEF Line
<1> HIDE DEF h1, c1, l1, bd, hl
<1>5. cl \in Seq(Token) /\ b \in Seq(Token)
  BY <1>1, <1>3, ConcatProperties
<1>6. hl \in Seq(Token)
  BY <1>3, <1>4, <1>5, ConcatProperties
<1>7. (hl \o bd) \o s = hl \o b
  BY <1>1, <1>6, ConcatAssociative
<1> HIDE DEF b
<1>8. cl \o b = c1 \o (l1 \o b)
  <2>1. c1 \in Seq(Token) /\ l1 \in Seq(Token) /\ b \in Seq(Token)
    BY <1>3, <1>5
  <2> QED
    BY <2>1, ConcatAssociative
<1> HIDE DEF cl
<1>9. (h1 \o cl) \o b = h1 \o (cl \o b)
  <2>1. h1 \in Seq(Token) /\ cl \in Seq(Token) /\ b \in Seq(Token)
    BY <1>3, <1>5
  <2> QED
    BY <2>1, ConcatAssociative
<1>10. l1 \o b \in Seq(Token)
  BY <1>3, <1>5, ConcatProperties
<1>11. c1 \o (l1 \o b) \in Seq(Token)
  <2> DEFINE lb == l1 \o b
  <2>1. lb \in Seq(Token)
    BY <1>10
  <2> HIDE DEF lb
  <2>2. c1 \o lb \in Seq(Token)
    BY <1>3, <2>1, ConcatProperties
  <2> QED
    BY <2>2 DEF lb
<1>12. Wire[v] \in Seq(Token)
  BY WireAssumption
<1>13. Wire[v] \o s \in Seq(Token)
  BY <1>12, ConcatProperties
<1>14. Wire[v] \o s = h1 \o (c1 \o (l1 \o b))
  BY <1>1, <1>4, <1>7, <1>8, <1>9
<1> QED
  BY <1>5, <1>10, <1>11, <1>12, <1>13, <1>14 DEF h1, c1, l1, bd, b

\* The client is at pc with ln, nd and vl read, and co is still to come, while
\* it reads the value v, which s follows.
At(p, ln, nd, vl, co, v, s) ==
    \/ p = "line" /\ ln = <<>> /\ co = Wire[v] \o s
    \/ p = "line" /\ ln = <<Heading(v)>> /\ co = <<CR>> \o (<<LF>> \o (Body(v) \o s))
    \/ p = "lf" /\ ln = <<Heading(v)>> /\ co = <<LF>> \o (Body(v) \o s)
    \/ p = "tag" /\ ln = <<Heading(v)>> /\ co = Body(v) \o s
    \/ /\ p = "bulk" /\ ln = <<>> /\ co = Body(v) \o s
       /\ v.tag = "Bulk" /\ nd = Len(v.bytes)
    \/ p = "value" /\ ln = <<>> /\ vl = v /\ co = s

Here(v, s) == At(pc, line, need, value, down \o pending, v, s)

\* The server's reply r is being read.
Reading(r) == \E v, s : Within(stack, r, v, s) /\ Here(v, s)

\* Nothing is on its way.
Quiet == down = <<>> /\ pending = <<>> /\ line = <<>> /\ stack = <<>>

AtRest ==
    /\ pc = "idle" /\ Quiet /\ up = <<>>
    /\ asked = {} /\ heard = {} /\ answer = {}

Unanswered ==
    /\ pc = "line" /\ Quiet
    /\ heard = {} /\ answer = {}
    /\ \E args \in Requests : asked = {args} /\ up = RequestTokens(args)

Answered ==
    /\ up = <<>>
    /\ \E args \in Requests : asked = {args} /\ heard = {args}
    /\ \E r \in Replies : answer = {r} /\ Reading(r)

RespIInv ==
    /\ down \in Seq(Token) /\ pending \in Seq(Token)
    /\ \/ pc = "broken" /\ ~alive
       \/ AtRest
       \/ Unanswered
       \/ Answered

-----------------------------------------------------------------------------
(***************************************************************************)
(* Requests: two of them that look the same on the wire are the same.      *)
(***************************************************************************)
Parcel(arg) == <<Sized("$", Len(arg)), CR, LF>> \o arg \o <<CR, LF>>

\* An argument and what follows it, cut at its length, at its bytes and at its end
LEMMA ParcelSteps ==
    ASSUME NEW arg \in Seq(Bytes), NEW s \in Seq(Token)
    PROVE  LET e == Ending \o s
               b == arg \o e
           IN /\ Parcel(arg) \in Seq(Token) /\ Sized("$", Len(arg)) \in Header
              /\ arg \in Seq(Token) /\ e \in Seq(Token) /\ b \in Seq(Token)
              /\ Parcel(arg) \o s = Line(Sized("$", Len(arg))) \o b
<1> DEFINE l == Line(Sized("$", Len(arg)))
           z == Ending
           la == l \o arg
           e == z \o s
           b == arg \o e
<1>1. arg \in Seq(Token) /\ Len(arg) \in Nat
  BY BytesAreTokens, LenProperties
<1>2. Sized("$", Len(arg)) \in Header
  BY <1>1 DEF Header, Sized
<1>3. l \in Seq(Token) /\ z \in Seq(Token)
  BY <1>2, LineTokens DEF Ending, Token
<1>4. Parcel(arg) = la \o z
  BY DEF Parcel, Line, Ending
<1> HIDE DEF l, z
<1>5. la \in Seq(Token) /\ e \in Seq(Token)
  BY <1>1, <1>3, ConcatProperties
<1>6. la \o z \in Seq(Token)
  <2> HIDE DEF la
  <2> QED
    BY <1>3, <1>5, ConcatProperties
<1>7. b \in Seq(Token)
  <2> HIDE DEF e
  <2> QED
    BY <1>1, <1>5, ConcatProperties
<1>8. (la \o z) \o s = la \o e
  <2>1. la \in Seq(Token) /\ z \in Seq(Token) /\ s \in Seq(Token)
    BY <1>3, <1>5
  <2> HIDE DEF la
  <2> QED
    BY <2>1, ConcatAssociative
<1>9. la \o e = l \o b
  <2>1. l \in Seq(Token) /\ arg \in Seq(Token) /\ e \in Seq(Token)
    BY <1>1, <1>3, <1>5
  <2> HIDE DEF e
  <2> QED
    BY <2>1, ConcatAssociative
<1>10. Parcel(arg) \o s = l \o b
  BY <1>4, <1>8, <1>9
<1> HIDE DEF la
<1> QED
  BY <1>1, <1>2, <1>4, <1>5, <1>6, <1>7, <1>10 DEF l, z

\* Two lines that are followed by something
LEMMA SameLine ==
    ASSUME NEW h \in Header, NEW g \in Header, NEW v \in Seq(Token), NEW w \in Seq(Token),
           Comes(Line(h), v, Line(g), w)
    PROVE  h = g /\ v = w
<1> DEFINE k == Line(h)
           l == Line(g)
<1>1. /\ k \in Seq(Token) /\ Len(k) = 3 /\ k[1] = h
      /\ l \in Seq(Token) /\ Len(l) = 3 /\ l[1] = g
  BY LineTokens
<1>2. k \o v = l \o w
  BY DEF Comes
<1> HIDE DEF k, l
<1>3. k = l /\ v = w
  BY <1>1, <1>2, SameCut
<1> QED
  BY <1>1, <1>3

LEMMA SameParcel ==
    ASSUME NEW m \in Seq(Bytes), NEW n \in Seq(Bytes), NEW v \in Seq(Token), NEW w \in Seq(Token),
           Comes(Parcel(m), v, Parcel(n), w)
    PROVE  m = n /\ v = w
<1> DEFINE z == Ending
           ev == z \o v
           ew == z \o w
           bv == m \o ev
           bw == n \o ew
           h == Sized("$", Len(m))
           g == Sized("$", Len(n))
<1>1. /\ h \in Header /\ m \in Seq(Token) /\ ev \in Seq(Token) /\ bv \in Seq(Token)
      /\ Parcel(m) \o v = Line(h) \o bv
  BY ParcelSteps
<1>2. /\ g \in Header /\ n \in Seq(Token) /\ ew \in Seq(Token) /\ bw \in Seq(Token)
      /\ Parcel(n) \o w = Line(g) \o bw
  BY ParcelSteps
<1>3. Comes(Line(h), bv, Line(g), bw)
  <2> HIDE DEF h, g, bv, bw
  <2> QED
    BY <1>1, <1>2 DEF Comes
<1>4. h = g /\ bv = bw
  <2> HIDE DEF h, g, bv, bw
  <2> QED
    BY <1>1, <1>2, <1>3, SameLine
<1>5. Len(m) = Len(n)
  BY <1>4 DEF Sized
<1>6. m \o ev = n \o ew
  BY <1>4
<1> HIDE DEF h, g, bv, bw
<1>7. m = n /\ ev = ew
  <2>1. ev \in Seq(Token) /\ ew \in Seq(Token) /\ m \in Seq(Token) /\ n \in Seq(Token)
    BY <1>1, <1>2
  <2> HIDE DEF ev, ew
  <2> QED
    BY <1>5, <1>6, <2>1, SameCut
<1>8. z \in Seq(Token) /\ Len(z) = Len(z)
  BY DEF Ending, Token
<1>9. z \o v = z \o w
  BY <1>7
<1> HIDE DEF z, ev, ew
<1>10. v = w
  BY <1>8, <1>9, SameCut
<1> QED
  BY <1>7, <1>10

Parceled(args) == [i \in DOMAIN args |-> Parcel(args[i])]

LEMMA RequestParts ==
    ASSUME NEW args \in Requests
    PROVE  /\ args \in Seq(Seq(Bytes)) /\ Len(args) \in Nat
           /\ \A i \in 1..Len(args) : args[i] \in Seq(Bytes)
           /\ Sized("*", Len(args)) \in Header
           /\ FlattenSeq(Parceled(args)) \in Seq(Token)
           /\ RequestTokens(args) = Line(Sized("*", Len(args))) \o FlattenSeq(Parceled(args))
           /\ \E suf \in [0..Len(args) -> Seq(Token)] :
                 /\ suf[0] = FlattenSeq(Parceled(args)) /\ suf[Len(args)] = <<>>
                 /\ \A i \in 1..Len(args) : suf[i - 1] = Parcel(args[i]) \o suf[i]
<1> DEFINE n == Len(args)
           ps == Parceled(args)
<1>1. args \in Seq(Seq(Bytes))
  BY RequestsAssumption
<1>2. n \in Nat /\ DOMAIN args = 1..n /\ \A i \in 1..n : args[i] \in Seq(Bytes)
  BY <1>1, LenProperties, ElementOfSeq
<1>3. Sized("*", n) \in Header
  BY <1>2 DEF Header, Sized
<1>4. RequestTokens(args) = Line(Sized("*", n)) \o FlattenSeq(ps)
  BY DEF RequestTokens, Parceled, Parcel, Line
<1> HIDE DEF n
<1>5. ps = [i \in 1..n |-> Parcel(args[i])]
  BY <1>2 DEF Parceled
<1>6. \A i \in 1..n : Parcel(args[i]) \in Seq(Token)
  <2> SUFFICES ASSUME NEW i \in 1..n PROVE Parcel(args[i]) \in Seq(Token)
    OBVIOUS
  <2> DEFINE x == args[i]
             no == <<>>
  <2>1. x \in Seq(Bytes) /\ no \in Seq(Token)
    BY <1>2, EmptySeq
  <2> HIDE DEF x, no
  <2>2. Parcel(x) \in Seq(Token)
    BY <2>1, ParcelSteps
  <2> QED
    BY <2>2 DEF x
<1>7. ps \in Seq(Seq(Token)) /\ Len(ps) = n
  BY <1>2, <1>5, <1>6
<1>8. \A i \in 1..n : ps[i] = Parcel(args[i])
  BY <1>5
<1> HIDE DEF ps
<1>9. PICK suf : Remainders(Token, ps, suf)
  BY <1>7, FlattenedRemainders
<1>10. /\ suf \in [0..n -> Seq(Token)]
       /\ suf[0] = FlattenSeq(ps) /\ suf[n] = <<>>
       /\ \A i \in 1..n : suf[i - 1] = Parcel(args[i]) \o suf[i]
  BY <1>7, <1>8, <1>9 DEF Remainders
<1>11. FlattenSeq(ps) \in Seq(Token)
  <2>1. 0 \in 0..n
    BY <1>2
  <2> QED
    BY <1>10, <2>1
<1> QED
  BY <1>1, <1>2, <1>3, <1>4, <1>10, <1>11 DEF n, ps

LEMMA RequestTyped ==
    ASSUME NEW args \in Requests
    PROVE  RequestTokens(args) \in Seq(Token) /\ RequestTokens(args) # <<>>
<1> DEFINE h == Sized("*", Len(args))
           f == FlattenSeq(Parceled(args))
           l == Line(h)
<1>1. h \in Header /\ f \in Seq(Token) /\ RequestTokens(args) = l \o f
  BY RequestParts
<1> HIDE DEF h, f
<1>2. l \in Seq(Token) /\ Len(l) = 3
  BY <1>1, LineTokens
<1> HIDE DEF l
<1>3. l \o f \in Seq(Token) /\ Len(l \o f) = Len(l) + Len(f) /\ Len(f) \in Nat
  <2>1. l \in Seq(Token) /\ f \in Seq(Token)
    BY <1>1, <1>2
  <2> QED
    BY <2>1, Parts
<1>4. Len(<<>>) = 0
  BY EmptySeq
<1> QED
  BY <1>1, <1>2, <1>3, <1>4

LEMMA SameRequest ==
    ASSUME NEW m \in Requests, NEW n \in Requests, RequestTokens(m) = RequestTokens(n)
    PROVE  m = n
<1> DEFINE h == Sized("*", Len(m))
           g == Sized("*", Len(n))
           fm == FlattenSeq(Parceled(m))
           fn == FlattenSeq(Parceled(n))
<1>1. h \in Header /\ fm \in Seq(Token) /\ RequestTokens(m) = Line(h) \o fm
  BY RequestParts
<1>2. g \in Header /\ fn \in Seq(Token) /\ RequestTokens(n) = Line(g) \o fn
  BY RequestParts
<1>3. h = g /\ fm = fn
  <2> HIDE DEF h, g, fm, fn
  <2>1. Comes(Line(h), fm, Line(g), fn)
    BY <1>1, <1>2 DEF Comes
  <2> QED
    BY <1>1, <1>2, <2>1, SameLine
<1>4. Len(m) = Len(n)
  BY <1>3 DEF Sized
<1> DEFINE l == Len(m)
<1>5. PICK p \in [0..l -> Seq(Token)] :
         p[0] = fm /\ \A i \in 1..l : p[i - 1] = Parcel(m[i]) \o p[i]
  BY RequestParts
<1>6. PICK q \in [0..l -> Seq(Token)] :
         q[0] = fn /\ \A i \in 1..l : q[i - 1] = Parcel(n[i]) \o q[i]
  BY <1>4, RequestParts
<1>7. /\ l \in Nat /\ m \in Seq(Seq(Bytes)) /\ n \in Seq(Seq(Bytes))
      /\ \A i \in 1..l : m[i] \in Seq(Bytes) /\ n[i] \in Seq(Bytes)
  BY <1>4, RequestParts
<1> HIDE DEF l, fm, fn
<1>8. ASSUME NEW i \in 1..l, p[i - 1] = q[i - 1]
      PROVE  p[i] = q[i] /\ m[i] = n[i]
  <2> DEFINE mi == m[i]
             ni == n[i]
             pi == p[i]
             qi == q[i]
  <2>1. i \in 0..l
    BY <1>7
  <2>2. mi \in Seq(Bytes) /\ ni \in Seq(Bytes) /\ pi \in Seq(Token) /\ qi \in Seq(Token)
    BY <1>7, <2>1
  <2>3. Comes(Parcel(mi), pi, Parcel(ni), qi)
    BY <1>5, <1>6, <1>8 DEF Comes
  <2> HIDE DEF mi, ni, pi, qi
  <2>4. mi = ni /\ pi = qi
    BY <2>2, <2>3, SameParcel
  <2> QED
    BY <2>4 DEF mi, ni, pi, qi
<1>9. \A i \in 0..l : p[i] = q[i]
  <2> DEFINE T == {i \in 0..l : p[i] # q[i]}
  <2>1. SUFFICES ASSUME T # {} PROVE FALSE
    OBVIOUS
  <2>2. PICK i \in T : \A k \in T : i <= k
    <3>1. T \in SUBSET Nat
      BY <1>7
    <3> HIDE DEF T
    <3> QED
      BY <2>1, <3>1, LeastNatural
  <2>3. i # 0
    BY <1>3, <1>5, <1>6
  <2>4. i \in 1..l /\ i - 1 \in 0..l /\ ~(i <= i - 1)
    BY <1>7, <2>3
  <2>5. p[i - 1] = q[i - 1]
    BY <2>2, <2>4
  <2>6. p[i] = q[i]
    BY <1>8, <2>4, <2>5
  <2> QED
    BY <2>6
<1>10. \A i \in 1..l : m[i] = n[i]
  <2> SUFFICES ASSUME NEW i \in 1..l PROVE m[i] = n[i]
    OBVIOUS
  <2>1. i - 1 \in 0..l
    BY <1>7
  <2> QED
    BY <1>8, <1>9, <2>1
<1> QED
  BY <1>4, <1>7, <1>10, SeqEqual DEF l

-----------------------------------------------------------------------------
(***************************************************************************)
(* Steps                                                                   *)
(***************************************************************************)
LEMMA HereTyped ==
    ASSUME NEW v, NEW s, Here(v, s)
    PROVE  pc \in {"line", "lf", "tag", "bulk", "value"}
  BY DEF Here, At

LEMMA AnsweredReads ==
    ASSUME Answered
    PROVE  \E r \in Replies, v \in Values, s \in Seq(Token) :
              /\ answer = {r} /\ Within(stack, r, v, s) /\ Here(v, s)
<1>1. PICK r \in Replies : answer = {r} /\ Reading(r)
  BY DEF Answered
<1>2. PICK v, s : Within(stack, r, v, s) /\ Here(v, s)
  BY <1>1 DEF Reading
<1>3. v \in Values /\ s \in Seq(Token)
  BY <1>2, WithinTyped
<1> QED
  BY <1>1, <1>2, <1>3

\* The client is reading when it is neither at rest nor before the first byte.
LEMMA AnsweredWhen ==
    ASSUME RespIInv, pc \in {"line", "lf", "tag", "bulk", "value"},
           pc # "line" \/ down # <<>> \/ pending # <<>>
    PROVE  Answered
  BY DEF RespIInv, AtRest, Unanswered, Quiet

\* A step of the client that goes on reading the same reply
LEMMA ReadOn ==
    ASSUME Answered, UNCHANGED <<up, ghostVars>>,
           down' \in Seq(Token), pending' \in Seq(Token),
           \A r \in Replies, v \in Values, s \in Seq(Token) :
              Within(stack, r, v, s) /\ Here(v, s)
                => \E v2, s2 : Within(stack', r, v2, s2) /\ Here(v2, s2)'
    PROVE  RespIInv'
<1>1. PICK r \in Replies, v \in Values, s \in Seq(Token) :
         answer = {r} /\ Within(stack, r, v, s) /\ Here(v, s)
  BY AnsweredReads
<1>2. Reading(r)'
  BY <1>1 DEF Reading
<1>3. up' = up /\ asked' = asked /\ heard' = heard /\ answer' = answer
  BY DEF ghostVars
<1>4. Answered'
  BY <1>1, <1>2, <1>3 DEF Answered
<1> QED
  BY <1>4 DEF RespIInv

LEMMA InitIs == ASSUME RespInit PROVE RespIInv
<1>1. <<>> \in Seq(Token)
  BY EmptySeq
<1> QED
  BY <1>1 DEF RespInit, RespIInv, AtRest, Quiet

LEMMA SendIs ==
    ASSUME RespIInv, NEW args \in Requests, Send(args)
    PROVE  AtRest /\ RespIInv'
<1>1. ~Answered
  <2> SUFFICES ASSUME Answered PROVE FALSE
    OBVIOUS
  <2>1. \E v \in Values, s \in Seq(Token) : Here(v, s)
    BY AnsweredReads
  <2> QED
    BY <2>1, HereTyped DEF Send
<1>2. AtRest
  BY <1>1 DEF RespIInv, Unanswered, Send
<1> DEFINE t == RequestTokens(args)
<1>3. t \in Seq(Token)
  BY RequestTyped
<1>4. up' = up \o t
  BY DEF Send
<1> HIDE DEF t
<1>5. up' = t
  BY <1>2, <1>3, <1>4, ConcatEmptySeq DEF AtRest
<1>6. Unanswered'
  BY <1>2, <1>5 DEF Unanswered, AtRest, Quiet, Send, t
<1>7. down' \in Seq(Token) /\ pending' \in Seq(Token)
  BY DEF Send, RespIInv
<1> QED
  BY <1>2, <1>6, <1>7 DEF RespIInv

\* The server hears what was asked.
LEMMA ServerAnswersIs ==
    ASSUME RespIInv, NEW r \in Replies, ServerAnswers(r)
    PROVE  Unanswered /\ heard' = asked /\ RespIInv'
<1>1. PICK args \in Requests : up = RequestTokens(args) /\ heard' = {args}
  BY DEF ServerAnswers
<1>2. up # <<>>
  BY <1>1, RequestTyped
<1>3. Unanswered
  BY <1>2 DEF RespIInv, AtRest, Answered, ServerAnswers
<1>4. PICK args2 \in Requests : asked = {args2} /\ up = RequestTokens(args2)
  BY <1>3 DEF Unanswered
<1>5. args2 = args
  BY <1>1, <1>4, SameRequest
<1>6. r \in Values /\ Wire[r] = Encoded(r) /\ Wire[r] \in Seq(Token)
  BY WireAssumption
<1>7. Within(stack', r, r, <<>>)
  BY <1>3, <1>6, WithinReply DEF Unanswered, Quiet, ServerAnswers, readVars
<1>8. down' \o pending' = Wire[r] \o <<>>
  <2>1. down' = <<>> /\ pending' = Wire[r]
    BY <1>3, <1>6 DEF Unanswered, Quiet, ServerAnswers
  <2>2. <<>> \o Wire[r] = Wire[r] \o <<>>
    BY <1>6, ConcatEmptySeq
  <2> QED
    BY <2>1, <2>2
<1>9. Here(r, <<>>)'
  BY <1>3, <1>8 DEF Here, At, Unanswered, Quiet, ServerAnswers, readVars
<1>10. Reading(r)'
  BY <1>7, <1>9 DEF Reading
<1>11. Answered'
  BY <1>1, <1>4, <1>5, <1>10 DEF Answered, ServerAnswers
<1>12. down' \in Seq(Token) /\ pending' \in Seq(Token)
  BY <1>6 DEF ServerAnswers, RespIInv
<1> QED
  BY <1>1, <1>3, <1>4, <1>5, <1>11, <1>12 DEF RespIInv

\* What is written moves from one end of the stream to the other.
LEMMA Moved ==
    ASSUME NEW S, NEW d \in Seq(S), NEW p \in Seq(S), p # <<>>
    PROVE  /\ Append(d, Head(p)) \in Seq(S) /\ Tail(p) \in Seq(S)
           /\ Append(d, Head(p)) \o Tail(p) = d \o p
<1> DEFINE h == Head(p)
           one == <<h>>
           t == Tail(p)
<1>1. h \in S /\ t \in Seq(S)
  BY HeadTailProperties
<1>2. one \in Seq(S) /\ Len(one) = 1 /\ one[1] = h
  BY <1>1
<1>3. Append(d, h) = d \o one /\ Append(d, h) \in Seq(S)
  BY <1>1, AppendIsConcat, AppendProperties
<1>4. p = one \o t
  <2>1. Len(p) \in Nat \ {0}
    BY EmptySeq
  <2>2. h = p[1] /\ Len(t) = Len(p) - 1 /\ \A i \in 1..Len(t) : t[i] = p[i + 1]
    BY <2>1
  <2> HIDE DEF h, one, t
  <2>3. /\ one \o t \in Seq(S) /\ Len(one \o t) = Len(one) + Len(t)
        /\ \A j \in 1..Len(one) : (one \o t)[j] = one[j]
        /\ \A j \in 1..Len(t) : (one \o t)[Len(one) + j] = t[j]
    <3>1. one \in Seq(S) /\ t \in Seq(S)
      BY <1>1, <1>2
    <3> QED
      BY <3>1, Parts
  <2> DEFINE x == one \o t
  <2> HIDE DEF x
  <2>4. Len(x) = Len(p) /\ x \in Seq(S)
    BY <1>2, <2>1, <2>2, <2>3 DEF x
  <2>5. \A j \in 1..Len(p) : p[j] = x[j]
    <3> SUFFICES ASSUME NEW j \in 1..Len(p) PROVE p[j] = x[j]
      OBVIOUS
    <3>1. CASE j = 1
      BY <1>2, <2>2, <2>3, <3>1 DEF x
    <3>2. CASE j # 1
      <4>1. j - 1 \in 1..Len(t) /\ j = 1 + (j - 1) /\ j = (j - 1) + 1
        BY <2>1, <2>2, <3>2
      <4> QED
        BY <1>2, <2>2, <2>3, <4>1 DEF x
    <3> QED
      BY <3>1, <3>2
  <2>6. p = x
    BY <2>4, <2>5, SeqEqual
  <2> QED
    BY <2>6 DEF x
<1> HIDE DEF h, one, t
<1>5. (d \o one) \o t = d \o (one \o t)
  <2>1. d \in Seq(S) /\ one \in Seq(S) /\ t \in Seq(S)
    BY <1>1, <1>2
  <2> QED
    BY <2>1, ConcatAssociative
<1> QED
  BY <1>1, <1>3, <1>4, <1>5 DEF h, t

LEMMA ServerWritesIs ==
    ASSUME RespIInv, ServerWrites
    PROVE  RespIInv'
<1>1. Answered
  BY DEF RespIInv, AtRest, Unanswered, Quiet, ServerWrites
<1>2. /\ Append(down, Head(pending)) \in Seq(Token) /\ Tail(pending) \in Seq(Token)
      /\ Append(down, Head(pending)) \o Tail(pending) = down \o pending
  BY Moved DEF RespIInv, ServerWrites
<1>3. /\ down' \in Seq(Token) /\ pending' \in Seq(Token)
      /\ down' \o pending' = down \o pending
  BY <1>2 DEF ServerWrites
<1>4. ASSUME NEW v, NEW s, Here(v, s) PROVE Here(v, s)'
  BY <1>3, <1>4 DEF Here, ServerWrites, readVars
<1>5. stack' = stack /\ UNCHANGED <<up, ghostVars>>
  BY DEF ServerWrites, readVars
<1> QED
  BY <1>1, <1>3, <1>4, <1>5, ReadOn

LEMMA CrashIs ==
    ASSUME RespIInv, Crash
    PROVE  RespIInv'
<1>1. UNCHANGED <<up, down, pending, pc, line, need, stack, value,
                  asked, heard, answer, result>>
  BY DEF Crash, readVars, ghostVars
<1>2. ASSUME NEW r PROVE Reading(r)' <=> Reading(r)
  BY <1>1 DEF Reading, Here
<1>3. Answered => Answered'
  BY <1>1, <1>2 DEF Answered
<1>4. AtRest => AtRest'
  BY <1>1 DEF AtRest, Quiet
<1>5. Unanswered => Unanswered'
  BY <1>1 DEF Unanswered, Quiet
<1>6. pc = "broken" => (pc = "broken" /\ ~alive)'
  BY <1>1 DEF Crash
<1>7. down' \in Seq(Token) /\ pending' \in Seq(Token)
  BY <1>1 DEF RespIInv
<1> QED
  BY <1>3, <1>4, <1>5, <1>6, <1>7 DEF RespIInv

-----------------------------------------------------------------------------
(***************************************************************************)
(* Steps of the reader                                                     *)
(***************************************************************************)
\* One token is read.
LEMMA TokenRead ==
    ASSUME RespIInv, NEW x \in Token, NEW t \in Seq(Token),
           Comes(down, pending, <<x>>, t), down # <<>>
    PROVE  Head(down) = x /\ Tail(down) \in Seq(Token) /\ Tail(down) \o pending = t
<1>1. down \in Seq(Token) /\ pending \in Seq(Token)
  BY DEF RespIInv
<1> QED
  BY <1>1, TakeFirst

LEMMA ReadByteIs ==
    ASSUME RespIInv, ReadByte
    PROVE  RespIInv'
<1>1. Answered
  BY AnsweredWhen DEF ReadByte
<1>2. ASSUME NEW v \in Values, NEW s \in Seq(Token), Here(v, s)
      PROVE  Tail(down) \in Seq(Token) /\ Here(v, s)'
  <2> DEFINE h == Heading(v)
             bs == Body(v) \o s
             l == <<LF>> \o bs
             c == <<CR>> \o l
  <2>1. /\ bs \in Seq(Token) /\ l \in Seq(Token) /\ c \in Seq(Token)
        /\ Wire[v] \o s = <<h>> \o c
    BY WireSteps
  <2>2. h \in Token /\ h # CR /\ CR \in Token
    BY WireParts, HeaderIsNoByte DEF Token
  <2>3. \/ line = <<>> /\ Comes(down, pending, <<h>>, c)
        \/ line = <<h>> /\ Comes(down, pending, <<CR>>, l)
    BY <1>2, <2>1 DEF Here, At, ReadByte, Comes
  <2> HIDE DEF h, bs, l, c
  <2>4. CASE line = <<>> /\ Comes(down, pending, <<h>>, c)
    <3>1. Head(down) = h /\ Tail(down) \in Seq(Token) /\ Tail(down) \o pending = c
      BY <2>1, <2>2, <2>4, TokenRead DEF ReadByte
    <3>2. pc' = "line" /\ line' = <<h>>
      BY <2>2, <2>4, <3>1 DEF ReadByte
    <3>3. down' \o pending' = c
      BY <3>1 DEF ReadByte
    <3>4. Here(v, s)'
      BY <3>2, <3>3 DEF Here, At, h, c, l, bs
    <3> QED
      BY <3>1, <3>4
  <2>5. CASE line = <<h>> /\ Comes(down, pending, <<CR>>, l)
    <3>1. Head(down) = CR /\ Tail(down) \in Seq(Token) /\ Tail(down) \o pending = l
      BY <2>1, <2>2, <2>5, TokenRead DEF ReadByte
    <3>2. pc' = "lf" /\ line' = <<h>>
      BY <2>5, <3>1 DEF ReadByte
    <3>3. down' \o pending' = l
      BY <3>1 DEF ReadByte
    <3>4. Here(v, s)'
      BY <3>2, <3>3 DEF Here, At, h, l, bs
    <3> QED
      BY <3>1, <3>4
  <2> QED
    BY <2>3, <2>4, <2>5
<1>3. down' \in Seq(Token) /\ pending' \in Seq(Token)
  BY <1>1, <1>2, AnsweredReads DEF ReadByte, RespIInv
<1>4. stack' = stack /\ UNCHANGED <<up, ghostVars>>
  BY DEF ReadByte
<1> QED
  BY <1>1, <1>2, <1>3, <1>4, ReadOn

LEMMA ReadLfIs ==
    ASSUME RespIInv, ReadLf
    PROVE  RespIInv'
<1>1. Answered
  BY AnsweredWhen DEF ReadLf
<1>2. ASSUME NEW v \in Values, NEW s \in Seq(Token), Here(v, s)
      PROVE  Tail(down) \in Seq(Token) /\ Here(v, s)'
  <2> DEFINE h == Heading(v)
             bs == Body(v) \o s
  <2>1. bs \in Seq(Token) /\ LF \in Token
    BY WireSteps DEF Token
  <2>2. line = <<h>> /\ Comes(down, pending, <<LF>>, bs)
    BY <1>2 DEF Here, At, ReadLf, Comes
  <2> HIDE DEF h, bs
  <2>3. Tail(down) \in Seq(Token) /\ Tail(down) \o pending = bs
    BY <2>1, <2>2, TokenRead DEF ReadLf
  <2>4. pc' = "tag" /\ line' = <<h>> /\ down' \o pending' = bs
    BY <2>2, <2>3 DEF ReadLf, readVars
  <2>5. Here(v, s)'
    BY <2>4 DEF Here, At, h, bs
  <2> QED
    BY <2>3, <2>5
<1>3. down' \in Seq(Token) /\ pending' \in Seq(Token)
  BY <1>1, <1>2, AnsweredReads DEF ReadLf, RespIInv
<1>4. stack' = stack /\ UNCHANGED <<up, ghostVars>>
  BY DEF ReadLf, readVars
<1> QED
  BY <1>1, <1>2, <1>3, <1>4, ReadOn

\* Item i of the array a, and the frame that says so
LEMMA OpenItem ==
    ASSUME NEW a \in Values, a.tag = "Array", NEW i \in 1..Len(a.items),
           NEW outer \in Seq(Token)
    PROVE  LET v == a.items[i]
               s == Tails(a)[i] \o outer
               f == [left |-> Len(a.items) - i + 1, items |-> SubSeq(a.items, 1, i - 1)]
           IN /\ v \in Values /\ s \in Seq(Token) /\ f \in Frames
              /\ Open(f, a, v, outer, s)
              /\ Tails(a)[i - 1] \o outer = Wire[v] \o s
<1> DEFINE n == Len(a.items)
           v == a.items[i]
           w == Wire[v]
           t == Tails(a)[i]
           f == [left |-> n - i + 1, items |-> SubSeq(a.items, 1, i - 1)]
<1>1. /\ n \in Nat /\ a.items \in Seq(Values) /\ \A j \in 1..n : a.items[j] \in Values
  BY ParcelsTyped
<1>2. i \in 0..n
  BY <1>1
<1>3. t \in Seq(Token) /\ Tails(a)[i - 1] = w \o t
  BY <1>2, TailsAre
<1>4. v \in Values /\ w \in Seq(Token)
  BY <1>1, WireAssumption
<1>5. Open(f, a, v, outer, t \o outer)
  BY DEF Open
<1>6. n - i + 1 \in Nat
  BY <1>1
<1>7. SubSeq(a.items, 1, i - 1) \in Seq(Values)
  <2> DEFINE it == a.items
             m == i - 1
  <2>1. m \in Int /\ 1 \in Int /\ \A j \in 1..m : it[j] \in Values
    BY <1>1
  <2> HIDE DEF it, m
  <2>2. SubSeq(it, 1, m) \in Seq(Values)
    BY <2>1, SubSeqProperties
  <2> QED
    BY <2>2 DEF it, m
<1>8. f \in Frames
  BY <1>6, <1>7 DEF Frames
<1> HIDE DEF w, t
<1>9. t \o outer \in Seq(Token)
  BY <1>3, ConcatProperties
<1>10. (w \o t) \o outer = w \o (t \o outer)
  <2>1. w \in Seq(Token) /\ t \in Seq(Token) /\ outer \in Seq(Token)
    BY <1>3, <1>4
  <2> QED
    BY <2>1, ConcatAssociative
<1> QED
  BY <1>3, <1>4, <1>5, <1>8, <1>9, <1>10 DEF w, t

\* What a header line tells the reader
LEMMA HeaderRead ==
    ASSUME NEW v \in Values, NEW s \in Seq(Token), Here(v, s), pc = "tag"
    PROVE  /\ line = <<Heading(v)>> /\ line # <<>> /\ line[1] = Heading(v) /\ Len(line) = 1
           /\ \A t : HasTag(t) <=> Heading(v).tag = t
           /\ Known /\ down \o pending = Body(v) \o s
<1>1. line = <<Heading(v)>> /\ down \o pending = Body(v) \o s
  BY DEF Here, At
<1>2. line # <<>> /\ line[1] = Heading(v) /\ Len(line) = 1
  BY <1>1
<1>3. "tag" \in DOMAIN Heading(v)
  BY WireParts, HeaderIsNoByte
<1>4. \A t : HasTag(t) <=> Heading(v).tag = t
  BY <1>2, <1>3 DEF HasTag
<1>5. Known
  BY <1>4, HeadingKinds DEF Known
<1> QED
  BY <1>1, <1>2, <1>4, <1>5

\* A header that is a whole value
LEMMA WholeValue ==
    ASSUME NEW v \in Values, NEW s \in Seq(Token), Here(v, s), pc = "tag", ReadTag,
           Body(v) = <<>>, Gives(v)
    PROVE  stack' = stack /\ Here(v, s)'
<1>1. down \o pending = s
  BY ConcatEmptySeq DEF Here, At
<1>2. /\ pc' = "value" /\ line' = <<>> /\ value' = v /\ stack' = stack
      /\ down' = down /\ pending' = pending
  BY DEF ReadTag, connVars, Gives
<1> QED
  BY <1>1, <1>2 DEF Here, At

LEMMA ReadTagIs ==
    ASSUME RespIInv, ReadTag
    PROVE  RespIInv'
<1>1. Answered
  BY AnsweredWhen DEF ReadTag
<1>2. ASSUME NEW r \in Replies, NEW v \in Values, NEW s \in Seq(Token),
             Within(stack, r, v, s), Here(v, s)
      PROVE  \E v2, s2 : Within(stack', r, v2, s2) /\ Here(v2, s2)'
  <2> DEFINE h == Heading(v)
  <2>1. /\ line # <<>> /\ line[1] = h /\ Known
        /\ \A t : HasTag(t) <=> h.tag = t
        /\ down \o pending = Body(v) \o s
    BY <1>2, HeaderRead DEF ReadTag
  <2>2. /\ h.tag \in {"+", "-", ":", "$", "*"}
        /\ h.tag = "+" => v = SimpleResp(h.text) /\ Body(v) = <<>>
        /\ h.tag = "-" => v = ErrorResp(h.text) /\ Body(v) = <<>>
        /\ h.tag = ":" => v = IntResp(h.n) /\ Body(v) = <<>>
        /\ h.tag = "$" => /\ h.n < 0 => v = NilResp /\ Body(v) = <<>>
                          /\ ~(h.n < 0) => v.tag = "Bulk" /\ h.n = Len(v.bytes)
        /\ h.tag = "*" => /\ h.n < 0 => v = NilArrayResp /\ Body(v) = <<>>
                          /\ ~(h.n < 0) => v.tag = "Array" /\ h.n = Len(v.items)
    BY HeadingKinds
  <2> HIDE DEF h
  <2>3. pc = "tag" /\ line' = <<>> /\ down' = down /\ pending' = pending
    BY DEF ReadTag, connVars
  <2>4. CASE h.tag \in {"+", "-", ":"}
    <3>1. ReadSimple
      BY <2>1, <2>4 DEF ReadTag, ReadBulkHeader, ReadArrayHeader
    <3>2. Gives(v) /\ Body(v) = <<>>
      BY <2>1, <2>2, <2>4, <3>1 DEF ReadSimple
    <3> QED
      BY <1>2, <2>3, <3>2, WholeValue
  <2>5. CASE h.tag = "$"
    <3>1. ReadBulkHeader
      BY <2>1, <2>5 DEF ReadTag, ReadSimple, ReadArrayHeader
    <3>2. CASE h.n < 0
      <4>1. Gives(v) /\ Body(v) = <<>>
        BY <2>1, <2>2, <2>5, <3>1, <3>2 DEF ReadBulkHeader
      <4> QED
        BY <1>2, <2>3, <4>1, WholeValue
    <3>3. CASE ~(h.n < 0)
      <4>1. need' = Len(v.bytes) /\ v.tag = "Bulk" /\ pc' = "bulk" /\ stack' = stack
        BY <2>1, <2>2, <2>5, <3>1, <3>3 DEF ReadBulkHeader
      <4>2. Here(v, s)'
        BY <2>1, <2>3, <4>1 DEF Here, At
      <4> QED
        BY <1>2, <4>1, <4>2
    <3> QED
      BY <3>2, <3>3
  <2>6. CASE h.tag = "*"
    <3>1. ReadArrayHeader
      BY <2>1, <2>6 DEF ReadTag, ReadSimple, ReadBulkHeader
    <3>2. CASE h.n < 0
      <4>1. Gives(v) /\ Body(v) = <<>>
        BY <2>1, <2>2, <2>6, <3>1, <3>2 DEF ReadArrayHeader
      <4> QED
        BY <1>2, <2>3, <4>1, WholeValue
    <3>3. CASE ~(h.n < 0)
      <4>1. v.tag = "Array" /\ h.n = Len(v.items)
        BY <2>2, <2>6, <3>3
      <4>2. /\ Len(v.items) \in Nat /\ v.items \in Seq(Values) /\ v = ArrayResp(v.items)
        BY <4>1, ParcelsTyped
      <4>3. /\ Tails(v)[0] = Body(v) /\ Tails(v)[Len(v.items)] = <<>>
        BY <4>1, TailsAre
      <4>4. CASE h.n = 0
        <5>1. v.items = <<>>
          BY <4>1, <4>2, <4>4, EmptySeq
        <5>2. v = ArrayResp(<<>>) /\ Body(v) = <<>>
          BY <4>1, <4>2, <4>3, <4>4, <5>1
        <5>3. Gives(v)
          BY <2>1, <3>1, <3>3, <4>4, <5>2 DEF ReadArrayHeader
        <5> QED
          BY <1>2, <2>3, <5>2, <5>3, WholeValue
      <4>5. CASE h.n # 0
        <5> DEFINE v2 == v.items[1]
                   s2 == Tails(v)[1] \o s
                   f == [left |-> Len(v.items) - 1 + 1, items |-> SubSeq(v.items, 1, 1 - 1)]
        <5>1. 1 \in 1..Len(v.items)
          BY <4>1, <4>2, <4>5
        <5>2. /\ v2 \in Values /\ s2 \in Seq(Token) /\ f \in Frames
              /\ Open(f, v, v2, s, s2)
              /\ Tails(v)[1 - 1] \o s = Wire[v2] \o s2
          BY <4>1, <5>1, OpenItem
        <5>3. f = [left |-> h.n, items |-> <<>>]
          <6>1. SubSeq(v.items, 1, 1 - 1) = <<>>
            BY SubSeqEmpty
          <6>2. Len(v.items) - 1 + 1 = h.n
            BY <4>1, <4>2
          <6> QED
            BY <6>1, <6>2
        <5>4. stack' = <<f>> \o stack /\ pc' = "line"
          BY <2>1, <3>1, <3>3, <4>5, <5>3 DEF ReadArrayHeader
        <5> HIDE DEF f, v2, s2
        <5>5. Within(stack', r, v2, s2)
          BY <1>2, <5>2, <5>4, WithinPushed
        <5>6. 1 - 1 = 0
          OBVIOUS
        <5>7. down' \o pending' = Wire[v2] \o s2
          BY <2>1, <2>3, <4>3, <5>2, <5>6
        <5>8. Here(v2, s2)'
          BY <2>3, <5>4, <5>7 DEF Here, At
        <5> QED
          BY <5>5, <5>8
      <4> QED
        BY <4>4, <4>5
    <3> QED
      BY <3>2, <3>3
  <2> QED
    BY <2>2, <2>4, <2>5, <2>6
<1>3. down' \in Seq(Token) /\ pending' \in Seq(Token) /\ UNCHANGED <<up, ghostVars>>
  BY DEF ReadTag, RespIInv, connVars
<1> QED
  BY <1>1, <1>2, <1>3, ReadOn

LEMMA ReadBulkIs ==
    ASSUME RespIInv, ReadBulk
    PROVE  RespIInv'
<1>1. Answered
  BY AnsweredWhen DEF ReadBulk
<1>2. ASSUME NEW v \in Values, NEW s \in Seq(Token), Here(v, s)
      PROVE  down' \in Seq(Token) /\ Here(v, s)'
  <2> DEFINE b == v.bytes
             z == Ending
             bz == b \o z
             zs == z \o s
  <2>1. /\ line = <<>> /\ v.tag = "Bulk" /\ need = Len(b)
        /\ down \o pending = Body(v) \o s
    BY <1>2 DEF Here, At, ReadBulk
  <2>2. v = BulkResp(b) /\ b \in Seq(Bytes)
    BY <2>1, ValueKinds DEF NilResp, NilArrayResp
  <2>3. b \in Seq(Token) /\ z \in Seq(Token) /\ Len(z) = 2
    BY <2>2, BytesAreTokens DEF Ending, Token
  <2>4. Body(v) = bz
    BY <2>1 DEF Body
  <2>5. down \in Seq(Token) /\ pending \in Seq(Token) /\ Len(down) \in Nat
    BY LenProperties DEF RespIInv
  <2> HIDE DEF b, z
  <2>6. bz \in Seq(Token) /\ Len(bz) = Len(b) + 2 /\ Len(b) \in Nat /\ zs \in Seq(Token)
    <3>1. bz \in Seq(Token) /\ Len(bz) = Len(b) + Len(z) /\ Len(b) \in Nat
      BY <2>3, Parts
    <3>2. zs \in Seq(Token)
      BY <2>3, ConcatProperties
    <3> QED
      BY <2>3, <3>1, <3>2
  <2>7. bz \o s = b \o zs
    BY <2>3, ConcatAssociative
  <2> HIDE DEF bz, zs
  <2>8. Comes(down, pending, b, zs) /\ Comes(down, pending, bz, s)
    BY <2>1, <2>4, <2>7 DEF Comes
  <2>9. Len(down) >= need + 2
    BY DEF ReadBulk, BulkFrame
  <2>10. Len(down) >= Len(b) /\ Len(down) >= Len(bz)
    BY <2>1, <2>5, <2>6, <2>9
  <2>11. SubSeq(down, 1, Len(b)) = b
    BY <2>3, <2>5, <2>6, <2>8, <2>10, TakeFront
  <2>12. /\ SubSeq(down, Len(bz) + 1, Len(down)) \in Seq(Token)
         /\ SubSeq(down, Len(bz) + 1, Len(down)) \o pending = s
    BY <2>5, <2>6, <2>8, <2>10, TakeFront
  <2>13. Len(bz) + 1 = BulkFrame(need) + 1
    BY <2>1, <2>6 DEF BulkFrame
  <2>14. down' \in Seq(Token) /\ down' \o pending' = s
    BY <2>12, <2>13 DEF ReadBulk
  <2>15. value' = v /\ pc' = "value" /\ line' = <<>>
    BY <2>1, <2>2, <2>11 DEF ReadBulk
  <2> QED
    BY <2>14, <2>15 DEF Here, At
<1>3. down' \in Seq(Token) /\ pending' \in Seq(Token)
  BY <1>1, <1>2, AnsweredReads DEF ReadBulk, RespIInv
<1>4. stack' = stack /\ UNCHANGED <<up, ghostVars>>
  BY DEF ReadBulk
<1> QED
  BY <1>1, <1>2, <1>3, <1>4, ReadOn

\* The items read so far and the one that has just been read
LEMMA OneMoreItem ==
    ASSUME NEW it \in Seq(Values), NEW i \in 1..Len(it)
    PROVE  /\ Append(SubSeq(it, 1, i - 1), it[i]) = SubSeq(it, 1, i)
           /\ i = Len(it) => SubSeq(it, 1, i) = it
<1>1. /\ Len(it) \in Nat /\ it[i] \in Values
      /\ \A j \in 1..Len(it) : it[j] \in Values
  BY LenProperties, ElementOfSeq
<1>2. SubSeq(it, 1, i) = SubSeq(it, 1, i - 1) \o <<it[i]>>
  <2>1. 1 \in 1..Len(it) /\ i \in 1..Len(it)
    BY <1>1
  <2> QED
    BY <2>1, SubSeqRecursiveSecond
<1> DEFINE m == i - 1
<1>3. SubSeq(it, 1, m) \in Seq(Values)
  <2>1. m \in Int /\ 1 \in Int /\ \A j \in 1..m : it[j] \in Values
    BY <1>1
  <2> HIDE DEF m
  <2> QED
    BY <2>1, SubSeqProperties
<1> DEFINE x == SubSeq(it, 1, m)
           y == it[i]
<1> HIDE DEF x, y
<1>4. Append(x, y) = x \o <<y>>
  <2>1. x \in Seq(Values) /\ y \in Values
    BY <1>1, <1>3 DEF x, y
  <2> QED
    BY <2>1, AppendIsConcat
<1>5. i = Len(it) => SubSeq(it, 1, i) = it
  BY SubSeqFull
<1> QED
  BY <1>2, <1>4, <1>5 DEF x, y

LEMMA PushItemIs ==
    ASSUME RespIInv, PushItem
    PROVE  RespIInv'
<1>1. Answered
  BY AnsweredWhen DEF PushItem
<1>2. ASSUME NEW r \in Replies, NEW v \in Values, NEW s \in Seq(Token),
             Within(stack, r, v, s), Here(v, s)
      PROVE  \E v2, s2 : Within(stack', r, v2, s2) /\ Here(v2, s2)'
  <2>1. value = v /\ line = <<>> /\ down \o pending = s /\ pc = "value" /\ stack # <<>>
    BY <1>2 DEF Here, At, PushItem
  <2>2. UNCHANGED <<down, pending, line>>
    BY DEF PushItem, connVars
  <2>3. PICK a, outer : Within(Tail(stack), r, a, outer) /\ Open(stack[1], a, v, outer, s)
    BY <1>2, <2>1, WithinPopped
  <2>4. a \in Values /\ outer \in Seq(Token)
    BY <2>3, WithinTyped
  <2>5. a.tag = "Array"
    BY <2>3 DEF Open
  <2> DEFINE it == a.items
             n == Len(it)
  <2>6. PICK i \in 1..n :
           /\ stack[1] = [left |-> n - i + 1, items |-> SubSeq(it, 1, i - 1)]
           /\ v = it[i] /\ s = Tails(a)[i] \o outer
    BY <2>3 DEF Open
  <2>7. n \in Nat /\ it \in Seq(Values) /\ a = ArrayResp(it)
    BY <2>4, <2>5, ParcelsTyped
  <2>8. stack[1].left = n - i + 1 /\ stack[1].items = SubSeq(it, 1, i - 1)
    BY <2>6
  <2>9. Append(stack[1].items, v) = SubSeq(it, 1, i)
    BY <2>6, <2>7, <2>8, OneMoreItem
  <2>10. CASE i = n
    <3>1. SubSeq(it, 1, i) = it
      BY <2>7, <2>10, SubSeqFull
    <3>2. stack[1].left = 1
      BY <2>7, <2>8, <2>10
    <3>3. value' = a /\ stack' = Tail(stack) /\ pc' = "value"
      BY <2>1, <2>7, <2>9, <3>1, <3>2 DEF PushItem, Push
    <3>4. s = outer
      <4>1. Tails(a)[n] = <<>>
        BY <2>4, <2>5, TailsAre
      <4> QED
        BY <2>4, <2>6, <2>10, <4>1, ConcatEmptySeq
    <3>5. Here(a, outer)'
      BY <2>1, <2>2, <3>3, <3>4 DEF Here, At
    <3> QED
      BY <2>3, <3>3, <3>5
  <2>11. CASE i # n
    <3> DEFINE j == i + 1
               v2 == it[j]
               s2 == Tails(a)[j] \o outer
               f == [left |-> n - j + 1, items |-> SubSeq(it, 1, j - 1)]
    <3>1. j \in 1..n /\ j - 1 = i /\ n - i + 1 # 1 /\ n - j + 1 = n - i + 1 - 1
      BY <2>7, <2>11
    <3>2. /\ v2 \in Values /\ s2 \in Seq(Token) /\ f \in Frames
          /\ Open(f, a, v2, outer, s2)
          /\ Tails(a)[j - 1] \o outer = Wire[v2] \o s2
      <4> HIDE DEF j
      <4> QED
        BY <2>4, <2>5, <3>1, OpenItem
    <3>3. f = [left |-> stack[1].left - 1, items |-> Append(stack[1].items, v)]
      <4>1. n - j + 1 = stack[1].left - 1
        BY <2>8, <3>1
      <4> HIDE DEF j, n, it
      <4>2. SubSeq(it, 1, j - 1) = Append(stack[1].items, v)
        BY <2>9, <3>1
      <4> QED
        BY <4>1, <4>2
    <3>4. stack' = <<f>> \o Tail(stack) /\ pc' = "line"
      BY <2>1, <2>8, <3>1, <3>3 DEF PushItem, Push
    <3>5. down' \o pending' = Wire[v2] \o s2
      BY <2>1, <2>2, <2>6, <3>1, <3>2
    <3> HIDE DEF f, v2, s2
    <3>6. Within(stack', r, v2, s2)
      BY <2>3, <3>2, <3>4, WithinPushed
    <3>7. Here(v2, s2)'
      BY <2>1, <2>2, <3>4, <3>5 DEF Here, At
    <3> QED
      BY <3>6, <3>7
  <2> QED
    BY <2>10, <2>11
<1>3. down' \in Seq(Token) /\ pending' \in Seq(Token) /\ UNCHANGED <<up, ghostVars>>
  BY DEF PushItem, RespIInv, connVars
<1> QED
  BY <1>1, <1>2, <1>3, ReadOn

\* What is returned is the reply, and nothing is left.
LEMMA ReturnValueIs ==
    ASSUME RespIInv, ReturnValue
    PROVE  Answered /\ result' = answer /\ RespIInv'
<1>1. Answered
  BY AnsweredWhen DEF ReturnValue
<1>2. PICK r \in Replies, v \in Values, s \in Seq(Token) :
         answer = {r} /\ Within(stack, r, v, s) /\ Here(v, s)
  BY <1>1, AnsweredReads
<1>3. v = r /\ s = <<>>
  BY <1>2, WithinTyped DEF ReturnValue
<1>4. value = r /\ line = <<>> /\ down \o pending = <<>>
  BY <1>2, <1>3 DEF Here, At, ReturnValue
<1>5. down \in Seq(Token) /\ pending \in Seq(Token)
  BY DEF RespIInv
<1>6. down = <<>> /\ pending = <<>>
  BY <1>4, <1>5, ConcatEqualIffEmpty
<1>7. AtRest'
  BY <1>1, <1>4, <1>6 DEF AtRest, Quiet, ReturnValue, connVars, Answered
<1>8. down' \in Seq(Token) /\ pending' \in Seq(Token)
  BY <1>5 DEF ReturnValue, connVars
<1> QED
  BY <1>1, <1>2, <1>4, <1>7, <1>8 DEF ReturnValue, RespIInv

LEMMA EndOfStreamIs ==
    ASSUME RespIInv, EndOfStream
    PROVE  /\ pc \in {"line", "lf", "bulk"} /\ asked # {}
           /\ RespIInv'
<1>1. pc \in {"line", "lf", "bulk"}
  BY DEF EndOfStream, Waiting
<1>2. asked # {}
  BY <1>1 DEF RespIInv, AtRest, Unanswered, Answered
<1>3. down' \in Seq(Token) /\ pending' \in Seq(Token) /\ pc' = "broken" /\ ~alive'
  BY DEF EndOfStream, RespIInv, connVars
<1> QED
  BY <1>1, <1>2, <1>3 DEF RespIInv

LEMMA RespStep == ASSUME RespIInv, [RespNext]_respVars PROVE RespIInv'
<1>1. CASE SendSome
  BY <1>1, SendIs DEF SendSome
<1>2. CASE Server
  BY <1>2, ServerAnswersIs, ServerWritesIs DEF Server
<1>3. CASE Crash
  BY <1>3, CrashIs
<1>4. CASE ClientReads
  BY <1>4, ReadByteIs, ReadLfIs, ReadTagIs, ReadBulkIs, PushItemIs, ReturnValueIs,
     EndOfStreamIs DEF ClientReads
<1>5. CASE UNCHANGED respVars
  <2>1. UNCHANGED <<up, down, pending, alive, pc, line, need, stack, value,
                    asked, heard, answer, result>>
    BY <1>5 DEF respVars
  <2>2. ASSUME NEW r PROVE Reading(r)' <=> Reading(r)
    BY <2>1 DEF Reading, Here
  <2>3. Answered => Answered'
    BY <2>1, <2>2 DEF Answered
  <2> QED
    BY <2>1, <2>3 DEF RespIInv, AtRest, Unanswered, Quiet
<1> QED
  BY <1>1, <1>2, <1>3, <1>4, <1>5 DEF RespNext

-----------------------------------------------------------------------------
(***************************************************************************)
(* Theorems                                                                *)
(***************************************************************************)
\* What is to come is always exactly what the call in progress still needs.
THEOREM RespInvariant == RespSpec => []RespIInv
<1>1. RespInit => RespIInv
  BY InitIs
<1>2. RespIInv /\ [RespNext]_respVars => RespIInv'
  BY RespStep
<1> QED
  BY <1>1, <1>2, PTL DEF RespSpec

\* Between two calls the stream is empty, whatever was asked and answered: the
\* next call cannot take a part of the last reply for its own (resp.rs, cmd).
THEOREM NothingIsLeftOver == RespSpec => []NothingLeftOver
<1>1. ASSUME RespIInv PROVE NothingLeftOver
  <2> SUFFICES ASSUME pc = "idle" PROVE AtRest
    BY DEF NothingLeftOver, AtRest, Quiet
  <2>1. ~Answered
    <3> SUFFICES ASSUME Answered PROVE FALSE
      OBVIOUS
    <3>1. \E v \in Values, s \in Seq(Token) : Here(v, s)
      BY AnsweredReads
    <3> QED
      BY <3>1, HereTyped
  <2> QED
    BY <1>1, <2>1 DEF RespIInv, Unanswered
<1> QED
  BY <1>1, RespInvariant, PTL

\* Each line that read takes apart is one header with a tag it knows, whatever
\* bytes the bulk strings before it held (resp.rs, read and read_line).
THEOREM ReaderIsAligned == RespSpec => []ReaderStaysAligned
<1>1. ASSUME RespIInv PROVE ReaderStaysAligned
  <2> SUFFICES ASSUME pc = "tag" PROVE Len(line) = 1 /\ Known
    BY DEF ReaderStaysAligned
  <2>1. Answered
    BY <1>1, AnsweredWhen
  <2>2. PICK v \in Values, s \in Seq(Token) : Here(v, s)
    BY <2>1, AnsweredReads
  <2> QED
    BY <2>2, HeaderRead
<1> QED
  BY <1>1, RespInvariant, PTL

\* The step of the remote call that a step of the client and the wire is
LEMMA CallStep ==
    ASSUME RespIInv, [RespNext]_respVars
    PROVE  [Call!CallNext]_(Call!callVars)
<1>1. CASE SendSome
  <2>1. PICK args \in Requests : Send(args)
    BY <1>1 DEF SendSome
  <2>2. AtRest
    BY <2>1, SendIs
  <2>3. Call!Ask(args)
    BY <2>1, <2>2 DEF Send, AtRest, Call!Ask
  <2> QED
    BY <2>3 DEF Call!CallNext
<1>2. CASE Server
  <2>1. ASSUME NEW r \in Replies, ServerAnswers(r)
        PROVE  Call!CallNext
    <3>1. Unanswered /\ heard' = asked
      BY <2>1, ServerAnswersIs
    <3>2. Call!Reply(r)
      BY <2>1, <3>1 DEF ServerAnswers, Unanswered, Call!Reply
    <3> QED
      BY <3>2 DEF Call!CallNext
  <2>2. ASSUME ServerWrites PROVE UNCHANGED Call!callVars
    BY <2>2 DEF ServerWrites, ghostVars, Call!callVars
  <2> QED
    BY <1>2, <2>1, <2>2 DEF Server
<1>3. CASE Crash
  BY <1>3 DEF Crash, ghostVars, Call!callVars
<1>4. CASE ReturnValue
  <2>1. Answered /\ result' = answer
    BY <1>4, ReturnValueIs
  <2>2. Call!Return
    BY <1>4, <2>1 DEF ReturnValue, Answered, Call!Return
  <2> QED
    BY <2>2 DEF Call!CallNext
<1>5. CASE EndOfStream
  <2>1. pc \in {"line", "lf", "bulk"} /\ asked # {}
    BY <1>5, EndOfStreamIs
  <2>2. Call!Break
    BY <1>5, <2>1 DEF EndOfStream, ghostVars, Call!Break
  <2> QED
    BY <2>2 DEF Call!CallNext
<1>6. CASE ReadByte \/ ReadLf \/ ReadTag \/ ReadBulk \/ PushItem
  <2>1. UNCHANGED ghostVars
    BY <1>6 DEF ReadByte, ReadLf, ReadTag, ReadBulk, PushItem
  <2>2. pc # "broken" /\ pc' # "broken"
    <3>1. CASE ReadByte
      BY <3>1 DEF ReadByte
    <3>2. CASE ReadLf
      BY <3>2 DEF ReadLf
    <3>3. CASE ReadTag
      BY <3>3 DEF ReadTag, ReadSimple, ReadBulkHeader, ReadArrayHeader, Gives
    <3>4. CASE ReadBulk
      BY <3>4 DEF ReadBulk
    <3>5. CASE PushItem
      BY <3>5 DEF PushItem, Push
    <3> QED
      BY <1>6, <3>1, <3>2, <3>3, <3>4, <3>5
  <2> QED
    BY <2>1, <2>2 DEF ghostVars, Call!callVars
<1>7. CASE UNCHANGED respVars
  BY <1>7 DEF respVars, Call!callVars
<1> QED
  BY <1>1, <1>2, <1>3, <1>4, <1>5, <1>6, <1>7 DEF RespNext, ClientReads

\* The client and the wire are a remote call: the server hears the arguments
\* that were sent, the caller gets the reply to them, one call at a time, or an
\* error (resp.rs, Client::cmd).
THEOREM ClientImplementsCall == RespSpec => ImplementsCall
<1>1. RespInit => Call!CallInit
  BY DEF RespInit, Call!CallInit
<1>2. RespIInv /\ [RespNext]_respVars => [Call!CallNext]_(Call!callVars)
  BY CallStep
<1> QED
  BY <1>1, <1>2, RespInvariant, PTL DEF RespSpec, ImplementsCall, Call!CallSpec
=============================================================================
