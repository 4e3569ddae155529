------------------------- MODULE ReplicationProofs -------------------------
(***************************************************************************)
(* Dimension B proved for every value of the constants: whatever the two   *)
(* clocks say, however the replica's own clients read and watch, and       *)
(* however far behind it is, a replica that has replayed the log holds its *)
(* master's keyspace, and has propagated what its master did.              *)
(*                                                                         *)
(* The invariant is that the effects a replica has still to apply are a    *)
(* story (see Story) from its keyspace to its master's.  A step of         *)
(* the master appends a story to it, a replayed effect takes the first     *)
(* sentence away.  What the replica can do wrong with an effect, treat it  *)
(* as elapsed or find its key missing, is excluded because each effect of  *)
(* a story finds what it needs and the link sees no key as expired.        *)
(*                                                                         *)
(* A replica may carry stale "already expired" flags (see paused_watch), so*)
(* it is not Sound under its own mode; Linked(replica), the world that its *)
(* link sees, is, because Sound asks for fresh flags only where write      *)
(* lookups delete.                                                         *)
(***************************************************************************)
EXTENDS Replication, StepProofs

-----------------------------------------------------------------------------
(***************************************************************************)
(* What a unit does to the keyspace and what it pushes tell the same story,*)
(* for every value of the constants.                                       *)
(*                                                                         *)
(* Story(es, s, t): the effects es, carried out one after the other, lead  *)
(* from the keyspace s to the keyspace t, and each of them finds what it   *)
(* needs.  Tells(w, u): from world w to world u, the log has grown by the  *)
(* effects of a story from w's keyspace to u's, and `dirty` by their       *)
(* number.  Stories compose, so that a command's story is that of its      *)
(* lookups followed by that of its write.                                  *)
(***************************************************************************)

Keyspace == [Key -> Slot]

\* What carrying out an effect leaves in the slot it names
Wrote(slot, e) ==
    CASE e.op = "Set" -> [present |-> TRUE, value |-> e.val, expire_at |-> e.pxat]
      [] e.op = "Del" -> AbsentSlot
      [] e.op = "PExpireAt" -> [slot EXCEPT !.expire_at = e.at]
      [] e.op = "Persist" -> [slot EXCEPT !.expire_at = NoExpire]

\* An effect other than SET needs the key; PERSIST needs its deadline too.
Finds(slot, e) ==
    e.op # "Set" => slot.present /\ (e.op = "Persist" => slot.expire_at # NoExpire)

After(s, e) == [s EXCEPT ![e.key] = Wrote(@, e)]

Story(es, s, t) ==
    \E h \in [0..Len(es) -> Keyspace] :
        /\ h[0] = s /\ h[Len(es)] = t
        /\ \A i \in 1..Len(es) :
              Finds(h[i - 1][es[i].key], es[i]) /\ h[i] = After(h[i - 1], es[i])

-----------------------------------------------------------------------------
(***************************************************************************)
(* Sequences of effects                                                    *)
(***************************************************************************)
\* push drops nothing while there is room.
LEMMA PushFits ==
    ASSUME NEW log \in Seq(Effect), NEW es \in Seq(Effect), Len(log) + Len(es) <= ReplCap
    PROVE  Push(log, es) = log \o es
  BY ConcatProperties DEF Push

\* What is pushed is kept up to the capacity of the log.
LEMMA PushKeepsPrefix ==
    ASSUME NEW log \in Seq(Effect), NEW es \in Seq(Effect), Len(log) <= ReplCap
    PROVE  LET p == Push(log, es)
           IN /\ p \in Seq(Effect)
              /\ Len(p) = IF Len(log) + Len(es) <= ReplCap THEN Len(log) + Len(es)
                          ELSE ReplCap
              /\ \A i \in 1..Len(p) : p[i] = (log \o es)[i]
<1> DEFINE all == log \o es
           p == Push(log, es)
<1>1. all \in Seq(Effect) /\ Len(all) = Len(log) + Len(es)
  BY ConcatProperties
<1>2. Len(log) \in Nat /\ Len(es) \in Nat /\ ReplCap \in Nat
  BY LenProperties, ReplAssumption
<1>3. p = IF Len(all) <= ReplCap THEN all ELSE SubSeq(all, 1, ReplCap)
  BY DEF Push
<1>4. \A i \in 1..Len(all) : all[i] \in Effect
  BY <1>1, ElementOfSeq
<1> HIDE DEF all, p
<1>5. CASE Len(all) <= ReplCap
  BY <1>1, <1>3, <1>5 DEF all, p
<1>6. CASE Len(all) > ReplCap
  <2>1. p = SubSeq(all, 1, ReplCap)
    BY <1>1, <1>2, <1>3, <1>6
  <2>2. \A i \in 1..ReplCap : all[i] \in Effect
    BY <1>1, <1>2, <1>4, <1>6
  <2>3. /\ p \in Seq(Effect)
        /\ Len(p) = IF 1 <= ReplCap THEN ReplCap - 1 + 1 ELSE 0
        /\ \A i \in 1..(ReplCap - 1 + 1) : p[i] = all[1 + i - 1]
    BY <1>2, <2>1, <2>2, SubSeqProperties
  <2>4. Len(p) = ReplCap /\ \A i \in 1..ReplCap : p[i] = all[i]
    BY <1>2, <2>3
  <2> QED
    BY <1>1, <1>2, <1>6, <2>3, <2>4 DEF all, p
<1> QED
  BY <1>1, <1>2, <1>5, <1>6

\* Pushing twice is pushing the concatenation.
LEMMA PushTwice ==
    ASSUME NEW log \in Seq(Effect), NEW a \in Seq(Effect), NEW b \in Seq(Effect),
           Len(log) <= ReplCap
    PROVE  Push(Push(log, a), b) = Push(log, a \o b)
<1> DEFINE p == Push(log, a)
           q == Push(p, b)
           r == Push(log, a \o b)
<1>1. /\ a \o b \in Seq(Effect) /\ Len(a \o b) = Len(a) + Len(b)
      /\ log \o a \in Seq(Effect) /\ Len(log \o a) = Len(log) + Len(a)
      /\ (log \o a) \o b = log \o (a \o b)
  BY ConcatProperties, ConcatAssociative
<1>2. Len(log) \in Nat /\ Len(a) \in Nat /\ Len(b) \in Nat /\ ReplCap \in Nat
  BY LenProperties, ReplAssumption
<1>3. /\ p \in Seq(Effect)
      /\ Len(p) = IF Len(log) + Len(a) <= ReplCap THEN Len(log) + Len(a) ELSE ReplCap
      /\ \A i \in 1..Len(p) : p[i] = (log \o a)[i]
  BY PushKeepsPrefix
<1> HIDE DEF p
<1>4. Len(p) \in Nat /\ Len(p) <= ReplCap
  BY <1>2, <1>3
<1>5. /\ q \in Seq(Effect)
      /\ Len(q) = IF Len(p) + Len(b) <= ReplCap THEN Len(p) + Len(b) ELSE ReplCap
      /\ \A i \in 1..Len(q) : q[i] = (p \o b)[i]
  BY <1>3, <1>4, PushKeepsPrefix
<1>6. /\ r \in Seq(Effect)
      /\ Len(r) = IF Len(log) + Len(a) + Len(b) <= ReplCap
                  THEN Len(log) + Len(a) + Len(b) ELSE ReplCap
      /\ \A i \in 1..Len(r) : r[i] = (log \o (a \o b))[i]
  <2>1. Len(log) + Len(a \o b) = Len(log) + Len(a) + Len(b)
    BY <1>1, <1>2
  <2> QED
    BY <1>1, <2>1, PushKeepsPrefix
<1> HIDE DEF q, r
<1>7. Len(q) = Len(r)
  BY <1>2, <1>3, <1>5, <1>6
<1>8. ASSUME NEW i \in 1..Len(q) PROVE q[i] = r[i]
  <2>1. (p \o b)[i] = IF i <= Len(p) THEN p[i] ELSE b[i - Len(p)]
    <3>1. i \in 1..(Len(p) + Len(b))
      BY <1>2, <1>4, <1>5
    <3> QED
      BY <1>3, <3>1, ConcatProperties
  <2>2. ((log \o a) \o b)[i] = IF i <= Len(log \o a) THEN (log \o a)[i]
                               ELSE b[i - Len(log \o a)]
    <3>1. i \in 1..(Len(log \o a) + Len(b))
      BY <1>1, <1>2, <1>3, <1>5
    <3> QED
      BY <1>1, <3>1, ConcatProperties
  <2>3. CASE i <= Len(p)
    BY <1>1, <1>2, <1>3, <1>5, <1>6, <1>7, <2>1, <2>2, <2>3
  <2>4. CASE i > Len(p)
    <3>1. Len(p) = Len(log \o a)
      BY <1>1, <1>2, <1>3, <1>5, <2>4
    <3>2. (p \o b)[i] = b[i - Len(p)]
      BY <1>4, <2>1, <2>4
    <3>3. ((log \o a) \o b)[i] = b[i - Len(p)]
      BY <1>4, <2>2, <2>4, <3>1
    <3>4. q[i] = (p \o b)[i] /\ r[i] = ((log \o a) \o b)[i]
      BY <1>1, <1>5, <1>6, <1>7
    <3> QED
      BY <3>2, <3>3, <3>4
  <2> QED
    BY <1>4, <2>3, <2>4
<1>9. q = r
  BY <1>5, <1>6, <1>7, <1>8, SeqEqual
<1> QED
  BY <1>9 DEF q, r, p

-----------------------------------------------------------------------------
(***************************************************************************)
(* Stories                                                                 *)
(***************************************************************************)
LEMMA StoryEmpty == ASSUME NEW s \in Keyspace PROVE Story(<<>>, s, s)
<1> DEFINE h == [i \in 0..0 |-> s]
<1>1. h \in [0..Len(<<>>) -> Keyspace] /\ h[0] = s /\ h[Len(<<>>)] = s
  OBVIOUS
<1>2. 1..Len(<<>>) = {}
  OBVIOUS
<1> HIDE DEF h
<1> QED
  BY <1>1, <1>2 DEF Story

\* A story of nothing changes nothing.
LEMMA StoryOfNothing ==
    ASSUME NEW s, NEW t, Story(<<>>, s, t)
    PROVE  s = t
  BY DEF Story

LEMMA AfterType ==
    ASSUME NEW s \in Keyspace, NEW e \in Effect
    PROVE  After(s, e) \in Keyspace
<1>1. e.key \in Key /\ s[e.key] \in Slot
  BY DEF Keyspace, Effect
<1>2. Wrote(s[e.key], e) \in Slot
  <2>1. CASE e.op = "Set"
    BY <2>1 DEF Wrote, Effect, Slot
  <2>2. CASE e.op = "Del"
    BY <2>2 DEF Wrote, AbsentSlot, Slot
  <2>3. CASE e.op = "PExpireAt"
    <3>1. e.at \in ExpireTimes
      BY <2>3 DEF Effect
    <3> QED
      BY <1>1, <2>3, <3>1 DEF Wrote, Slot
  <2>4. CASE e.op = "Persist"
    BY <1>1, <2>4 DEF Wrote, Slot
  <2> QED
    BY <2>1, <2>2, <2>3, <2>4 DEF Effect
<1> QED
  BY <1>1, <1>2 DEF After, Keyspace

LEMMA StoryOfOne ==
    ASSUME NEW s \in Keyspace, NEW e \in Effect, Finds(s[e.key], e)
    PROVE  Story(<<e>>, s, After(s, e))
<1> DEFINE h == [i \in 0..1 |-> IF i = 0 THEN s ELSE After(s, e)]
<1>1. h \in [0..1 -> Keyspace] /\ h[0] = s /\ h[1] = After(s, e)
  BY AfterType
<1>2. Len(<<e>>) = 1 /\ <<e>>[1] = e
  OBVIOUS
<1> HIDE DEF h
<1>3. \A i \in 1..1 : Finds(h[i - 1][<<e>>[i].key], <<e>>[i])
                        /\ h[i] = After(h[i - 1], <<e>>[i])
  BY <1>1, <1>2
<1> QED
  BY <1>1, <1>2, <1>3 DEF Story

\* Stories compose.
LEMMA StoryThenStory ==
    ASSUME NEW a \in Seq(Effect), NEW b \in Seq(Effect), NEW s, NEW t, NEW u,
           Story(a, s, t), Story(b, t, u)
    PROVE  Story(a \o b, s, u)
<1>1. PICK f \in [0..Len(a) -> Keyspace] :
         /\ f[0] = s /\ f[Len(a)] = t
         /\ \A i \in 1..Len(a) :
               Finds(f[i - 1][a[i].key], a[i]) /\ f[i] = After(f[i - 1], a[i])
  BY DEF Story
<1>2. PICK g \in [0..Len(b) -> Keyspace] :
         /\ g[0] = t /\ g[Len(b)] = u
         /\ \A i \in 1..Len(b) :
               Finds(g[i - 1][b[i].key], b[i]) /\ g[i] = After(g[i - 1], b[i])
  BY DEF Story
<1> DEFINE m == Len(a)
           n == Len(b)
           c == a \o b
           h == [i \in 0..(m + n) |-> IF i <= m THEN f[i] ELSE g[i - m]]
<1>3. /\ m \in Nat /\ n \in Nat /\ Len(c) = m + n
      /\ \A i \in 1..(m + n) : c[i] = IF i <= m THEN a[i] ELSE b[i - m]
  BY ConcatProperties, LenProperties
<1> HIDE DEF c
<1>4. /\ h \in [0..(m + n) -> Keyspace]
      /\ \A i \in 0..(m + n) : h[i] = IF i <= m THEN f[i] ELSE g[i - m]
  BY <1>1, <1>2, <1>3
<1> HIDE DEF h, m, n
<1>5. h[0] = s
  BY <1>1, <1>3, <1>4
<1>6. h[m + n] = u
  <2>1. f[m] = t /\ g[0] = t /\ g[n] = u
    BY <1>1, <1>2 DEF m, n
  <2>2. CASE n = 0
    <3>1. h[m + n] = f[m]
      BY <1>3, <1>4, <2>2
    <3> QED
      BY <2>1, <2>2, <3>1
  <2>3. CASE n # 0
    <3>1. m + n \in 0..(m + n) /\ ~ (m + n <= m) /\ (m + n) - m = n
      BY <1>3, <2>3
    <3> QED
      BY <1>4, <2>1, <3>1
  <2> QED
    BY <2>2, <2>3
<1>7. ASSUME NEW i \in 1..(m + n)
      PROVE  Finds(h[i - 1][c[i].key], c[i]) /\ h[i] = After(h[i - 1], c[i])
  <2>1. CASE i <= m
    <3>1. i \in 1..m /\ c[i] = a[i] /\ h[i] = f[i]
      <4>1. i \in 1..m /\ i \in 0..(m + n)
        BY <1>3, <2>1
      <4> QED
        BY <1>3, <1>4, <2>1, <4>1
    <3>2. h[i - 1] = f[i - 1]
      <4>1. i - 1 \in 0..(m + n) /\ i - 1 <= m
        BY <1>3, <2>1
      <4> QED
        BY <1>4, <4>1
    <3> QED
      BY <1>1, <3>1, <3>2 DEF m
  <2>2. CASE i > m
    <3>1. i - m \in 1..n /\ c[i] = b[i - m] /\ h[i] = g[i - m]
      BY <1>3, <1>4, <2>2
    <3>2. h[i - 1] = g[i - m - 1]
      <4>1. CASE i - 1 = m
        BY <1>1, <1>2, <1>3, <1>4, <4>1 DEF m
      <4>2. CASE i - 1 > m
        BY <1>3, <1>4, <4>2
      <4> QED
        BY <1>3, <2>2, <4>1, <4>2
    <3> QED
      BY <1>2, <3>1, <3>2 DEF n
  <2> QED
    BY <1>3, <2>1, <2>2
<1> QED
  BY <1>3, <1>4, <1>5, <1>6, <1>7 DEF Story, c

\* The first effect of a story, and the rest of it.
LEMMA StoryBegins ==
    ASSUME NEW es \in Seq(Effect), es # <<>>, NEW s, NEW t, Story(es, s, t)
    PROVE  /\ s \in Keyspace /\ Finds(s[Head(es).key], Head(es))
           /\ Story(Tail(es), After(s, Head(es)), t)
<1>1. PICK f \in [0..Len(es) -> Keyspace] :
         /\ f[0] = s /\ f[Len(es)] = t
         /\ \A i \in 1..Len(es) :
               Finds(f[i - 1][es[i].key], es[i]) /\ f[i] = After(f[i - 1], es[i])
  BY DEF Story
<1> DEFINE n == Len(es)
           rest == Tail(es)
           h == [i \in 0..(n - 1) |-> f[i + 1]]
<1>2. n \in Nat \ {0} /\ Head(es) = es[1]
  BY EmptySeq, LenProperties
<1>3. Len(rest) = n - 1 /\ \A i \in 1..(n - 1) : rest[i] = es[i + 1]
  BY HeadTailProperties
<1> HIDE DEF rest, n
<1>4. /\ h \in [0..(n - 1) -> Keyspace]
      /\ \A i \in 0..(n - 1) : h[i] = f[i + 1]
  BY <1>1, <1>2 DEF n
<1> HIDE DEF h
<1>5. s \in Keyspace /\ Finds(s[es[1].key], es[1]) /\ f[1] = After(s, es[1])
  BY <1>1, <1>2 DEF n
<1>6. h[0] = After(s, es[1]) /\ h[n - 1] = t
  BY <1>1, <1>2, <1>4, <1>5 DEF n
<1>7. \A i \in 1..(n - 1) : Finds(h[i - 1][rest[i].key], rest[i])
                              /\ h[i] = After(h[i - 1], rest[i])
  <2> SUFFICES ASSUME NEW i \in 1..(n - 1)
               PROVE  Finds(h[i - 1][rest[i].key], rest[i]) /\ h[i] = After(h[i - 1], rest[i])
    OBVIOUS
  <2>1. h[i - 1] = f[i] /\ h[i] = f[i + 1] /\ rest[i] = es[i + 1]
    BY <1>2, <1>3, <1>4
  <2>2. i + 1 \in 1..n /\ (i + 1) - 1 = i
    BY <1>2
  <2> QED
    BY <1>1, <2>1, <2>2 DEF n
<1> QED
  BY <1>2, <1>3, <1>4, <1>5, <1>6, <1>7 DEF Story, rest

\* The effects of es, taken from the left, empty the slots of the keys ks one by
\* one: the story of delete_expired_key_and_propagate.
LEMMA StoryOfDeletions ==
    ASSUME NEW s \in Keyspace, NEW ks \in SUBSET Key, \A k \in ks : s[k].present
    PROVE  LET order == SetToSeq(ks)
               dels == [i \in DOMAIN order |-> DelEffect(order[i])]
           IN /\ dels \in Seq(Effect) /\ Len(dels) = Cardinality(ks)
              /\ Story(dels, s, [k \in Key |-> IF k \in ks THEN AbsentSlot ELSE s[k]])
<1> DEFINE order == SetToSeq(ks)
           n == Cardinality(ks)
           dels == [i \in DOMAIN order |-> DelEffect(order[i])]
           final == [k \in Key |-> IF k \in ks THEN AbsentSlot ELSE s[k]]
           done(i) == {order[j] : j \in 1..i}
           h == [i \in 0..n |-> [k \in Key |-> IF k \in done(i) THEN AbsentSlot ELSE s[k]]]
<1>1. IsFiniteSet(ks) /\ n \in Nat
  BY KeysAssumption, FS_Subset, FS_CardinalityType
<1>2. order \in Injection(1..n, ks)
  <2>1. ExistsBijection(1..n, ks)
    BY <1>1, FS_CardinalityType
  <2>2. \E f \in [1..n -> ks] : IsInjective(f)
    BY <2>1 DEF ExistsBijection, Bijection, Injection
  <2> QED
    BY <2>2 DEF SetToSeq, Injection
<1>3. order \in Surjection(1..n, ks)
  <2>1. Cardinality(1..n) = n
    BY <1>1, FS_Interval
  <2> HIDE DEF order
  <2> QED
    BY <1>1, <1>2, <2>1, FS_Injection
<1>4. /\ order \in [1..n -> ks]
      /\ \A i, j \in 1..n : order[i] = order[j] => i = j
      /\ \A k \in ks : \E i \in 1..n : order[i] = k
  BY <1>2, <1>3 DEF Injection, Surjection, IsInjective
<1> HIDE DEF order, n
<1>5. /\ dels = [i \in 1..n |-> DelEffect(order[i])]
      /\ \A i \in 1..n : dels[i] = DelEffect(order[i]) /\ order[i] \in ks
  BY <1>4
<1> HIDE DEF dels
<1>6. dels \in Seq(Effect) /\ Len(dels) = n
  <2>1. \A i \in 1..n : DelEffect(order[i]) \in Effect
    BY <1>5 DEF DelEffect, Effect
  <2>2. dels \in [1..n -> Effect]
    BY <1>5, <2>1
  <2> QED
    BY <1>1, <2>2, SeqDef
<1>7. AbsentSlot \in Slot
  BY DEF AbsentSlot, Slot
<1>8. /\ h \in [0..n -> Keyspace]
      /\ \A i \in 0..n : h[i] = [k \in Key |-> IF k \in done(i) THEN AbsentSlot ELSE s[k]]
  BY <1>7 DEF Keyspace
<1>9. done(0) = {} /\ done(n) = ks
  BY <1>1, <1>4
<1>10. ASSUME NEW i \in 1..n
       PROVE  /\ i - 1 \in 0..n /\ done(i) = done(i - 1) \cup {order[i]}
              /\ order[i] \notin done(i - 1)
  <2>1. 1..i = 1..(i - 1) \cup {i} /\ i - 1 \in 0..n
    BY <1>1
  <2>2. \A j \in 1..(i - 1) : j \in 1..n /\ j # i
    BY <1>1
  <2> QED
    BY <1>4, <2>1, <2>2
<1> HIDE DEF done, h
<1>11. h[0] = s
  BY <1>1, <1>8, <1>9 DEF Keyspace
<1>12. h[n] = final
  BY <1>1, <1>8, <1>9
<1>13. ASSUME NEW i \in 1..n
       PROVE  Finds(h[i - 1][dels[i].key], dels[i]) /\ h[i] = After(h[i - 1], dels[i])
  <2>1. /\ dels[i].key = order[i] /\ dels[i].op = "Del" /\ order[i] \in Key
        /\ s[order[i]].present
    BY <1>5 DEF DelEffect
  <2>2. /\ h[i - 1] = [k \in Key |-> IF k \in done(i - 1) THEN AbsentSlot ELSE s[k]]
        /\ h[i] = [k \in Key |-> IF k \in done(i) THEN AbsentSlot ELSE s[k]]
    BY <1>1, <1>8, <1>10
  <2>3. Finds(h[i - 1][dels[i].key], dels[i])
    BY <1>10, <2>1, <2>2 DEF Finds
  <2>4. After(h[i - 1], dels[i]) = [h[i - 1] EXCEPT ![order[i]] = AbsentSlot]
    BY <2>1 DEF After, Wrote
  <2>5. h[i] = [h[i - 1] EXCEPT ![order[i]] = AbsentSlot]
    BY <1>10, <2>1, <2>2
  <2> QED
    BY <2>3, <2>4, <2>5
<1>14. Story(dels, s, final)
  BY <1>6, <1>8, <1>11, <1>12, <1>13 DEF Story
<1> QED
  BY <1>6, <1>14 DEF dels, n, order

-----------------------------------------------------------------------------
(***************************************************************************)
(* What the operations of a unit tell                                      *)
(***************************************************************************)
LogFits(w) == Len(w.repl) <= ReplCap

\* From world w to world u the effects es were carried out, counted and pushed.
Tells(w, u, es) ==
    /\ es \in Seq(Effect)
    /\ Story(es, w.slots, u.slots)
    /\ u.repl = Push(w.repl, es)
    /\ u.dirty = w.dirty + Len(es)

\* Doing nothing tells nothing.
LEMMA TellsNothing == ASSUME NEW w, Sound(w), LogFits(w) PROVE Tells(w, w, <<>>)
<1>1. w.slots \in Keyspace /\ w.repl \in Seq(Effect) /\ w.dirty \in Nat
  BY DEF Sound, World, Keyspace
<1>2. <<>> \in Seq(Effect) /\ Len(<<>>) = 0
  BY EmptySeq
<1>3. Push(w.repl, <<>>) = w.repl
  <2>1. w.repl \o <<>> = w.repl
    BY <1>1, ConcatEmptySeq
  <2> QED
    BY <2>1 DEF Push, LogFits
<1> QED
  BY <1>1, <1>2, <1>3, StoryEmpty DEF Tells

\* Operations tell one after the other.
LEMMA TellsMore ==
    ASSUME NEW w, Sound(w), LogFits(w), NEW u, NEW v, NEW a, NEW b,
           Tells(w, u, a), Tells(u, v, b)
    PROVE  Tells(w, v, a \o b)
<1>1. a \in Seq(Effect) /\ b \in Seq(Effect) /\ w.repl \in Seq(Effect) /\ w.dirty \in Nat
  BY DEF Tells, Sound, World
<1>2. a \o b \in Seq(Effect) /\ Len(a \o b) = Len(a) + Len(b)
      /\ Len(a) \in Nat /\ Len(b) \in Nat
  BY <1>1, ConcatProperties, LenProperties
<1>3. Story(a \o b, w.slots, v.slots)
  BY <1>1, StoryThenStory DEF Tells
<1>4. v.repl = Push(w.repl, a \o b)
  BY <1>1, PushTwice DEF Tells, LogFits
<1>5. v.dirty = w.dirty + Len(a \o b)
  BY <1>1, <1>2 DEF Tells
<1> QED
  BY <1>2, <1>3, <1>4, <1>5 DEF Tells

\* A deletion of expired keys tells one DEL per key.
LEMMA DeleteExpiredTells ==
    ASSUME NEW w, Sound(w), NEW ks \in SUBSET Key, \A k \in ks : w.slots[k].present
    PROVE  \E es : Tells(w, DeleteExpiredAndPropagate(w, ks), es)
                     /\ Len(es) = Cardinality(ks)
<1> DEFINE u == DeleteExpiredAndPropagate(w, ks)
           order == SetToSeq(ks)
           dels == [i \in DOMAIN order |-> DelEffect(order[i])]
           slots == [k \in Key |-> IF k \in ks THEN AbsentSlot ELSE w.slots[k]]
           v == [w EXCEPT !.slots = slots, !.repl = Push(@, dels),
                          !.dirty = @ + Cardinality(ks)]
<1>1. u = Touch(v, ks)
  BY DEF DeleteExpiredAndPropagate
<1>2. w.slots \in Keyspace
  BY DEF Sound, World, Keyspace
<1>3. dels \in Seq(Effect) /\ Len(dels) = Cardinality(ks) /\ Story(dels, w.slots, slots)
  BY <1>2, StoryOfDeletions
<1> HIDE DEF dels
<1>4. /\ v.slots = slots /\ v.repl = Push(w.repl, dels)
      /\ v.dirty = w.dirty + Cardinality(ks) /\ v.watched = w.watched
      /\ v.clients = w.clients
  BY DEF Sound, World
<1>5. v \in World
  <2>1. slots \in [Key -> Slot]
    BY DEF Sound, World, Slot, AbsentSlot
  <2>2. Push(w.repl, dels) \in Seq(Effect)
    BY <1>3, PushType DEF Sound, World
  <2>3. w.dirty + Cardinality(ks) \in Nat
    BY SetToSeqType DEF Sound, World
  <2> HIDE DEF slots
  <2> QED
    BY <2>1, <2>2, <2>3 DEF Sound, World
<1>6. TableIsConsistent(v)
  BY <1>4 DEF Sound, TableIsConsistent, Watchers
<1> HIDE DEF v
<1>7. u.slots = v.slots /\ u.repl = v.repl /\ u.dirty = v.dirty
  BY <1>1, <1>5, <1>6, TouchKeeps
<1> HIDE DEF u
<1>8. Tells(w, u, dels)
  BY <1>3, <1>4, <1>7 DEF Tells
<1> QED
  BY <1>3, <1>8 DEF u

\* The tail of a write tells its effect, if the slot it assigns is what the
\* effect leaves.
LEMMA WriteSlotTells ==
    ASSUME NEW w, Sound(w), NEW k \in Key, NEW e \in Effect, e.key = k,
           Finds(w.slots[k], e), NEW slot, slot = Wrote(w.slots[k], e)
    PROVE  Tells(w, WriteSlot(w, k, slot, e), <<e>>)
<1> DEFINE v == [w EXCEPT !.slots[k] = slot, !.dirty = @ + 1]
           t == Touch(v, {k})
           u == WriteSlot(w, k, slot, e)
<1>1. u = [t EXCEPT !.repl = Push(@, <<e>>)]
  BY DEF WriteSlot
<1>2. w.slots \in Keyspace /\ After(w.slots, e) \in Keyspace
      /\ After(w.slots, e) = [w.slots EXCEPT ![k] = slot]
  BY AfterType DEF Sound, World, Keyspace, After
<1>3. /\ v \in World /\ v.slots = [w.slots EXCEPT ![k] = slot]
      /\ v.repl = w.repl /\ v.dirty = w.dirty + 1
      /\ v.watched = w.watched /\ v.clients = w.clients
  <2>1. [w.slots EXCEPT ![k] = slot] \in [Key -> Slot] /\ w.dirty + 1 \in Nat
    BY <1>2 DEF Sound, World, Keyspace
  <2> QED
    BY <2>1 DEF Sound, World
<1>4. TableIsConsistent(v)
  BY <1>3 DEF Sound, TableIsConsistent, Watchers
<1> HIDE DEF v
<1>5. t \in World /\ t.slots = v.slots /\ t.repl = v.repl /\ t.dirty = v.dirty
  BY <1>3, <1>4, TouchKeeps
<1> HIDE DEF t
<1>6. u.slots = t.slots /\ u.dirty = t.dirty /\ u.repl = Push(t.repl, <<e>>)
  BY <1>1, <1>5 DEF World
<1> HIDE DEF u
<1>7. <<e>> \in Seq(Effect) /\ Len(<<e>>) = 1
  OBVIOUS
<1>8. Story(<<e>>, w.slots, After(w.slots, e))
  BY <1>2, StoryOfOne
<1>9. Tells(w, u, <<e>>)
  BY <1>2, <1>3, <1>5, <1>6, <1>7, <1>8 DEF Tells
<1> QED
  BY <1>9 DEF u

\* A lookup tells nothing, or the DEL of its key, which is then gone.
LEMMA LookupTells ==
    ASSUME NEW w, Sound(w), LogFits(w), NEW k \in Key, NEW flags \in {ReadFlags, WriteFlags}
    PROVE  LET u == Lookup(w, k, flags).world
           IN \/ u = w
              \/ ~u.slots[k].present /\ \E es : Tells(w, u, es) /\ Len(es) = 1
<1> DEFINE u == Lookup(w, k, flags).world
           d == DeleteExpiredAndPropagate(w, {k})
<1>1. u = w \/ (w.slots[k].present /\ u = d)
  BY DEF Lookup, Found, ExpireIfNeeded
<1> HIDE DEF u
<1>2. CASE w.slots[k].present /\ u = d
  <2>1. Cardinality({k}) = 1
    BY FS_Singleton
  <2>2. \E es : Tells(w, d, es) /\ Len(es) = 1
    BY <1>2, <2>1, DeleteExpiredTells
  <2>3. d.slots = [j \in Key |-> IF j \in {k} THEN AbsentSlot ELSE w.slots[j]]
    BY DeleteExpiredSound
  <2>4. ~d.slots[k].present
    BY <2>3 DEF AbsentSlot
  <2> QED
    BY <1>2, <2>2, <2>4 DEF u
<1> QED
  BY <1>1, <1>2 DEF u

-----------------------------------------------------------------------------
(***************************************************************************)
(* What the commands tell                                                  *)
(***************************************************************************)
\* A command's story has at most n effects.
TellsUpTo(w, u, n) == \E es : Tells(w, u, es) /\ Len(es) <= n

\* Telling keeps the log within its capacity.
LEMMA TellsFits ==
    ASSUME NEW w, Sound(w), LogFits(w), NEW u, NEW es, Tells(w, u, es)
    PROVE  LogFits(u)
<1>1. w.repl \in Seq(Effect) /\ es \in Seq(Effect) /\ u.repl = Push(w.repl, es)
  BY DEF Sound, World, Tells
<1>2. Len(w.repl) \in Nat /\ Len(es) \in Nat /\ ReplCap \in Nat
  BY <1>1, LenProperties, ReplAssumption
<1>3. Len(u.repl) = IF Len(w.repl) + Len(es) <= ReplCap THEN Len(w.repl) + Len(es)
                    ELSE ReplCap
  BY <1>1, PushKeepsPrefix DEF LogFits
<1> QED
  BY <1>2, <1>3 DEF LogFits

\* So a lookup tells at most one DEL.
LEMMA LookupTellsUpToOne ==
    ASSUME NEW w, Sound(w), LogFits(w), NEW k \in Key, NEW flags \in {ReadFlags, WriteFlags}
    PROVE  TellsUpTo(w, Lookup(w, k, flags).world, 1)
<1> DEFINE u == Lookup(w, k, flags).world
<1>1. Tells(w, w, <<>>) /\ Len(<<>>) <= 1
  BY TellsNothing
<1>2. u = w \/ \E es : Tells(w, u, es) /\ Len(es) = 1
  BY LookupTells
<1> HIDE DEF u
<1>3. CASE u = w
  BY <1>1, <1>3 DEF TellsUpTo, u
<1>4. ASSUME NEW es, Tells(w, u, es), Len(es) = 1 PROVE TellsUpTo(w, u, 1)
  <2>1. Len(es) <= 1
    BY <1>4
  <2> QED
    BY <1>4, <2>1 DEF TellsUpTo
<1> QED
  BY <1>2, <1>3, <1>4 DEF u

\* A write after lookups that told one effect at most: two at most.
LEMMA WriteTells ==
    ASSUME NEW w, Sound(w), LogFits(w), NEW u, Sound(u), TellsUpTo(w, u, 1),
           NEW k \in Key, NEW e \in Effect, e.key = k, Finds(u.slots[k], e),
           NEW slot, slot = Wrote(u.slots[k], e)
    PROVE  TellsUpTo(w, WriteSlot(u, k, slot, e), 2)
<1>1. PICK a : Tells(w, u, a) /\ Len(a) <= 1
  BY DEF TellsUpTo
<1>2. Tells(u, WriteSlot(u, k, slot, e), <<e>>)
  BY WriteSlotTells
<1>3. Tells(w, WriteSlot(u, k, slot, e), a \o <<e>>)
  BY <1>1, <1>2, TellsMore
<1>4. a \in Seq(Effect) /\ <<e>> \in Seq(Effect) /\ Len(<<e>>) = 1
  BY <1>1 DEF Tells
<1>5. Len(a \o <<e>>) <= 2
  BY <1>1, <1>4, ConcatProperties, LenProperties
<1> QED
  BY <1>3, <1>5 DEF TellsUpTo

\* So too for a write that empties the slot.
LEMMA DeleteTells ==
    ASSUME NEW w, Sound(w), LogFits(w), NEW u, Sound(u), TellsUpTo(w, u, 1),
           NEW k \in Key, u.slots[k].present
    PROVE  TellsUpTo(w, DeleteSlot(u, k), 2)
<1> DEFINE e == DelEffect(k)
<1>1. /\ e \in Effect /\ e.key = k /\ Finds(u.slots[k], e)
      /\ AbsentSlot = Wrote(u.slots[k], e)
  BY DEF DelEffect, Effect, Finds, Wrote
<1> HIDE DEF e
<1>2. TellsUpTo(w, WriteSlot(u, k, AbsentSlot, e), 2)
  BY <1>1, WriteTells
<1> QED
  BY <1>2 DEF DeleteSlot, e

\* The lookups of SET tell one DEL at most: when GET's read lookup has deleted the
\* key, the write lookup finds nothing left to delete.
LEMMA SetLookupsTell ==
    ASSUME NEW w, Sound(w), LogFits(w), NEW k \in Key, NEW read,
           read = w \/ read = LookupKeyRead(w, k).world
    PROVE  LET u == LookupKeyWrite(read, k).world
           IN TellsUpTo(w, u, 1) /\ Sound(u)
<1> DEFINE u == LookupKeyWrite(read, k).world
<1>1. Sound(read)
  BY LookupKeyReadSound DEF Evolves
<1>2. Sound(u)
  BY <1>1, LookupKeyWriteSound
<1>3. CASE read = w
  <2>1. TellsUpTo(w, LookupKeyWrite(w, k).world, 1)
    BY LookupTellsUpToOne DEF LookupKeyWrite
  <2> QED
    BY <1>2, <1>3, <2>1
<1>4. CASE read # w
  <2>1. ~read.slots[k].present /\ \E es : Tells(w, read, es) /\ Len(es) = 1
    BY <1>4, LookupTells DEF LookupKeyRead
  <2>2. u = read
    BY <2>1 DEF LookupKeyWrite, Lookup
  <2>3. TellsUpTo(w, read, 1)
    <3>1. read = Lookup(w, k, ReadFlags).world
      BY <1>4 DEF LookupKeyRead
    <3> QED
      BY <3>1, LookupTellsUpToOne
  <2> QED
    BY <1>2, <2>2, <2>3
<1> QED
  BY <1>2, <1>3, <1>4

LEMMA TellsUpToTwo ==
    ASSUME NEW w, NEW u, TellsUpTo(w, u, 1)
    PROVE  TellsUpTo(w, u, 2)
<1>1. PICK es : Tells(w, u, es) /\ Len(es) <= 1
  BY DEF TellsUpTo
<1>2. Len(es) \in Nat
  BY <1>1, LenProperties DEF Tells
<1>3. Len(es) <= 2
  BY <1>1, <1>2
<1> QED
  BY <1>1, <1>3 DEF TellsUpTo

LEMMA SetTells ==
    ASSUME NEW w, Sound(w), LogFits(w), NEW cmd, cmd.key \in Key, cmd.val \in Value,
           cmd.ttl \in TtlArg
    PROVE  TellsUpTo(w, CmdSet(w, cmd).world, 2)
<1> DEFINE k == cmd.key
           read == IF cmd.get THEN LookupKeyRead(w, k)
                   ELSE [world |-> w, value |-> NoValue]
           write == LookupKeyWrite(read.world, k)
           u == write.world
           at == NewExpire(u, k, cmd.ttl, write.value # NoValue)
           slot == [present |-> TRUE, value |-> cmd.val, expire_at |-> at]
           e == SetEffect(k, cmd.val, at)
           after == CmdSet(w, cmd).world
<1>1. read.world = w \/ read.world = LookupKeyRead(w, k).world
  OBVIOUS
<1>2. Sound(read.world)
  BY <1>1, LookupKeyReadSound DEF Evolves
<1>3. \/ after = u
      \/ (write.value # NoValue \/ u.slots[k].present) /\ after = DeleteSlot(u, k)
      \/ after = WriteSlot(u, k, slot, e)
  BY DEF CmdSet, SetAfterGet, SetFound, Result
<1> HIDE DEF read
<1>4. /\ TellsUpTo(w, u, 1) /\ Sound(u)
      /\ write.value # NoValue => u.slots[k].present
  BY <1>1, <1>2, SetLookupsTell, LookupKeyWriteSound
<1> HIDE DEF write, after
<1>5. at \in ExpireTimes \cup {NoExpire}
  BY <1>4, NewExpireType
<1> HIDE DEF at
<1>6. /\ e \in Effect /\ e.key = k /\ Finds(u.slots[k], e) /\ slot = Wrote(u.slots[k], e)
  BY <1>5 DEF SetEffect, Effect, Finds, Wrote
<1> HIDE DEF slot, e
<1>7. TellsUpTo(w, WriteSlot(u, k, slot, e), 2)
  BY <1>4, <1>6, WriteTells
<1>8. u.slots[k].present => TellsUpTo(w, DeleteSlot(u, k), 2)
  BY <1>4, DeleteTells
<1> QED
  BY <1>3, <1>4, <1>7, <1>8, TellsUpToTwo DEF after

\* The other commands on a key: one lookup, one write at most.
LEMMA OtherTells ==
    ASSUME NEW w, Sound(w), LogFits(w), NEW cmd \in KeyCmd \ SetCmd
    PROVE  TellsUpTo(w, Exec(w, cmd).world, 2)
<1> DEFINE k == cmd.key
           write == LookupKeyWrite(w, k)
           u == write.world
           after == Exec(w, cmd).world
           retimed(at) == [u.slots[k] EXCEPT !.expire_at = at]
<1>1. k \in Key
  BY DEF KeyCmd, ExpireCmd, RemoveCmd, LookupCmd
<1>2. CASE cmd \in LookupCmd
  <2>1. after = LookupKeyRead(w, k).world
    BY <1>2 DEF LookupCmd, LookupOp, Exec, CmdLookup, Answered, Result
  <2>2. TellsUpTo(w, LookupKeyRead(w, k).world, 1)
    BY <1>1, LookupTellsUpToOne DEF LookupKeyRead
  <2> QED
    BY <2>1, <2>2, TellsUpToTwo
<1>3. /\ cmd \in RemoveCmd =>
            \/ after = u
            \/ write.value # NoValue /\ after = DeleteSlot(u, k)
            \/ /\ write.value # NoValue /\ u.slots[k].expire_at # NoExpire
               /\ after = WriteSlot(u, k, retimed(NoExpire), PersistEffect(k))
      /\ cmd \in ExpireCmd =>
            \/ after = u
            \/ write.value # NoValue /\ after = DeleteSlot(u, k)
            \/ /\ write.value # NoValue
               /\ after = WriteSlot(u, k, retimed(cmd.at), PExpireAtEffect(k, cmd.at))
  BY DEF RemoveCmd, ExpireCmd, Exec, LookupOp, CmdDel, CmdPersist, CmdExpire, DelFound,
         PersistFound, ExpireFound, Result
<1>4. /\ TellsUpTo(w, u, 1) /\ Sound(u)
      /\ write.value # NoValue => u.slots[k].present
  BY <1>1, LookupTellsUpToOne, LookupKeyWriteSound DEF LookupKeyWrite
<1>5. \A at : retimed(at) = [u.slots[k] EXCEPT !.expire_at = at]
  OBVIOUS
<1>6. ASSUME cmd \in RemoveCmd \cup ExpireCmd PROVE TellsUpTo(w, after, 2)
  <2> HIDE DEF write, after, k, retimed
  <2>1. TellsUpTo(w, u, 2)
    BY <1>4, TellsUpToTwo
  <2>2. write.value # NoValue => TellsUpTo(w, DeleteSlot(u, k), 2)
    BY <1>1, <1>4, DeleteTells
  <2>3. ASSUME write.value # NoValue, u.slots[k].expire_at # NoExpire
        PROVE  TellsUpTo(w, WriteSlot(u, k, retimed(NoExpire), PersistEffect(k)), 2)
    <3>1. /\ PersistEffect(k) \in Effect /\ PersistEffect(k).key = k
          /\ Finds(u.slots[k], PersistEffect(k))
          /\ retimed(NoExpire) = Wrote(u.slots[k], PersistEffect(k))
      BY <1>1, <1>4, <1>5, <2>3 DEF PersistEffect, Effect, Finds, Wrote
    <3> QED
      BY <1>1, <1>4, <3>1, WriteTells
  <2>4. ASSUME write.value # NoValue, cmd \in ExpireCmd
        PROVE  TellsUpTo(w, WriteSlot(u, k, retimed(cmd.at), PExpireAtEffect(k, cmd.at)), 2)
    <3>1. cmd.at \in ExpireTimes
      BY <2>4 DEF ExpireCmd
    <3>2. /\ PExpireAtEffect(k, cmd.at) \in Effect /\ PExpireAtEffect(k, cmd.at).key = k
          /\ Finds(u.slots[k], PExpireAtEffect(k, cmd.at))
          /\ retimed(cmd.at) = Wrote(u.slots[k], PExpireAtEffect(k, cmd.at))
      BY <1>1, <1>4, <1>5, <2>4, <3>1 DEF PExpireAtEffect, Effect, Finds, Wrote
    <3> QED
      BY <1>1, <1>4, <3>2, WriteTells
  <2> QED
    BY <1>3, <1>6, <2>1, <2>2, <2>3, <2>4
<1> QED
  BY <1>2, <1>6 DEF KeyCmd

\* Every command on a key tells two effects at most.
LEMMA KeyCmdTells ==
    ASSUME NEW w, Sound(w), LogFits(w), NEW cmd \in KeyCmd
    PROVE  TellsUpTo(w, Exec(w, cmd).world, 2)
<1>1. CASE cmd \in SetCmd
  <2>1. /\ cmd.op = "Set" /\ cmd.key \in Key /\ cmd.val \in Value /\ cmd.ttl \in TtlArg
    BY <1>1 DEF SetCmd
  <2>2. Exec(w, cmd) = CmdSet(w, cmd)
    BY <2>1 DEF Exec, LookupOp
  <2> QED
    BY <2>1, <2>2, SetTells
<1> QED
  BY <1>1, OtherTells

\* An active cycle tells one DEL per key that is due.
LEMMA CycleTells ==
    ASSUME NEW w, Sound(w), LogFits(w)
    PROVE  TellsUpTo(w, ActiveExpireCycle(w), Cardinality(Key))
<1> DEFINE due == {k \in Key : w.slots[k].present /\ ActiveCycleWouldExpire(w, k)}
<1>1. Cardinality(due) \in Nat /\ Cardinality(Key) \in Nat
      /\ Cardinality(due) <= Cardinality(Key)
  <2>1. due \in SUBSET Key
    OBVIOUS
  <2> HIDE DEF due
  <2> QED
    BY <2>1, KeysAssumption, FS_Subset, FS_CardinalityType
<1>2. ActiveExpireCycle(w) = w \/ ActiveExpireCycle(w) = DeleteExpiredAndPropagate(w, due)
  BY DEF ActiveExpireCycle
<1>3. due \in SUBSET Key /\ \A k \in due : w.slots[k].present
  OBVIOUS
<1> HIDE DEF due
<1>4. \E es : Tells(w, DeleteExpiredAndPropagate(w, due), es) /\ Len(es) = Cardinality(due)
  BY <1>3, DeleteExpiredTells
<1>5. Tells(w, w, <<>>) /\ Len(<<>>) = 0
  BY TellsNothing
<1>6. CASE ActiveExpireCycle(w) = w
  BY <1>1, <1>5, <1>6 DEF TellsUpTo
<1>7. CASE ActiveExpireCycle(w) = DeleteExpiredAndPropagate(w, due)
  BY <1>1, <1>4, <1>7 DEF TellsUpTo
<1> QED
  BY <1>2, <1>6, <1>7

-----------------------------------------------------------------------------
(***************************************************************************)
(* Units and schedules                                                     *)
(***************************************************************************)
\* The effects that a unit carries out, counts and pushes
UnitTells(w, u, es) ==
    /\ es \in Seq(Effect)
    /\ Story(es, w.slots, u.slots)
    /\ u.repl = Push(w.repl, es)
    /\ u.dirty = Len(es)

\* Opening and closing the unit around a body that tells.
LEMMA UnitOf ==
    ASSUME NEW w, Sound(w), w.nesting = 0, NEW done \in World, NEW n,
           TellsUpTo(EnterExecutionUnit(w), done, n)
    PROVE  \E es : UnitTells(w, ExitExecutionUnit(done), es) /\ Len(es) <= n
<1> DEFINE entered == EnterExecutionUnit(w)
           u == ExitExecutionUnit(done)
<1>1. entered.slots = w.slots /\ entered.repl = w.repl /\ entered.dirty = 0
  BY EnterKeeps, EnterSound
<1>2. u.slots = done.slots /\ u.repl = done.repl /\ u.dirty = done.dirty
  BY DEF ExitExecutionUnit, World
<1> HIDE DEF entered, u
<1>3. PICK es : Tells(entered, done, es) /\ Len(es) <= n
  BY DEF TellsUpTo, entered
<1>4. Len(es) \in Nat
  BY <1>3, LenProperties DEF Tells
<1>5. UnitTells(w, u, es)
  BY <1>1, <1>2, <1>3, <1>4 DEF Tells, UnitTells
<1> QED
  BY <1>3, <1>5 DEF u

LEMMA RunKeyCmdTells ==
    ASSUME NEW w, Sound(w), w.nesting = 0, LogFits(w), NEW cmd \in KeyCmd
    PROVE  \E es : UnitTells(w, RunCmd(w, cmd).world, es) /\ Len(es) <= 2
<1> DEFINE entered == EnterExecutionUnit(w)
           done == Exec(entered, cmd).world
<1>1. Sound(entered) /\ LogFits(entered)
  BY EnterKeeps DEF LogFits
<1>2. RunCmd(w, cmd).world = ExitExecutionUnit(done)
  BY DEF RunCmd, CloseUnit, Result
<1>3. TellsUpTo(entered, done, 2)
  BY <1>1, KeyCmdTells
<1>4. done \in World
  BY <1>1, KeyCmdSound DEF Evolves, Sound
<1> HIDE DEF done
<1> QED
  BY <1>2, <1>3, <1>4, UnitOf

LEMMA RunCycleTells ==
    ASSUME NEW w, Sound(w), w.nesting = 0, LogFits(w)
    PROVE  \E es : UnitTells(w, RunActiveExpire(w), es) /\ Len(es) <= Cardinality(Key)
<1> DEFINE entered == EnterExecutionUnit(w)
           done == ActiveExpireCycle(entered)
<1>1. Sound(entered) /\ LogFits(entered)
  BY EnterKeeps DEF LogFits
<1>2. RunActiveExpire(w) = ExitExecutionUnit(done)
  BY DEF RunActiveExpire
<1>3. TellsUpTo(entered, done, Cardinality(Key))
  BY <1>1, CycleTells
<1>4. done \in World
  BY <1>1, ActiveExpireCycleSound DEF SameUnit, Sound
<1> HIDE DEF done
<1> QED
  BY <1>2, <1>3, <1>4, UnitOf

\* A unit that tells a story has propagated each change once.
LEMMA TellingIsPropagating ==
    ASSUME NEW w, Sound(w), LogFits(w), NEW u, NEW es, UnitTells(w, u, es)
    PROVE  PropagatedOnce(w, u)
<1>1. w.repl \in Seq(Effect) /\ es \in Seq(Effect)
  BY DEF Sound, World, UnitTells
<1>2. Len(w.repl) \in Nat /\ Len(es) \in Nat /\ ReplCap \in Nat
  BY <1>1, LenProperties, ReplAssumption
<1>3. Len(u.repl) = IF Len(w.repl) + Len(es) <= ReplCap THEN Len(w.repl) + Len(es)
                    ELSE ReplCap
  <2>1. Len(Push(w.repl, es)) = IF Len(w.repl) + Len(es) <= ReplCap
                                THEN Len(w.repl) + Len(es) ELSE ReplCap
    BY <1>1, PushKeepsPrefix DEF LogFits
  <2> QED
    BY <2>1 DEF UnitTells
<1>4. Len(es) = 0 => u.slots = w.slots
  <2>1. Len(es) = 0 => es = <<>>
    BY <1>1, EmptySeq
  <2> QED
    BY <2>1, StoryOfNothing DEF UnitTells
<1>5. u.dirty = Len(es) /\ Len(w.repl) <= ReplCap
  BY DEF UnitTells, LogFits
<1>6. LET pushed == Len(u.repl) - Len(w.repl)
      IN pushed = u.dirty \/ (pushed < u.dirty /\ Len(u.repl) = ReplCap)
  <2>1. \A m, n, l \in Nat : m <= ReplCap /\ l = (IF m + n <= ReplCap THEN m + n ELSE ReplCap)
           => l - m = n \/ (l - m < n /\ l = ReplCap)
    BY <1>2
  <2>2. Len(u.repl) \in Nat
    BY <1>2, <1>3
  <2> QED
    BY <1>2, <1>3, <1>5, <2>1, <2>2
<1> QED
  BY <1>4, <1>5, <1>6 DEF PropagatedOnce

\* The log of a world never outgrows its capacity.
LogInv == IInv /\ LogFits(world)

LEMMA UnitFits ==
    ASSUME NEW w, Sound(w), LogFits(w), NEW u, NEW es, UnitTells(w, u, es)
    PROVE  LogFits(u)
<1>1. w.repl \in Seq(Effect) /\ es \in Seq(Effect)
  BY DEF Sound, World, UnitTells
<1>2. Len(w.repl) \in Nat /\ Len(es) \in Nat /\ ReplCap \in Nat
  BY <1>1, LenProperties, ReplAssumption
<1> QED
  BY <1>1, <1>2, PushKeepsPrefix DEF UnitTells, LogFits

\* Commands that name no key of the keyspace, and WATCH, push nothing.
LEMMA QuietCommands ==
    ASSUME NEW w, Sound(w), NEW cmd \in Command \ KeyCmd
    PROVE  RunCmd(w, cmd).world.repl = w.repl /\ RunCmd(w, cmd).world.slots = w.slots
<1> DEFINE entered == EnterExecutionUnit(w)
           done == Exec(entered, cmd).world
<1>1. Sound(entered) /\ entered.repl = w.repl /\ entered.slots = w.slots
  BY EnterKeeps
<1> HIDE DEF entered
<1>2. done.repl = entered.repl /\ done.slots = entered.slots
  <2>1. entered \in World
    BY <1>1 DEF Sound
  <2>2. CASE cmd \in ScanCmd
    BY <2>2 DEF ScanCmd, Exec, LookupOp, CmdKeys, CmdDbSize, Result
  <2>3. CASE cmd \in WatchCmd
    <3>1. Exec(entered, cmd).world = WatchKey(entered, cmd.client, cmd.key)
      BY <2>3 DEF WatchCmd, Exec, LookupOp, Result
    <3> QED
      BY <2>1, <3>1 DEF WatchKey, World
  <2>4. CASE cmd \in UnwatchCmd
    <3>1. Exec(entered, cmd).world = UnwatchAll(entered, {cmd.client})
      BY <2>4 DEF UnwatchCmd, Exec, LookupOp, Result
    <3> QED
      BY <2>1, <3>1 DEF UnwatchAll, World
  <2> QED
    BY <2>2, <2>3, <2>4 DEF Command
<1>3. /\ RunCmd(w, cmd).world.repl = done.repl /\ RunCmd(w, cmd).world.slots = done.slots
  BY RunCmdIs DEF entered
<1> QED
  BY <1>1, <1>2, <1>3

LEMMA NextLogInv == LogInv /\ [Next]_vars => LogInv'
<1> SUFFICES ASSUME LogInv, [Next]_vars PROVE LogFits(world)'
  BY NextIInv DEF LogInv
<1>1. Sound(world) /\ world.nesting = 0 /\ LogFits(world)
  BY DEF LogInv, IInv
<1>2. ASSUME NEW cmd \in Command, Perform(cmd) PROVE LogFits(world')
  <2>1. CASE cmd \in KeyCmd
    <3>1. PICK es : UnitTells(world, RunCmd(world, cmd).world, es)
      BY <1>1, <2>1, RunKeyCmdTells
    <3> QED
      BY <1>1, <1>2, <3>1, UnitFits DEF Perform
  <2>2. CASE cmd \notin KeyCmd
    BY <1>1, <1>2, <2>2, QuietCommands DEF Perform, LogFits
  <2> QED
    BY <2>1, <2>2
<1>3. CASE \/ DoSet \/ DoExpire \/ DoDel \/ DoPersist \/ DoGet \/ DoExists \/ DoType
           \/ DoPttl \/ DoKeys \/ DoDbSize \/ DoWatch \/ DoUnwatch
  BY <1>2, <1>3 DEF Command, KeyCmd, DoSet, DoExpire, DoDel, DoPersist, DoGet, DoExists,
     DoType, DoPttl, DoKeys, DoDbSize, DoWatch, DoUnwatch
<1>4. CASE ActiveExpire
  <2>1. PICK es : UnitTells(world, RunActiveExpire(world), es)
    BY <1>1, RunCycleTells
  <2> QED
    BY <1>1, <1>4, <2>1, UnitFits DEF ActiveExpire
<1>5. CASE ClockTick
  <2>1. PICK d \in Ticks : world' = RunClockTick(world, d)
    BY <1>5 DEF ClockTick
  <2>2. world'.repl = world.repl
    BY <1>1, <2>1 DEF RunClockTick, Sound, World
  <2> QED
    BY <1>1, <2>2 DEF LogFits
<1>6. CASE UNCHANGED vars
  BY <1>1, <1>6 DEF vars, LogFits
<1> QED
  BY <1>3, <1>4, <1>5, <1>6 DEF Next, LogFits

LEMMA InitLogInv == Init => LogInv
<1> SUFFICES ASSUME Init PROVE LogFits(world)
  BY InitIInv DEF LogInv
<1>1. world.repl = <<>>
  BY DEF Init, NondetWorld, NewWorld
<1> QED
  BY <1>1, ReplAssumption DEF LogFits

LEMMA PropagatedFromInv == LogInv => ChangesArePropagatedOnce
<1> SUFFICES ASSUME LogInv PROVE ChangesArePropagatedOnce
  OBVIOUS
<1>1. Sound(world) /\ world.nesting = 0 /\ LogFits(world)
  BY DEF LogInv, IInv
<1>2. ASSUME NEW cmd \in KeyCmd PROVE PropagatedOnce(world, RunCmd(world, cmd).world)
  BY <1>1, RunKeyCmdTells, TellingIsPropagating
<1>3. PropagatedOnce(world, RunActiveExpire(world))
  BY <1>1, RunCycleTells, TellingIsPropagating
<1> QED
  BY <1>2, <1>3 DEF ChangesArePropagatedOnce

\* Each change that a unit makes is counted once in `dirty` and pushed once, unless
\* the log is full; a unit that counts nothing has changed nothing.
THEOREM EachChangeIsPropagatedOnce == Spec => []ChangesArePropagatedOnce
  BY InitLogInv, NextLogInv, PropagatedFromInv, PTL DEF Spec

-----------------------------------------------------------------------------
(***************************************************************************)
(* The replica.                                                            *)
(***************************************************************************)

LinkMode == [ReplicaMode EXCEPT !.caller = "MasterLink"]

\* The replica's world as the link sees it
Linked(w) == [w EXCEPT !.mode = LinkMode]

Pending == SubSeq(world.repl, applied + 1, Len(world.repl))

\* A replica's world that its link may use
Replicating(w) ==
    /\ w \in World /\ w.mode = ReplicaMode /\ w.nesting = 0
    /\ Sound(Linked(w))

ReplInv ==
    /\ LogInv
    /\ Replicating(replica)
    /\ applied \in 0..Len(world.repl)
    /\ replica.repl = SubSeq(world.repl, 1, applied)
    /\ Story(Pending, replica.slots, world.slots)

-----------------------------------------------------------------------------
(***************************************************************************)
(* Worlds that differ in their mode                                        *)
(***************************************************************************)
\* The three modes of a master and its replica, field by field
LEMMA LinkModes ==
    /\ StandaloneMaster \in Modes /\ ReplicaMode \in Modes /\ LinkMode \in Modes
    /\ ReplicaMode.role = "ReadOnlyReplica" /\ LinkMode.role = "ReadOnlyReplica"
    /\ ReplicaMode.caller = "Normal" /\ LinkMode.caller = "MasterLink"
    /\ ReplicaMode.allow_access_expired = FALSE /\ LinkMode.allow_access_expired = FALSE
    /\ [ReplicaMode EXCEPT !.caller = "Normal"] = ReplicaMode
<1>1. StandaloneMaster \in DrawnModes
  BY DEF StandaloneMaster, DrawnModes
<1>2. \A m \in DrawnModes, r \in {"Master", "ReadOnlyReplica"} :
        [m EXCEPT !.role = r] \in DrawnModes /\ [m EXCEPT !.role = r].role = r
          /\ [m EXCEPT !.role = r].caller = m.caller
  BY DEF DrawnModes
<1>3. \A m \in DrawnModes, c \in {"Normal", "MasterLink"} :
        [m EXCEPT !.caller = c] \in DrawnModes /\ [m EXCEPT !.caller = c].caller = c
          /\ [m EXCEPT !.caller = c].role = m.role
  BY DEF DrawnModes
<1>4. /\ ReplicaMode \in DrawnModes /\ ReplicaMode.role = "ReadOnlyReplica"
      /\ ReplicaMode.caller = "Normal"
  BY <1>1, <1>2 DEF ReplicaMode, StandaloneMaster
<1>5. /\ LinkMode \in DrawnModes /\ LinkMode.role = "ReadOnlyReplica"
      /\ LinkMode.caller = "MasterLink"
  BY <1>3, <1>4 DEF LinkMode
<1>6. /\ ReplicaMode.allow_access_expired = FALSE /\ LinkMode.allow_access_expired = FALSE
      /\ [ReplicaMode EXCEPT !.caller = "Normal"] = ReplicaMode
  BY <1>4, <1>5 DEF DrawnModes
<1> QED
  BY <1>1, <1>4, <1>5, <1>6, LinkModesAssumption

\* Changing a world's mode changes nothing else.
LEMMA LinkedKeeps ==
    ASSUME NEW w \in World
    PROVE  /\ Linked(w) \in World /\ Linked(w).mode = LinkMode
           /\ Linked(w).slots = w.slots /\ Linked(w).repl = w.repl
           /\ Linked(w).clock = w.clock /\ Linked(w).nesting = w.nesting
           /\ Linked(w).dirty = w.dirty
           /\ Linked(w).clients = w.clients /\ Linked(w).watched = w.watched
  BY LinkModes DEF Linked, World

\* Worlds that agree on every field are the same.
LEMMA WorldEqual ==
    ASSUME NEW u \in World, NEW v \in World,
           u.slots = v.slots, u.watched = v.watched, u.clients = v.clients,
           u.clock = v.clock, u.mode = v.mode, u.repl = v.repl, u.dirty = v.dirty,
           u.nesting = v.nesting
    PROVE  u = v
  BY DEF World

-----------------------------------------------------------------------------
(***************************************************************************)
(* Sequences                                                               *)
(***************************************************************************)
\* What a longer log changes for a reader that has read n effects of it.
LEMMA LongerLog ==
    ASSUME NEW log \in Seq(Effect), NEW es \in Seq(Effect), NEW n \in 0..Len(log)
    PROVE  /\ SubSeq(log \o es, 1, n) = SubSeq(log, 1, n)
           /\ SubSeq(log \o es, n + 1, Len(log \o es)) = SubSeq(log, n + 1, Len(log)) \o es
<1> DEFINE all == log \o es
           rest == SubSeq(log, n + 1, Len(log))
           long == SubSeq(all, n + 1, Len(all))
<1>1. /\ all \in Seq(Effect) /\ Len(all) = Len(log) + Len(es)
      /\ \A i \in 1..(Len(log) + Len(es)) :
            all[i] = IF i <= Len(log) THEN log[i] ELSE es[i - Len(log)]
  BY ConcatProperties
<1>2. Len(log) \in Nat /\ Len(es) \in Nat /\ n \in Nat /\ n <= Len(log)
  BY LenProperties
<1>3. /\ \A i \in 1..Len(log) : log[i] \in Effect
      /\ \A i \in 1..Len(all) : all[i] \in Effect
  BY <1>1, ElementOfSeq
<1> HIDE DEF all
<1>4. SubSeq(all, 1, n) = SubSeq(log, 1, n)
  <2>1. (\A i \in 1..n : all[i] \in Effect) /\ (\A i \in 1..n : log[i] \in Effect)
    BY <1>1, <1>2, <1>3
  <2>2. /\ SubSeq(all, 1, n) \in Seq(Effect)
        /\ Len(SubSeq(all, 1, n)) = IF 1 <= n THEN n - 1 + 1 ELSE 0
        /\ \A i \in 1..(n - 1 + 1) : SubSeq(all, 1, n)[i] = all[1 + i - 1]
    BY <1>2, <2>1, SubSeqProperties
  <2>3. /\ SubSeq(log, 1, n) \in Seq(Effect)
        /\ Len(SubSeq(log, 1, n)) = IF 1 <= n THEN n - 1 + 1 ELSE 0
        /\ \A i \in 1..(n - 1 + 1) : SubSeq(log, 1, n)[i] = log[1 + i - 1]
    BY <1>2, <2>1, SubSeqProperties
  <2>4. \A i \in 1..Len(SubSeq(all, 1, n)) : SubSeq(all, 1, n)[i] = SubSeq(log, 1, n)[i]
    BY <1>1, <1>2, <2>2, <2>3
  <2> QED
    BY <2>2, <2>3, <2>4, SeqEqual
<1>5. /\ rest \in Seq(Effect) /\ Len(rest) = Len(log) - n
      /\ \A i \in 1..(Len(log) - n) : rest[i] = log[n + i]
  <2>1. \A i \in (n + 1)..Len(log) : log[i] \in Effect
    BY <1>2, <1>3
  <2>2. /\ rest \in Seq(Effect)
        /\ Len(rest) = IF n + 1 <= Len(log) THEN Len(log) - (n + 1) + 1 ELSE 0
        /\ \A i \in 1..(Len(log) - (n + 1) + 1) : rest[i] = log[(n + 1) + i - 1]
    BY <1>2, <2>1, SubSeqProperties
  <2> QED
    BY <1>2, <2>2
<1>6. /\ long \in Seq(Effect) /\ Len(long) = Len(all) - n
      /\ \A i \in 1..(Len(all) - n) : long[i] = all[n + i]
  <2> DEFINE l == Len(all)
  <2>1. l \in Nat /\ n <= l /\ \A i \in (n + 1)..l : all[i] \in Effect
    BY <1>1, <1>2, <1>3
  <2>2. /\ long \in Seq(Effect)
        /\ Len(long) = IF n + 1 <= l THEN l - (n + 1) + 1 ELSE 0
        /\ \A i \in 1..(l - (n + 1) + 1) : long[i] = all[(n + 1) + i - 1]
    BY <1>2, <2>1, SubSeqProperties
  <2> HIDE DEF l, long
  <2>3. Len(long) = l - n /\ \A i \in 1..(l - n) : long[i] = all[n + i]
    BY <1>2, <2>1, <2>2
  <2> QED
    BY <2>2, <2>3 DEF l
<1> HIDE DEF rest, long
<1>7. /\ rest \o es \in Seq(Effect) /\ Len(rest \o es) = Len(all) - n
      /\ \A i \in 1..(Len(all) - n) :
            (rest \o es)[i] = IF i <= Len(rest) THEN rest[i] ELSE es[i - Len(rest)]
  <2>1. Len(rest) + Len(es) = Len(all) - n
    BY <1>1, <1>2, <1>5
  <2>2. rest \in Seq(Effect)
    BY <1>5
  <2>3. /\ rest \o es \in Seq(Effect) /\ Len(rest \o es) = Len(rest) + Len(es)
        /\ \A i \in 1..(Len(rest) + Len(es)) :
              (rest \o es)[i] = IF i <= Len(rest) THEN rest[i] ELSE es[i - Len(rest)]
    BY <2>2, ConcatProperties
  <2> QED
    BY <2>1, <2>3, Zenon
<1>8. ASSUME NEW i \in 1..(Len(all) - n) PROVE long[i] = (rest \o es)[i]
  <2> DEFINE r == Len(log) - n
  <2>1. /\ i \in Nat /\ r \in Nat /\ n + i \in 1..(Len(log) + Len(es))
        /\ n + i <= Len(log) <=> i <= r
        /\ n + i - Len(log) = i - r /\ i <= r => i \in 1..r
    BY <1>1, <1>2
  <2>2. /\ long[i] = IF i <= r THEN log[n + i] ELSE es[i - r]
        /\ (rest \o es)[i] = IF i <= r THEN rest[i] ELSE es[i - r]
        /\ i <= r => rest[i] = log[n + i]
    BY <1>1, <1>5, <1>6, <1>7, <2>1
  <2> QED
    BY <2>2
<1>9. long = rest \o es
  BY <1>6, <1>7, <1>8, SeqEqual
<1> QED
  BY <1>4, <1>9 DEF long, rest, all

\* What a reader that has read n effects of a log reads next.
LEMMA NextRead ==
    ASSUME NEW log \in Seq(Effect), NEW n \in Nat, n < Len(log)
    PROVE  LET rest == SubSeq(log, n + 1, Len(log))
           IN /\ rest \in Seq(Effect) /\ rest # <<>> /\ Head(rest) = log[n + 1]
              /\ Tail(rest) = SubSeq(log, n + 2, Len(log))
              /\ log[n + 1] \in Effect
              /\ SubSeq(log, 1, n + 1) = SubSeq(log, 1, n) \o <<log[n + 1]>>
              /\ SubSeq(log, 1, n) \in Seq(Effect) /\ Len(SubSeq(log, 1, n)) = n
<1> DEFINE l == Len(log)
           m == n + 1
           rest == SubSeq(log, m, l)
<1>1. /\ l \in Nat /\ m \in 1..l /\ l \in m..l /\ m - 1 = n /\ m + 1 = n + 2
      /\ 1 \in 1..l /\ m \in 1..l
  BY LenProperties
<1>2. \A i \in 1..l : log[i] \in Effect
  BY ElementOfSeq
<1>3. rest \in Seq(Effect) /\ Len(rest) = l - m + 1
  <2>1. \A i \in m..l : log[i] \in Effect
    BY <1>1, <1>2
  <2> QED
    BY <1>1, <2>1, SubSeqProperties
<1>4. rest # <<>>
  <2> HIDE DEF rest
  <2>1. Len(rest) # 0
    BY <1>1, <1>3
  <2> QED
    BY <2>1, EmptySeq
<1>5. Head(rest) = log[m] /\ Tail(rest) = SubSeq(log, m + 1, l)
  BY <1>1, HeadTailOfSubSeq
<1>6. SubSeq(log, 1, m) = SubSeq(log, 1, m - 1) \o <<log[m]>>
  BY <1>1, SubSeqRecursiveSecond
<1>7. SubSeq(log, 1, n) \in Seq(Effect) /\ Len(SubSeq(log, 1, n)) = n
  <2>1. \A i \in 1..n : log[i] \in Effect
    BY <1>1, <1>2
  <2>2. /\ SubSeq(log, 1, n) \in Seq(Effect)
        /\ Len(SubSeq(log, 1, n)) = IF 1 <= n THEN n - 1 + 1 ELSE 0
    BY <2>1, SubSeqProperties
  <2> QED
    BY <2>2
<1> QED
  BY <1>1, <1>2, <1>3, <1>4, <1>5, <1>6, <1>7

-----------------------------------------------------------------------------
(***************************************************************************)
(* The master: each of its steps appends a story to the log                *)
(***************************************************************************)
\* A unit whose effects fit appends them.
LEMMA UnitAppends ==
    ASSUME NEW w, Sound(w), LogHasRoom(w), NEW u, NEW es, UnitTells(w, u, es),
           Len(es) <= Cardinality(Key) + 1
    PROVE  u.repl = w.repl \o es
<1>1. w.repl \in Seq(Effect) /\ es \in Seq(Effect)
  BY DEF Sound, World, UnitTells
<1>2. /\ Len(w.repl) \in Nat /\ Len(es) \in Nat /\ ReplCap \in Nat
      /\ Cardinality(Key) \in Nat
  BY <1>1, LenProperties, ReplAssumption, KeysAssumption, FS_CardinalityType
<1>3. Len(w.repl) + Len(es) <= ReplCap
  BY <1>2 DEF LogHasRoom
<1> QED
  BY <1>1, <1>3, PushFits DEF UnitTells

LEMMA MasterTells ==
    ASSUME LogInv, LogHasRoom(world), Next
    PROVE  \E es \in Seq(Effect) : /\ Story(es, world.slots, world'.slots)
                                   /\ world'.repl = world.repl \o es
<1> DEFINE Appends(u) == \E es \in Seq(Effect) : /\ Story(es, world.slots, u.slots)
                                                 /\ u.repl = world.repl \o es
<1>1. /\ Sound(world) /\ world.nesting = 0 /\ LogFits(world)
      /\ world.repl \in Seq(Effect) /\ world.slots \in Keyspace
  BY DEF LogInv, IInv, Sound, World, Keyspace
<1>2. Cardinality(Key) \in Nat /\ (Key # {} => 1 <= Cardinality(Key))
  <2>1. Cardinality(Key) \in Nat /\ (Cardinality(Key) = 0 <=> Key = {})
    BY KeysAssumption, FS_CardinalityType, FS_EmptySet
  <2> QED
    BY <2>1
<1>3. ASSUME NEW u, NEW es, UnitTells(world, u, es), Len(es) <= Cardinality(Key) + 1
      PROVE  Appends(u)
  <2>1. u.repl = world.repl \o es
    BY <1>1, <1>3, UnitAppends
  <2> QED
    BY <1>3, <2>1 DEF UnitTells
<1>4. ASSUME NEW u, u.slots = world.slots, u.repl = world.repl PROVE Appends(u)
  <2>1. Story(<<>>, world.slots, u.slots)
    BY <1>1, <1>4, StoryEmpty
  <2>2. u.repl = world.repl \o <<>> /\ <<>> \in Seq(Effect)
    BY <1>1, <1>4, ConcatEmptySeq
  <2> QED
    BY <2>1, <2>2
<1>5. ASSUME NEW cmd \in Command, Perform(cmd) PROVE Appends(world')
  <2>1. CASE cmd \in KeyCmd
    <3>1. PICK es : UnitTells(world, RunCmd(world, cmd).world, es) /\ Len(es) <= 2
      BY <1>1, <2>1, RunKeyCmdTells
    <3>2. es \in Seq(Effect) /\ Len(es) \in Nat
      BY <3>1, LenProperties DEF UnitTells
    <3>3. Key # {}
      BY <2>1 DEF KeyCmd, SetCmd, ExpireCmd, RemoveCmd, LookupCmd
    <3>4. Len(es) <= Cardinality(Key) + 1
      BY <1>2, <3>1, <3>2, <3>3
    <3> HIDE DEF Appends
    <3> QED
      BY <1>3, <1>5, <3>1, <3>4 DEF Perform
  <2>2. CASE cmd \notin KeyCmd
    <3>1. /\ RunCmd(world, cmd).world.slots = world.slots
          /\ RunCmd(world, cmd).world.repl = world.repl
      BY <1>1, <2>2, QuietCommands
    <3> HIDE DEF Appends
    <3> QED
      BY <1>4, <1>5, <3>1 DEF Perform
  <2> QED
    BY <2>1, <2>2
<1>6. CASE \/ DoSet \/ DoExpire \/ DoDel \/ DoPersist \/ DoGet \/ DoExists \/ DoType
           \/ DoPttl \/ DoKeys \/ DoDbSize \/ DoWatch \/ DoUnwatch
  BY <1>5, <1>6 DEF Command, KeyCmd, DoSet, DoExpire, DoDel, DoPersist, DoGet, DoExists,
     DoType, DoPttl, DoKeys, DoDbSize, DoWatch, DoUnwatch
<1>7. ASSUME ActiveExpire PROVE Appends(world')
  <2>1. PICK es : /\ UnitTells(world, RunActiveExpire(world), es)
                  /\ Len(es) <= Cardinality(Key)
    BY <1>1, RunCycleTells
  <2>2. es \in Seq(Effect) /\ Len(es) \in Nat
    BY <2>1, LenProperties DEF UnitTells
  <2>3. Len(es) <= Cardinality(Key) + 1
    BY <1>2, <2>1, <2>2
  <2> HIDE DEF Appends
  <2> QED
    BY <1>3, <1>7, <2>1, <2>3 DEF ActiveExpire
<1>8. ASSUME ClockTick PROVE Appends(world')
  <2>1. PICK d \in Ticks : world' = RunClockTick(world, d)
    BY <1>8 DEF ClockTick
  <2>2. world'.repl = world.repl /\ world'.slots = world.slots
    BY <1>1, <2>1 DEF RunClockTick, Sound, World
  <2> HIDE DEF Appends
  <2> QED
    BY <1>4, <2>2
<1> QED
  BY <1>6, <1>7, <1>8 DEF Next

-----------------------------------------------------------------------------
(***************************************************************************)
(* The link: an effect applied as a command does what it says              *)
(***************************************************************************)
\* On the link a lookup leaves the world alone and finds a key that is there.
LEMMA LinkFinds ==
    ASSUME NEW w, Sound(w), w.mode = LinkMode, NEW k \in Key
    PROVE  /\ LookupKeyWrite(w, k).world = w
           /\ LookupKeyWrite(w, k).value # NoValue <=> w.slots[k].present
<1>1. SeenFromMaster(w.mode)
  BY LinkModes DEF SeenFromMaster
<1>2. w.slots[k].value # NoValue
  BY NoValueAssumption, EmptyStrAssumption DEF Sound, World, Slot
<1>3. CASE w.slots[k].present
  <2>1. ExpireIfNeeded(w, k, WriteFlags) = [world |-> w, status |-> "Valid"]
    BY <1>1 DEF ExpireIfNeeded
  <2>2. LookupKeyWrite(w, k) = [world |-> w, value |-> w.slots[k].value]
    BY <1>3, <2>1 DEF LookupKeyWrite, Lookup, Found
  <2> QED
    BY <1>2, <1>3, <2>2
<1>4. CASE ~w.slots[k].present
  BY <1>4 DEF LookupKeyWrite, Lookup
<1> QED
  BY <1>3, <1>4

\* What a replica executes for an effect writes what the effect says.
LEMMA LinkWrites ==
    ASSUME NEW w, Sound(w), w.mode = LinkMode, NEW e \in Effect,
           Finds(w.slots[e.key], e)
    PROVE  /\ AsCommand(e) \in KeyCmd
           /\ Exec(w, AsCommand(e)).world
                = WriteSlot(w, e.key, Wrote(w.slots[e.key], e), e)
<1> DEFINE k == e.key
           write == LookupKeyWrite(w, k)
<1>1. k \in Key
  BY DEF Effect
<1>2. write.world = w /\ (write.value # NoValue <=> w.slots[k].present)
  BY <1>1, LinkFinds
<1>3. \A at : ~CheckAlreadyExpired(w, at)
  BY LinkModes DEF CheckAlreadyExpired
<1>4. CASE e.op = "Set"
  <2> DEFINE ttl == IF e.pxat = NoExpire THEN NoTtl ELSE [kind |-> "PxAt", at |-> e.pxat]
             cmd == [op |-> "Set", key |-> k, val |-> e.val, cond |-> "Always",
                     ttl |-> ttl, get |-> FALSE]
             slot == [present |-> TRUE, value |-> e.val, expire_at |-> e.pxat]
  <2>1. e.val \in Value /\ e.pxat \in ExpireTimes \cup {NoExpire} /\ e = SetEffect(k, e.val, e.pxat)
    BY <1>4 DEF Effect, SetEffect
  <2>2. AsCommand(e) = cmd
    BY <1>4 DEF AsCommand
  <2>3. ttl \in TtlArg
    BY <2>1 DEF TtlArg, PxAt
  <2>4. \A exists : NewExpire(w, k, ttl, exists) = e.pxat
    BY DEF NewExpire, NoTtl
  <2> HIDE DEF ttl
  <2>5. cmd \in SetCmd
    BY <1>1, <2>1, <2>3 DEF SetCmd, SetCond
  <2>6. Exec(w, cmd) = CmdSet(w, cmd)
    BY DEF Exec, LookupOp
  <2>7. CmdSet(w, cmd) = SetFound(write, NoValue, cmd)
    BY DEF CmdSet, SetAfterGet
  <2> HIDE DEF write
  <2>8. SetFound(write, NoValue, cmd).world = WriteSlot(w, k, slot, SetEffect(k, e.val, e.pxat))
    BY <1>2, <1>3, <2>4 DEF SetFound, SetAllowed, Result
  <2>9. slot = Wrote(w.slots[k], e)
    BY <1>4 DEF Wrote
  <2> QED
    BY <2>1, <2>2, <2>5, <2>6, <2>7, <2>8, <2>9 DEF KeyCmd
<1>5. CASE e.op = "Del"
  <2>1. e = DelEffect(k) /\ AsCommand(e) = e /\ e \in RemoveCmd
    BY <1>1, <1>5 DEF Effect, DelEffect, AsCommand, RemoveCmd
  <2>2. Exec(w, e) = DelFound(write, k)
    BY <1>5 DEF Exec, LookupOp, CmdDel
  <2>3. w.slots[k].present
    BY <1>5 DEF Finds
  <2> HIDE DEF write
  <2>4. DelFound(write, k).world = WriteSlot(w, k, AbsentSlot, DelEffect(k))
    BY <1>2, <2>3 DEF DelFound, DeleteSlot, Result
  <2>5. AbsentSlot = Wrote(w.slots[k], e)
    BY <1>5 DEF Wrote
  <2> QED
    BY <2>1, <2>2, <2>4, <2>5 DEF KeyCmd
<1>6. CASE e.op = "PExpireAt"
  <2> DEFINE cmd == [op |-> "Expire", key |-> k, at |-> e.at, cond |-> "None"]
             slot == [w.slots[k] EXCEPT !.expire_at = e.at]
  <2>1. e = PExpireAtEffect(k, e.at) /\ e.at \in ExpireTimes /\ AsCommand(e) = cmd
    BY <1>6 DEF Effect, PExpireAtEffect, AsCommand
  <2>2. cmd \in ExpireCmd
    BY <1>1, <2>1 DEF ExpireCmd, ExpireCond
  <2>3. Exec(w, cmd) = ExpireFound(write, k, e.at, "None")
    BY DEF Exec, LookupOp, CmdExpire
  <2>4. w.slots[k].present
    BY <1>6 DEF Finds
  <2> HIDE DEF write
  <2>5. ExpireFound(write, k, e.at, "None").world
          = WriteSlot(w, k, slot, PExpireAtEffect(k, e.at))
    BY <1>2, <1>3, <2>4 DEF ExpireFound, ExpireRefused, Result
  <2>6. slot = Wrote(w.slots[k], e)
    BY <1>6 DEF Wrote
  <2> QED
    BY <2>1, <2>2, <2>3, <2>5, <2>6 DEF KeyCmd
<1>7. CASE e.op = "Persist"
  <2> DEFINE slot == [w.slots[k] EXCEPT !.expire_at = NoExpire]
  <2>1. e = PersistEffect(k) /\ AsCommand(e) = e /\ e \in RemoveCmd
    BY <1>1, <1>7 DEF Effect, PersistEffect, AsCommand, RemoveCmd
  <2>2. Exec(w, e) = PersistFound(write, k)
    BY <1>7 DEF Exec, LookupOp, CmdPersist
  <2>3. w.slots[k].present /\ w.slots[k].expire_at # NoExpire
    BY <1>7 DEF Finds
  <2> HIDE DEF write
  <2>4. PersistFound(write, k).world = WriteSlot(w, k, slot, PersistEffect(k))
    BY <1>2, <2>3 DEF PersistFound, Result
  <2>5. slot = Wrote(w.slots[k], e)
    BY <1>7 DEF Wrote
  <2> QED
    BY <2>1, <2>2, <2>4, <2>5 DEF KeyCmd
<1> QED
  BY <1>4, <1>5, <1>6, <1>7 DEF Effect

\* An effect of the log, run as a unit on the link, leaves the slots that it says
\* and is propagated itself.
LEMMA LinkApplies ==
    ASSUME NEW w, Sound(w), w.nesting = 0, w.mode = LinkMode, NEW e \in Effect,
           Finds(w.slots[e.key], e)
    PROVE  LET u == RunCmd(w, AsCommand(e)).world
           IN u.slots = After(w.slots, e) /\ u.repl = Push(w.repl, <<e>>)
<1> DEFINE entered == EnterExecutionUnit(w)
           done == Exec(entered, AsCommand(e)).world
           u == RunCmd(w, AsCommand(e)).world
           slot == Wrote(w.slots[e.key], e)
<1>1. /\ Sound(entered) /\ entered.mode = LinkMode /\ entered.slots = w.slots
      /\ entered.repl = w.repl
  BY EnterKeeps
<1> HIDE DEF entered
<1>2. AsCommand(e) \in KeyCmd /\ done = WriteSlot(entered, e.key, slot, e)
  BY <1>1, LinkWrites
<1>3. u.slots = done.slots /\ u.repl = done.repl
  BY <1>2, RunCmdIs DEF entered, Command
<1> HIDE DEF done, u
<1>4. Tells(entered, done, <<e>>)
  <2>1. e.key \in Key
    BY DEF Effect
  <2> QED
    BY <1>1, <1>2, <2>1, WriteSlotTells
<1>5. done.repl = Push(w.repl, <<e>>) /\ Story(<<e>>, w.slots, done.slots)
  BY <1>1, <1>4 DEF Tells
<1>6. /\ <<e>> \in Seq(Effect) /\ <<e>> # <<>> /\ Head(<<e>>) = e /\ Tail(<<e>>) = <<>>
  OBVIOUS
<1>7. done.slots = After(w.slots, e)
  <2>1. Story(<<>>, After(w.slots, e), done.slots)
    BY <1>5, <1>6, StoryBegins
  <2> QED
    BY <2>1, StoryOfNothing
<1> QED
  BY <1>3, <1>5, <1>7 DEF u

-----------------------------------------------------------------------------
(***************************************************************************)
(* The replica, whose two kinds of caller see different modes              *)
(***************************************************************************)
\* What runs for the link runs in the linked world.
LEMMA RunAsLink ==
    ASSUME NEW w, Replicating(w), NEW cmd \in Command
    PROVE  LET u == RunAs("MasterLink", w, cmd)
           IN Replicating(u) /\ Linked(u) = RunCmd(Linked(w), cmd).world
<1> DEFINE v == RunCmd(Linked(w), cmd).world
           u == RunAs("MasterLink", w, cmd)
<1>1. [w EXCEPT !.mode.caller = "MasterLink"] = Linked(w)
  BY DEF Linked, LinkMode, Replicating, World
<1>2. Sound(Linked(w)) /\ Linked(w).nesting = 0 /\ Linked(w).mode = LinkMode
  BY LinkedKeeps DEF Replicating
<1>3. Sound(v) /\ v.nesting = 0 /\ v.mode = LinkMode
  <2>1. Sound(v) /\ v.nesting = 0
    BY <1>2, RunCmdSound
  <2>2. /\ Sound(EnterExecutionUnit(Linked(w)))
        /\ EnterExecutionUnit(Linked(w)).mode = LinkMode
    BY <1>2, EnterKeeps
  <2>3. Exec(EnterExecutionUnit(Linked(w)), cmd).world.mode = LinkMode
    BY <2>2, ExecSound DEF SameUnit
  <2>4. v.mode = LinkMode
    BY <1>2, <2>3, RunCmdIs
  <2> QED
    BY <2>1, <2>4
<1>4. u = [v EXCEPT !.mode = ReplicaMode]
  BY <1>1 DEF RunAs, Replicating
<1> HIDE DEF u, v
<1>5. /\ u \in World /\ u.mode = ReplicaMode
      /\ u.slots = v.slots /\ u.watched = v.watched /\ u.clients = v.clients
      /\ u.clock = v.clock /\ u.repl = v.repl /\ u.dirty = v.dirty
      /\ u.nesting = v.nesting
  BY <1>3, <1>4, LinkModes DEF Sound, World
<1>6. Linked(u) = v
  BY <1>3, <1>5, LinkedKeeps, WorldEqual DEF Sound
<1> QED
  BY <1>3, <1>5, <1>6 DEF Replicating, u, v

\* Nothing that a replica's own client may ask depends on who asks.
LEMMA ClientExec ==
    ASSUME NEW w \in World, w.mode = ReplicaMode, Sound(Linked(w)),
           NEW cmd \in LookupCmd \cup ScanCmd \cup WatchCmd \cup UnwatchCmd
    PROVE  LET u == Exec(w, cmd).world
           IN /\ u \in World /\ Linked(u) = Exec(Linked(w), cmd).world
              /\ u.mode = ReplicaMode /\ u.nesting = w.nesting
              /\ u.slots = w.slots /\ u.repl = w.repl
<1> DEFINE l == Linked(w)
<1>1. /\ l \in World /\ l.mode = LinkMode /\ l.slots = w.slots /\ l.repl = w.repl
      /\ l.clock = w.clock /\ l.nesting = w.nesting /\ l.dirty = w.dirty
      /\ l.clients = w.clients /\ l.watched = w.watched /\ Sound(l)
  BY LinkedKeeps
<1>2. CASE cmd \in LookupCmd
  <2>1. \A x : Exec(x, cmd).world = LookupKeyRead(x, cmd.key).world
    BY <1>2 DEF LookupCmd, LookupOp, Exec, CmdLookup, Answered, Result
  <2> HIDE DEF l
  <2>2. Exec(w, cmd).world = w /\ Exec(l, cmd).world = l
    BY <1>1, <2>1, LinkModes, ReplicaReadsKeep
  <2> QED
    BY <2>2 DEF l
<1>3. CASE cmd \in ScanCmd
  <2>1. \A x : Exec(x, cmd).world = x
    BY <1>3 DEF ScanCmd, LookupOp, Exec, CmdKeys, CmdDbSize, Result
  <2> QED
    BY <2>1
<1>4. CASE cmd \in WatchCmd
  <2> DEFINE c == cmd.client
             k == cmd.key
             u == WatchKey(w, c, k)
             v == WatchKey(l, c, k)
  <2>1. c \in Client /\ k \in Key
    BY <1>4 DEF WatchCmd
  <2>2. \A x : Exec(x, cmd).world = WatchKey(x, c, k)
    BY <1>4 DEF WatchCmd, Exec, LookupOp, Result
  <2> HIDE DEF l
  <2>3. v \in World /\ v.mode = LinkMode
    BY <1>1, <2>1, WatchKeySound DEF SameUnit, Sound
  <2>4. KeyIsExpired(w, k) <=> KeyIsExpired(l, k)
    BY <1>1, LinkModes DEF KeyIsExpired
  <2>5. CASE k \in w.clients[c].watching
    BY <1>1, <2>2, <2>5 DEF WatchKey, l
  <2>6. CASE k \notin w.clients[c].watching
    <3> DEFINE expired_now == w.slots[k].present /\ KeyIsExpired(w, k)
               client == [w.clients[c] EXCEPT
                            !.watching = @ \cup {k},
                            !.watched_expired =
                                IF expired_now THEN @ \cup {k} ELSE @ \ {k}]
               X == [w.clients EXCEPT ![c] = client]
               Y == [w.watched EXCEPT ![k] = AddTail(@, c)]
    <3>1. w.clients \in [Client -> ClientState]
      BY DEF World
    <3>2. u = [w EXCEPT !.clients = X, !.watched = Y]
      BY <2>1, <2>6, <3>1 DEF WatchKey, World
    <3>3. v = [l EXCEPT !.clients = X, !.watched = Y]
      BY <1>1, <2>1, <2>4, <2>6, <3>1 DEF WatchKey, World
    <3> HIDE DEF X, Y, u, v
    <3>4. v.clients = X /\ v.watched = Y
      BY <1>1, <3>3 DEF World
    <3>5. /\ X \in [Client -> ClientState] /\ Y \in [Key -> SUBSET (Client \X Client)]
      BY <2>3, <3>4 DEF World
    <3>6. /\ u \in World /\ u.clients = X /\ u.watched = Y /\ u.mode = w.mode
          /\ u.slots = w.slots /\ u.clock = w.clock /\ u.repl = w.repl
          /\ u.dirty = w.dirty /\ u.nesting = w.nesting
      BY <3>2, <3>5 DEF World
    <3>7. /\ v.slots = w.slots /\ v.clock = w.clock /\ v.repl = w.repl
          /\ v.dirty = w.dirty /\ v.nesting = w.nesting
      BY <1>1, <3>3 DEF World
    <3>8. Linked(u) = v
      BY <2>3, <3>4, <3>6, <3>7, LinkedKeeps, WorldEqual
    <3> QED
      BY <2>2, <3>6, <3>8 DEF u, v, l
  <2> QED
    BY <2>5, <2>6
<1>5. CASE cmd \in UnwatchCmd
  <2> DEFINE c == cmd.client
             u == UnwatchAll(w, {c})
             v == UnwatchAll(l, {c})
  <2>1. {c} \in SUBSET Client
    BY <1>5 DEF UnwatchCmd
  <2>2. \A x : Exec(x, cmd).world = UnwatchAll(x, {c})
    BY <1>5 DEF UnwatchCmd, Exec, LookupOp, Result
  <2> HIDE DEF l
  <2>3. TableIsConsistent(w) /\ TableIsConsistent(l)
    BY <1>1 DEF Sound, TableIsConsistent, Watchers
  <2>4. u.clients = v.clients /\ u.watched = v.watched
    BY <1>1 DEF UnwatchAll, World
  <2> HIDE DEF u, v
  <2>5. /\ u \in World /\ u.slots = w.slots /\ u.clock = w.clock /\ u.mode = w.mode
        /\ u.repl = w.repl /\ u.dirty = w.dirty /\ u.nesting = w.nesting
    BY <2>1, <2>3, UnwatchAllKeeps DEF u
  <2>6. /\ v \in World /\ v.slots = l.slots /\ v.clock = l.clock /\ v.mode = l.mode
        /\ v.repl = l.repl /\ v.dirty = l.dirty /\ v.nesting = l.nesting
    BY <1>1, <2>1, <2>3, UnwatchAllKeeps DEF v
  <2>7. Linked(u) = v
    BY <1>1, <2>4, <2>5, <2>6, LinkedKeeps, WorldEqual
  <2> QED
    BY <2>2, <2>5, <2>7 DEF u, v, l
<1> QED
  BY <1>2, <1>3, <1>4, <1>5

\* Opening a unit, field by field
LEMMA EnterFields ==
    ASSUME NEW w \in World
    PROVE  LET u == EnterExecutionUnit(w)
           IN /\ u \in World /\ u.mode = w.mode /\ u.nesting = w.nesting + 1
              /\ u.slots = w.slots /\ u.repl = w.repl /\ u.clock = w.clock
              /\ u.clients = w.clients /\ u.watched = w.watched
              /\ u.dirty = IF w.nesting = 0 THEN 0 ELSE w.dirty
<1> DEFINE n == w.nesting + 1
           d == IF w.nesting = 0 THEN 0 ELSE w.dirty
<1>1. n \in Nat /\ d \in Nat
  BY DEF World
<1>2. EnterExecutionUnit(w) = [w EXCEPT !.nesting = n, !.dirty = d]
  BY DEF EnterExecutionUnit, World
<1> HIDE DEF n, d
<1>3. LET u == EnterExecutionUnit(w)
      IN /\ u \in World /\ u.mode = w.mode /\ u.nesting = n
         /\ u.slots = w.slots /\ u.repl = w.repl /\ u.clock = w.clock
         /\ u.clients = w.clients /\ u.watched = w.watched /\ u.dirty = d
  BY <1>1, <1>2 DEF World
<1> QED
  BY <1>3 DEF n, d

\* Opening and closing a unit does not depend on who asks either.
LEMMA RunAsClient ==
    ASSUME NEW w, Replicating(w),
           NEW cmd \in LookupCmd \cup ScanCmd \cup WatchCmd \cup UnwatchCmd
    PROVE  LET u == RunAs("Normal", w, cmd)
           IN Replicating(u) /\ u.slots = w.slots /\ u.repl = w.repl
<1> DEFINE l == Linked(w)
           entered == EnterExecutionUnit(w)
           done == Exec(entered, cmd).world
           u == ExitExecutionUnit(done)
           v == RunCmd(l, cmd).world
<1>1. [w EXCEPT !.mode.caller = "Normal"] = w
  BY LinkModes DEF Replicating, World
<1>2. /\ l \in World /\ l.mode = LinkMode /\ Sound(l) /\ l.nesting = w.nesting
      /\ l.slots = w.slots /\ l.repl = w.repl /\ l.clock = w.clock /\ l.dirty = w.dirty
      /\ l.clients = w.clients /\ l.watched = w.watched /\ w \in World
  BY LinkedKeeps DEF Replicating
<1>3. /\ entered \in World /\ entered.mode = ReplicaMode /\ entered.nesting = w.nesting + 1
      /\ entered.slots = w.slots /\ entered.repl = w.repl /\ entered.clock = w.clock
      /\ entered.clients = w.clients /\ entered.watched = w.watched
      /\ entered.dirty = IF w.nesting = 0 THEN 0 ELSE w.dirty
  BY EnterFields DEF Replicating
<1>4. EnterExecutionUnit(l) = Linked(entered)
  <2> DEFINE x == EnterExecutionUnit(l)
  <2>1. /\ x \in World /\ x.mode = LinkMode /\ x.nesting = w.nesting + 1
        /\ x.slots = w.slots /\ x.repl = w.repl /\ x.clock = w.clock
        /\ x.clients = w.clients /\ x.watched = w.watched
        /\ x.dirty = IF w.nesting = 0 THEN 0 ELSE w.dirty
    <3> HIDE DEF l
    <3> QED
      BY <1>2, EnterFields
  <2> HIDE DEF x, entered, l
  <2> QED
    BY <1>3, <2>1, LinkedKeeps, WorldEqual DEF x
<1>5. Sound(Linked(entered))
  BY <1>2, <1>4, EnterKeeps
<1> HIDE DEF entered
<1>6. /\ done \in World /\ Linked(done) = Exec(EnterExecutionUnit(l), cmd).world
      /\ done.mode = ReplicaMode /\ done.nesting = w.nesting + 1
      /\ done.slots = w.slots /\ done.repl = w.repl
  BY <1>3, <1>4, <1>5, ClientExec
<1>7. RunAs("Normal", w, cmd) = [u EXCEPT !.mode = w.mode]
  BY <1>1 DEF RunAs, RunCmd, CloseUnit, Result, entered
<1>8. v = ExitExecutionUnit(Linked(done))
  BY <1>6 DEF RunCmd, CloseUnit, Result
<1>9. Sound(v) /\ v.nesting = 0
  <2>1. cmd \in Command
    BY DEF Command, KeyCmd
  <2> QED
    BY <1>2, <2>1, RunCmdSound DEF Replicating
<1> HIDE DEF done
<1>10. /\ u \in World /\ u.mode = ReplicaMode /\ u.nesting = 0
       /\ u.slots = done.slots /\ u.repl = done.repl /\ u.clock = done.clock
       /\ u.clients = done.clients /\ u.watched = done.watched /\ u.dirty = done.dirty
  BY <1>6 DEF ExitExecutionUnit, Replicating, World
<1>11. Linked(u) = v
  <2>1. /\ Linked(done) \in World /\ Linked(done).nesting = w.nesting + 1
        /\ Linked(done).mode = LinkMode /\ Linked(done).slots = done.slots
        /\ Linked(done).repl = done.repl /\ Linked(done).clock = done.clock
        /\ Linked(done).clients = done.clients /\ Linked(done).watched = done.watched
        /\ Linked(done).dirty = done.dirty
    BY <1>6, LinkedKeeps
  <2>2. /\ v \in World /\ v.mode = LinkMode /\ v.nesting = 0
        /\ v.slots = done.slots /\ v.repl = done.repl /\ v.clock = done.clock
        /\ v.clients = done.clients /\ v.watched = done.watched /\ v.dirty = done.dirty
    BY <1>8, <2>1, <1>9 DEF ExitExecutionUnit, Sound, World
  <2> HIDE DEF u, v
  <2> QED
    BY <1>10, <2>2, LinkedKeeps, WorldEqual
<1> HIDE DEF u, v
<1>12. RunAs("Normal", w, cmd) = u
  BY <1>7, <1>10 DEF Replicating, World
<1> QED
  BY <1>6, <1>9, <1>10, <1>11, <1>12 DEF Replicating

\* The active cycle of a replica only opens and closes its unit.
LEMMA ReplicaCycle ==
    ASSUME NEW w, Replicating(w)
    PROVE  LET u == RunActiveExpire(w)
           IN Replicating(u) /\ u.slots = w.slots /\ u.repl = w.repl
<1> DEFINE u == RunActiveExpire(w)
           entered == EnterExecutionUnit(w)
<1>1. /\ entered \in World /\ entered.mode = ReplicaMode /\ entered.nesting = 1
      /\ entered.slots = w.slots /\ entered.repl = w.repl /\ entered.clock = w.clock
      /\ entered.clients = w.clients /\ entered.watched = w.watched
      /\ entered.dirty = 0
  BY EnterFields DEF Replicating
<1>2. u = ExitExecutionUnit(entered)
  BY <1>1, LinkModes DEF RunActiveExpire, ActiveExpireCycle
<1> HIDE DEF entered, u
<1>3. /\ u \in World /\ u.mode = ReplicaMode /\ u.nesting = 0
      /\ u.slots = w.slots /\ u.repl = w.repl /\ u.clock = w.clock
      /\ u.clients = w.clients /\ u.watched = w.watched
  BY <1>1, <1>2 DEF ExitExecutionUnit, World
<1>4. Sound(Linked(u))
  <2> DEFINE x == Linked(u)
             l == Linked(w)
  <2>1. /\ x \in World /\ x.mode = LinkMode /\ x.slots = w.slots /\ x.clock = w.clock
        /\ x.clients = w.clients /\ x.watched = w.watched
    BY <1>3, LinkedKeeps
  <2>2. /\ l.mode = LinkMode /\ l.slots = w.slots /\ l.clock = w.clock
        /\ l.clients = w.clients /\ l.watched = w.watched /\ Sound(l)
    BY LinkedKeeps DEF Replicating
  <2> HIDE DEF x, l
  <2>3. Sound(x)
    BY <2>1, <2>2 DEF Sound, TableIsConsistent, Watchers, AbsentSlotsAreBlank,
       FlagsAreFresh, KeyIsExpired
  <2> QED
    BY <2>3 DEF x
<1> QED
  BY <1>3, <1>4 DEF Replicating, u

LEMMA ReplicaTime ==
    ASSUME NEW w, Replicating(w), NEW d \in Ticks
    PROVE  LET u == RunClockTick(w, d)
           IN Replicating(u) /\ u.slots = w.slots /\ u.repl = w.repl
<1> DEFINE u == RunClockTick(w, d)
           v == RunClockTick(Linked(w), d)
<1>1. w.clock \in Nat /\ d \in Nat /\ w \in World
  BY TimesAssumption DEF Replicating, World
<1>2. /\ u \in World /\ u.mode = ReplicaMode /\ u.nesting = 0
      /\ u.slots = w.slots /\ u.repl = w.repl /\ u.clock = w.clock + d
      /\ u.clients = w.clients /\ u.watched = w.watched /\ u.dirty = w.dirty
  BY <1>1 DEF RunClockTick, Replicating, World
<1>3. Sound(v)
  BY RunClockTickSound DEF Replicating
<1>4. /\ v \in World /\ v.mode = LinkMode /\ v.nesting = 0
      /\ v.slots = w.slots /\ v.repl = w.repl /\ v.clock = w.clock + d
      /\ v.clients = w.clients /\ v.watched = w.watched /\ v.dirty = w.dirty
  <2> DEFINE l == Linked(w)
  <2>1. /\ l \in World /\ l.mode = LinkMode /\ l.nesting = 0
        /\ l.slots = w.slots /\ l.repl = w.repl /\ l.clock = w.clock
        /\ l.clients = w.clients /\ l.watched = w.watched /\ l.dirty = w.dirty
    BY <1>1, LinkedKeeps DEF Replicating
  <2> HIDE DEF l
  <2>2. v = RunClockTick(l, d)
    BY DEF l
  <2> QED
    BY <1>1, <2>1, <2>2 DEF RunClockTick, World
<1> HIDE DEF u, v
<1>5. Linked(u) = v
  BY <1>2, <1>4, LinkedKeeps, WorldEqual
<1> QED
  BY <1>2, <1>3, <1>5 DEF Replicating, u

-----------------------------------------------------------------------------
(***************************************************************************)
(* The inductive invariant                                                 *)
(***************************************************************************)
\* A replica and its master start with nothing, and nothing to tell.
LEMMA InitReplInv == ReplInit => ReplInv
<1> SUFFICES ASSUME ReplInit PROVE ReplInv
  OBVIOUS
<1> DEFINE blank == [k \in Key |-> AbsentSlot]
<1>1. blank \in [Key -> DrawnSlot] /\ blank \in Keyspace
  BY DEF DrawnSlot, Keyspace, AbsentSlot, Slot
<1>2. \A mode \in Modes : Sound(NewWorld(blank, 0, mode))
                            /\ NewWorld(blank, 0, mode).nesting = 0
  BY <1>1, NewWorldSound DEF NondetWorld
<1>3. world = NewWorld(blank, 0, StandaloneMaster) /\ applied = 0
      /\ replica = [NewWorld(blank, 0, StandaloneMaster) EXCEPT !.mode = ReplicaMode]
  BY DEF ReplInit, ReplicaFresh, EmptyWorld
<1> HIDE DEF blank
<1>4. \A mode : /\ NewWorld(blank, 0, mode).slots = blank
                /\ NewWorld(blank, 0, mode).repl = <<>>
                /\ NewWorld(blank, 0, mode).mode = mode
  BY DEF NewWorld
<1>5. replica = NewWorld(blank, 0, ReplicaMode)
  BY <1>3 DEF NewWorld
<1>6. Linked(replica) = NewWorld(blank, 0, LinkMode)
  <2>1. replica \in World /\ NewWorld(blank, 0, LinkMode) \in World
    BY <1>2, <1>5, LinkModes DEF Sound
  <2>2. NewWorld(blank, 0, LinkMode).mode = LinkMode
    BY <1>4
  <2>3. LET u == replica
            v == NewWorld(blank, 0, LinkMode)
        IN /\ u.slots = v.slots /\ u.watched = v.watched /\ u.clients = v.clients
           /\ u.clock = v.clock /\ u.repl = v.repl /\ u.dirty = v.dirty
           /\ u.nesting = v.nesting
    BY <1>5 DEF NewWorld
  <2> QED
    BY <2>1, <2>2, <2>3, LinkedKeeps, WorldEqual
<1>7. Replicating(replica)
  BY <1>2, <1>4, <1>5, <1>6, LinkModes DEF Replicating, Sound
<1>8. LogInv
  <2>1. Len(<<>>) <= ReplCap
    BY ReplAssumption
  <2> QED
    BY <1>2, <1>3, <1>4, <2>1, LinkModes DEF LogInv, IInv, LogFits
<1>9. /\ world.repl = <<>> /\ replica.repl = <<>>
      /\ world.slots = blank /\ replica.slots = blank
  BY <1>3, <1>4, <1>5
<1>10. /\ applied \in 0..Len(world.repl)
       /\ SubSeq(world.repl, 1, applied) = <<>> /\ Pending = <<>>
  BY <1>3, <1>9, SubSeqEmpty DEF Pending
<1>11. Story(<<>>, blank, blank)
  BY <1>1, StoryEmpty
<1> QED
  BY <1>7, <1>8, <1>9, <1>10, <1>11 DEF ReplInv

\* A step of the master adds its story to what is pending.
LEMMA MasterReplInv == ReplInv /\ MasterStep => ReplInv'
<1> SUFFICES ASSUME ReplInv, MasterStep PROVE ReplInv'
  OBVIOUS
<1>1. LogInv /\ LogHasRoom(world) /\ Next /\ replica' = replica /\ applied' = applied
  BY DEF ReplInv, MasterStep
<1>2. LogInv'
  BY <1>1, NextLogInv
<1>3. PICK es \in Seq(Effect) : /\ Story(es, world.slots, world'.slots)
                                /\ world'.repl = world.repl \o es
  BY <1>1, MasterTells
<1>4. /\ world.repl \in Seq(Effect) /\ Len(world.repl) \in Nat /\ Len(es) \in Nat
      /\ applied \in 0..Len(world.repl)
  BY LenProperties DEF ReplInv, LogInv, IInv, Sound, World
<1>5. /\ SubSeq(world'.repl, 1, applied) = SubSeq(world.repl, 1, applied)
      /\ Pending' = Pending \o es
  BY <1>1, <1>3, <1>4, LongerLog DEF Pending
<1>6. applied' \in 0..Len(world'.repl)
  <2>1. Len(world'.repl) = Len(world.repl) + Len(es)
    BY <1>3, <1>4, ConcatProperties
  <2> QED
    BY <1>1, <1>4, <2>1
<1>7. Story(Pending', replica.slots, world'.slots)
  <2>1. Pending \in Seq(Effect)
    <3>1. \A i \in (applied + 1)..Len(world.repl) : world.repl[i] \in Effect
      BY <1>4, ElementOfSeq
    <3> QED
      BY <1>4, <3>1, SubSeqProperties DEF Pending
  <2>2. Story(Pending, replica.slots, world.slots)
    BY DEF ReplInv
  <2> QED
    BY <1>3, <1>5, <2>1, <2>2, StoryThenStory
<1> QED
  BY <1>1, <1>2, <1>5, <1>6, <1>7 DEF ReplInv

\* An effect applied takes the first sentence of the pending story away.
LEMMA ApplyReplInv ==
    ASSUME ReplInv, Apply
    PROVE  /\ ReplInv'
           /\ replica'.slots = After(replica.slots, world.repl[applied + 1])
<1> DEFINE e == world.repl[applied + 1]
           l == Linked(replica)
<1>1. /\ applied < Len(world.repl) /\ applied' = applied + 1 /\ world' = world
      /\ replica' = RunAs("MasterLink", replica, AsCommand(e))
  BY DEF Apply
<1>2. /\ world.repl \in Seq(Effect) /\ Len(world.repl) \in Nat /\ applied \in Nat
      /\ Len(world.repl) <= ReplCap /\ Replicating(replica)
      /\ replica.repl = SubSeq(world.repl, 1, applied)
  BY LenProperties DEF ReplInv, LogInv, LogFits, IInv, Sound, World
<1>3. /\ Pending \in Seq(Effect) /\ Pending # <<>> /\ Head(Pending) = e /\ e \in Effect
      /\ Tail(Pending) = SubSeq(world.repl, applied + 2, Len(world.repl))
      /\ SubSeq(world.repl, 1, applied + 1) = replica.repl \o <<e>>
      /\ replica.repl \in Seq(Effect) /\ Len(replica.repl) = applied
  BY <1>1, <1>2, NextRead DEF Pending
<1> HIDE DEF e
<1>4. /\ Finds(replica.slots[e.key], e)
      /\ Story(Tail(Pending), After(replica.slots, e), world.slots)
  <2>1. Story(Pending, replica.slots, world.slots)
    BY DEF ReplInv
  <2> QED
    BY <1>3, <2>1, StoryBegins
<1>5. /\ Sound(l) /\ l.nesting = 0 /\ l.mode = LinkMode
      /\ l.slots = replica.slots /\ l.repl = replica.repl
  BY <1>2, LinkedKeeps DEF Replicating
<1>6. AsCommand(e) \in Command
  BY <1>3, <1>4, <1>5, LinkWrites DEF Command
<1>7. Replicating(replica') /\ Linked(replica') = RunCmd(l, AsCommand(e)).world
  BY <1>1, <1>2, <1>6, RunAsLink
<1>8. /\ RunCmd(l, AsCommand(e)).world.slots = After(replica.slots, e)
      /\ RunCmd(l, AsCommand(e)).world.repl = Push(replica.repl, <<e>>)
  BY <1>3, <1>4, <1>5, LinkApplies
<1>9. /\ replica'.slots = After(replica.slots, e)
      /\ replica'.repl = Push(replica.repl, <<e>>)
  BY <1>7, <1>8, LinkedKeeps DEF Replicating
<1>10. Push(replica.repl, <<e>>) = replica.repl \o <<e>>
  <2>1. <<e>> \in Seq(Effect) /\ Len(<<e>>) = 1
    BY <1>3
  <2>2. Len(replica.repl) + Len(<<e>>) <= ReplCap
    BY <1>1, <1>2, <1>3, <2>1, ReplAssumption
  <2> QED
    BY <1>3, <2>1, <2>2, PushFits
<1>11. replica'.repl = SubSeq(world'.repl, 1, applied')
  BY <1>1, <1>3, <1>9, <1>10
<1>12. Pending' = Tail(Pending)
  <2>1. (applied + 1) + 1 = applied + 2
    BY <1>2
  <2> QED
    BY <1>1, <1>3, <2>1 DEF Pending
<1>13. applied' \in 0..Len(world'.repl)
  BY <1>1, <1>2
<1>14. LogInv'
  BY <1>1, NextLogInv DEF ReplInv, vars
<1>15. ReplInv'
  BY <1>1, <1>4, <1>7, <1>9, <1>11, <1>12, <1>13, <1>14 DEF ReplInv
<1> QED
  BY <1>9, <1>15 DEF e

\* The replica's own steps leave its keyspace and its log alone.
LEMMA ReplicaOwnSteps ==
    ASSUME ReplInv, ReplicaClient \/ ReplicaActiveExpire \/ ReplicaTick
    PROVE  /\ Replicating(replica') /\ replica'.slots = replica.slots
           /\ replica'.repl = replica.repl /\ world' = world /\ applied' = applied
<1>1. Replicating(replica)
  BY DEF ReplInv
<1>2. CASE ReplicaClient
  BY <1>1, <1>2, RunAsClient DEF ReplicaClient
<1>3. CASE ReplicaActiveExpire
  BY <1>1, <1>3, ReplicaCycle DEF ReplicaActiveExpire
<1>4. CASE ReplicaTick
  BY <1>1, <1>4, ReplicaTime DEF ReplicaTick
<1> QED
  BY <1>2, <1>3, <1>4

LEMMA NextReplInv == ReplInv /\ [ReplNext]_replVars => ReplInv'
<1> SUFFICES ASSUME ReplInv, [ReplNext]_replVars PROVE ReplInv'
  OBVIOUS
<1>1. CASE MasterStep
  BY <1>1, MasterReplInv
<1>2. CASE Apply
  BY <1>2, ApplyReplInv
<1>3. CASE \/ ReplicaClient \/ ReplicaActiveExpire \/ ReplicaTick
           \/ UNCHANGED replVars
  <2>1. /\ Replicating(replica') /\ replica'.slots = replica.slots
        /\ replica'.repl = replica.repl /\ world' = world /\ applied' = applied
    BY <1>3, ReplicaOwnSteps DEF replVars, ReplInv
  <2>2. LogInv'
    BY <2>1, NextLogInv DEF ReplInv, vars
  <2>3. Pending' = Pending
    BY <2>1 DEF Pending
  <2> QED
    BY <2>1, <2>2, <2>3 DEF ReplInv
<1> QED
  BY <1>1, <1>2, <1>3 DEF ReplNext

LEMMA SpecReplInv == ReplSpec => []ReplInv
  BY InitReplInv, NextReplInv, PTL DEF ReplSpec

\* Nothing pending: nothing differs.
LEMMA ConvergesFromInv == ReplInv => ReplicaConverges
<1> SUFFICES ASSUME ReplInv, applied = Len(world.repl)
             PROVE  replica.slots = world.slots
  BY DEF ReplicaConverges
<1>1. Len(world.repl) \in Nat
  BY LenProperties DEF ReplInv, LogInv, IInv, Sound, World
<1>2. Pending = <<>>
  BY <1>1, SubSeqEmpty DEF Pending
<1>3. Story(<<>>, replica.slots, world.slots)
  BY <1>2 DEF ReplInv
<1> QED
  BY <1>3, StoryOfNothing

\* A key that a replica loses was named by the effect it applied.
LEMMA OrderedFromInv ==
    ASSUME ReplInv, [ReplNext]_replVars, NEW k \in Key,
           replica.slots[k].present, ~replica'.slots[k].present
    PROVE  applied' = applied + 1 /\ world.repl[applied + 1].key = k
<1>1. replica'.slots # replica.slots
  OBVIOUS
<1>2. ~MasterStep /\ ~UNCHANGED replVars
  BY <1>1 DEF MasterStep, replVars
<1>3. ~(ReplicaClient \/ ReplicaActiveExpire \/ ReplicaTick)
  BY <1>1, ReplicaOwnSteps
<1>4. Apply
  BY <1>2, <1>3 DEF ReplNext
<1>5. /\ applied' = applied + 1
      /\ replica'.slots = After(replica.slots, world.repl[applied + 1])
  BY <1>4, ApplyReplInv DEF Apply
<1>6. replica.slots \in Keyspace
  BY DEF ReplInv, Replicating, World, Keyspace
<1> QED
  BY <1>5, <1>6 DEF After, Keyspace

-----------------------------------------------------------------------------
(***************************************************************************)
(* Theorems.  Each holds for every number of keys, clients and values, any *)
(* set of expiry times and ticks, and any log capacity.                    *)
(***************************************************************************)
\* Dimension B: a replica that has replayed the whole log holds its master's
\* keyspace, deadlines included, whatever the two clocks say.
THEOREM ReplicasConverge == ReplSpec => []ReplicaConverges
  BY SpecReplInv, ConvergesFromInv, PTL

\* A replica propagates the effects it applied, in order, and nothing else: no read
\* of its own adds a DEL, and no effect of its master falls flat.
THEOREM ReplicasRelayTheLog == ReplSpec => []ReplicaRelaysTheLog
<1>1. ReplInv => ReplicaRelaysTheLog
  BY DEF ReplInv, ReplicaRelaysTheLog
<1> QED
  BY <1>1, SpecReplInv, PTL

\* P-10: a key of a replica goes when an effect that names it is applied, never
\* because its time has passed on the replica's own clock.
THEOREM ReplicasDeleteOnOrder == ReplSpec => ReplicaDeletesOnOrder
<1>1. ReplInv /\ [ReplNext]_replVars =>
        [\A k \in Key : replica.slots[k].present /\ ~replica'.slots[k].present =>
            applied' = applied + 1 /\ world.repl[applied + 1].key = k]_replVars
  BY OrderedFromInv
<1> QED
  BY <1>1, SpecReplInv, PTL DEF ReplSpec, ReplicaDeletesOnOrder
=============================================================================
