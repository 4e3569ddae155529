--------------------------- MODULE WatchLoopProofs -------------------------
(***************************************************************************)
(* Proofs that the arrays and loops of module WatchLoop do what the atomic *)
(* operators of module Watch say, for any number of keys and clients.      *)
(*                                                                         *)
(* The argument.  Whoever is still to be visited by the running call is    *)
(* known at every iteration: the rest of the snapshot up to the first      *)
(* watcher that blocks, and every watcher of a key that is still to be     *)
(* deleted.  The invariant says that visiting all of them at once, from    *)
(* where the loop is, gives the world that the atomic operator gave for    *)
(* the whole call.  An iteration moves one client from `to be visited' to  *)
(* the state; when nobody is left, the state is the result.                *)
(***************************************************************************)
EXTENDS WatchLoop, FiniteSetTheorems, TLAPS

-----------------------------------------------------------------------------
(***************************************************************************)
(* The inductive invariant                                                 *)
(***************************************************************************)
\* An array of C options whose first n are clients, each at one place only
IsArray(o, n) ==
    /\ o \in [1..C -> Client \cup {Nobody}]
    /\ n \in 0..C
    /\ \A i \in 1..C : o[i] \in Client <=> i <= n
    /\ \A i, j \in 1..n : o[i] = o[j] => i = j

HoldsAt(o, n, c) == \E i \in 1..n : o[i] = c

\* A world by its fields: the three that WATCH is about, and the others as in h
World3(slots, watched, clients, h) ==
    [slots |-> slots, watched |-> watched, clients |-> clients, clock |-> h.clock,
     mode |-> h.mode, repl |-> h.repl, dirty |-> h.dirty, nesting |-> h.nesting]

HasFields(h) == h = World3(h.slots, h.watched, h.clients, h)

IsHeap(h) ==
    /\ HasFields(h)
    /\ h.slots = [k \in Key |-> h.slots[k]]
    /\ h.clients \in [Client -> ClientState]
    /\ \A c \in Client : h.clients[c].watched_expired \subseteq h.clients[c].watching

\* The two views of WATCH agree.
Tied(h, o, n) ==
    /\ \A k \in Key : IsArray(o[k], n[k])
    /\ \A k \in Key, c \in Client :
         k \in h.clients[c].watching <=> HoldsAt(o[k], n[k], c)

TablesTied ==
    /\ DOMAIN order = Key /\ DOMAIN len = Key
    /\ IsHeap(heap)
    /\ Tied(heap, order, len)

\* The rest of the snapshot is made of clients that still watch the key.
FrameIsSound ==
    frame # Idle =>
        /\ DOMAIN frame = {"calling", "key", "order", "n", "i", "todo", "result"}
        /\ frame.calling = TRUE
        /\ frame.key \in Key /\ frame.todo \subseteq Key \ {frame.key}
        /\ frame.n \in Nat /\ frame.i \in 1..(frame.n + 1)
        /\ \A h \in frame.i..frame.n :
             /\ frame.order[h] \in Client
             /\ frame.key \in heap.clients[frame.order[h]].watching
        /\ \A h, j \in frame.i..frame.n : frame.order[h] = frame.order[j] => h = j

\* Who is still to be visited: pairs of a key and a client
Unblocked(h, k, a, i, n) ==
    {<<k, a[g]>> : g \in {x \in i..n : \A j \in i..x : ~Blocks(h, k, a[j])}}
PendingHere == Unblocked(heap, frame.key, frame.order, frame.i, frame.n)
PendingLater ==
    {p \in frame.todo \X Client : p[1] \in heap.clients[p[2]].watching}
Pending == PendingHere \cup PendingLater

\* A world after the visit of the clients of pend, all at once
Struck(w, pend) ==
    {c \in Client : \E k \in Key :
        <<k, c>> \in pend /\ k \notin w.clients[c].watched_expired}
After(w, pend, c) ==
    IF c \in Struck(w, pend)
    THEN [watching |-> {}, watched_expired |-> {}, dirty_cas |-> TRUE]
    ELSE [watching |-> w.clients[c].watching,
          watched_expired |-> {k \in w.clients[c].watched_expired : <<k, c>> \notin pend},
          dirty_cas |-> w.clients[c].dirty_cas]
Visited(w, pend) ==
    [w EXCEPT !.clients = [c \in Client |-> After(w, pend, c)],
              !.watched = [k \in Key |-> Dequeue(w.watched[k], Struck(w, pend))]]

Blanked(w, ks) ==
    [w EXCEPT !.slots = [k \in Key |-> IF k \in ks THEN AbsentSlot ELSE @[k]]]

ResultIsAhead ==
    frame # Idle =>
        frame.result = Visited(Blanked(AsWorld(heap, order, len), frame.todo), Pending)

LoopIInv == TablesTied /\ FrameIsSound /\ ResultIsAhead

-----------------------------------------------------------------------------
(***************************************************************************)
(* WatchTable::remove.  The loop's w, place(i), grows by one at each kept  *)
(* position, so that it maps the kept positions, in their order, onto      *)
(* 1..Cardinality(kept).                                                   *)
(***************************************************************************)
LEMMA PlacesAreRanks ==
    ASSUME NEW n \in Nat, NEW kept \in SUBSET (1..n)
    PROVE  LET place(i) == Cardinality({h \in kept : h <= i})
           IN /\ Cardinality(kept) \in 0..n
              /\ \A i \in kept : place(i) \in 1..Cardinality(kept)
              /\ \A i, j \in kept : i < j => place(i) < place(j)
              /\ \A j \in 1..Cardinality(kept) : \E i \in kept : place(i) = j
<1> DEFINE upto(i) == {h \in kept : h <= i}
           place(i) == Cardinality(upto(i))
           m == Cardinality(kept)
<1>0. \A i \in kept : i \in Int
  OBVIOUS
<1>1. IsFiniteSet(kept) /\ m \in 0..n
  <2> DEFINE all == 1..n
  <2>1. IsFiniteSet(all) /\ Cardinality(all) = n
    BY FS_Interval
  <2> HIDE DEF all
  <2>2. IsFiniteSet(kept) /\ m <= n
    BY <2>1, FS_Subset DEF all
  <2> QED
    BY <2>2, FS_CardinalityType
<1>2. \A i \in kept : upto(i) \in SUBSET kept /\ IsFiniteSet(upto(i)) /\ place(i) \in 1..m
  <2> SUFFICES ASSUME NEW i \in kept
               PROVE  upto(i) \in SUBSET kept /\ IsFiniteSet(upto(i)) /\ place(i) \in 1..m
    OBVIOUS
  <2>1. upto(i) \in SUBSET kept /\ i \in upto(i)
    OBVIOUS
  <2> HIDE DEF upto
  <2>2. IsFiniteSet(upto(i)) /\ place(i) <= m /\ place(i) \in Nat
    BY <1>1, <2>1, FS_Subset, FS_CardinalityType
  <2>3. place(i) # 0
    BY <2>1, <2>2, FS_EmptySet
  <2> QED
    BY <1>1, <2>1, <2>2, <2>3
<1>3. \A i, j \in kept : i < j => place(i) < place(j)
  <2> SUFFICES ASSUME NEW i \in kept, NEW j \in kept, i < j PROVE place(i) < place(j)
    OBVIOUS
  <2>1. upto(i) \in SUBSET upto(j) /\ j \in upto(j) /\ j \notin upto(i)
    <3>1. i \in Int /\ j \in Int
      BY <1>0
    <3>2. \A h \in kept : h <= i => h <= j
      BY <1>0, <3>1
    <3>3. upto(i) \in SUBSET upto(j)
      BY <3>2
    <3>4. ~(j <= i)
      BY <3>1
    <3>5. j \notin upto(i)
      BY <3>4
    <3>6. j \in upto(j)
      BY <3>1
    <3> QED
      BY <3>3, <3>5, <3>6
  <2> HIDE DEF upto
  <2>2. place(i) <= place(j) /\ place(i) # place(j)
    BY <1>2, <2>1, FS_Subset
  <2> QED
    BY <1>1, <1>2, <2>2
<1> DEFINE rank == [i \in kept |-> place(i)]
<1>4. rank \in Injection(kept, 1..m)
  <2>2. \A i \in kept : place(i) \in Int
    <3> HIDE DEF upto, m
    <3> QED
      BY <1>1, <1>2
  <2> HIDE DEF place, m
  <2>1. \A i, j \in kept : rank[i] = rank[j] => i = j
    <3>1. \A i \in kept : place(i) \in Int
      BY <2>2
    <3>2. \A i, j \in kept : place(i) = place(j) => ~(i < j) /\ ~(j < i)
      BY <1>3, <3>1
    <3> QED
      BY <1>0, <3>2
  <2> QED
    BY <1>2, <2>1 DEF Injection, IsInjective
<1>5. rank \in Surjection(kept, 1..m)
  <2>1. IsFiniteSet(1..m) /\ Cardinality(1..m) = m
    BY <1>1, FS_Interval
  <2> HIDE DEF rank
  <2> QED
    BY <1>4, <2>1, FS_Injection
<1>6. \A j \in 1..m : \E i \in kept : place(i) = j
  <2> HIDE DEF place, m
  <2> QED
    BY <1>5 DEF Surjection
<1> QED
  BY <1>1, <1>2, <1>3, <1>6
-----------------------------------------------------------------------------
(***************************************************************************)
(* Arrays and the lists that they stand for                                *)
(***************************************************************************)
\* The watcher list of one key, as AsWorld makes it of its array
ListOf(o, n) == UNION {{<<o[i], o[j]>> : j \in i..n} : i \in 1..n}

\* Before or at: at positions i <= j
LEMMA ListPairs ==
    ASSUME NEW o, NEW n \in Nat
    PROVE  \A p : p \in ListOf(o, n)
                    <=> \E i, j \in 1..n : i <= j /\ p = <<o[i], o[j]>>
<1> TAKE p
<1>1. ASSUME p \in ListOf(o, n) PROVE \E i, j \in 1..n : i <= j /\ p = <<o[i], o[j]>>
  <2>1. PICK i \in 1..n : p \in {<<o[i], o[j]>> : j \in i..n}
    BY <1>1 DEF ListOf
  <2>2. PICK j \in i..n : p = <<o[i], o[j]>>
    BY <2>1
  <2>3. j \in 1..n /\ i <= j
    OBVIOUS
  <2> QED
    BY <2>2, <2>3
<1>2. ASSUME NEW i \in 1..n, NEW j \in 1..n, i <= j, p = <<o[i], o[j]>>
      PROVE  p \in ListOf(o, n)
  <2>1. j \in i..n
    BY <1>2
  <2>2. p \in {<<o[i], o[h]>> : h \in i..n}
    BY <1>2, <2>1
  <2> QED
    BY <2>2 DEF ListOf
<1> QED
  BY <1>1, <1>2

\* The list of an array orders the clients that the array holds.
LEMMA ListMembers ==
    ASSUME NEW o, NEW n, IsArray(o, n)
    PROVE  /\ ListOf(o, n) \in SUBSET (Client \X Client)
           /\ Members(ListOf(o, n)) = {c \in Client : HoldsAt(o, n, c)}
           /\ \A p \in ListOf(o, n) : HoldsAt(o, n, p[1]) /\ HoldsAt(o, n, p[2])
<1>1. n \in Nat
  BY DEF IsArray, C
<1>2. \A i \in 1..n : o[i] \in Client
  <2>1. C \in Nat
    BY KeysAssumption, FS_CardinalityType DEF C
  <2> QED
    BY <2>1 DEF IsArray
<1>3. \A p \in ListOf(o, n) : \E i, j \in 1..n : i <= j /\ p = <<o[i], o[j]>>
  BY <1>1, ListPairs
<1>4. ListOf(o, n) \in SUBSET (Client \X Client)
  BY <1>2, <1>3
<1>5. \A p \in ListOf(o, n) : HoldsAt(o, n, p[1]) /\ HoldsAt(o, n, p[2])
  BY <1>3 DEF HoldsAt
<1>6. \A c \in Client : <<c, c>> \in ListOf(o, n) <=> HoldsAt(o, n, c)
  <2> SUFFICES ASSUME NEW c \in Client
               PROVE  <<c, c>> \in ListOf(o, n) <=> HoldsAt(o, n, c)
    OBVIOUS
  <2>1. ASSUME <<c, c>> \in ListOf(o, n) PROVE HoldsAt(o, n, c)
    BY <1>3, <2>1 DEF HoldsAt
  <2>2. ASSUME NEW i \in 1..n, o[i] = c PROVE <<c, c>> \in ListOf(o, n)
    <3>1. i <= i /\ <<c, c>> = <<o[i], o[i]>>
      BY <2>2
    <3> QED
      BY <1>1, <3>1, ListPairs
  <2> QED
    BY <2>1, <2>2 DEF HoldsAt
<1> QED
  BY <1>4, <1>5, <1>6 DEF Members

\* Where a client stands in its list
LEMMA ListOrders ==
    ASSUME NEW o, NEW n, IsArray(o, n), NEW i \in 1..n, NEW j \in 1..n
    PROVE  <<o[i], o[j]>> \in ListOf(o, n) <=> i <= j
<1>1. n \in Nat
  BY DEF IsArray, C
<1>2. ASSUME <<o[i], o[j]>> \in ListOf(o, n) PROVE i <= j
  <2>1. PICK g, h \in 1..n : g <= h /\ <<o[i], o[j]>> = <<o[g], o[h]>>
    BY <1>1, <1>2, ListPairs
  <2>2. o[i] = o[g] /\ o[j] = o[h]
    BY <2>1
  <2>3. i = g /\ j = h
    BY <2>2 DEF IsArray
  <2> QED
    BY <2>1, <2>3
<1> QED
  BY <1>1, <1>2, ListPairs

\* add_tail finds room and puts the client behind all others.
LEMMA AppendIs ==
    ASSUME NEW o, NEW n, IsArray(o, n), NEW c \in Client, ~HoldsAt(o, n, c)
    PROVE  LET longer == [o EXCEPT ![n + 1] = c]
           IN /\ n < C
              /\ IsArray(longer, n + 1)
              /\ \A d \in Client : HoldsAt(longer, n + 1, d) <=> HoldsAt(o, n, d) \/ d = c
              /\ ListOf(longer, n + 1) = AddTail(ListOf(o, n), c)
<1> DEFINE longer == [o EXCEPT ![n + 1] = c]
           list == ListOf(o, n)
<1>1. C \in Nat /\ n \in Nat /\ n <= C
  BY KeysAssumption, FS_CardinalityType DEF C, IsArray
<1>2. n < C
  <2> SUFFICES ASSUME n = C PROVE FALSE
    BY <1>1
  <2> DEFINE f == [i \in 1..C |-> o[i]]
  <2>1. f \in Injection(1..C, Client)
    BY <1>1 DEF IsArray, Injection, IsInjective
  <2>2. Cardinality(1..C) = Cardinality(Client)
    BY <1>1, FS_Interval DEF C
  <2>3. IsFiniteSet(Client)
    BY KeysAssumption
  <2> HIDE DEF f
  <2>4. f \in Surjection(1..C, Client)
    BY <2>1, <2>2, <2>3, FS_Injection
  <2>5. PICK i \in 1..C : f[i] = c
    BY <2>4 DEF Surjection
  <2> QED
    BY <2>5 DEF HoldsAt, f
<1>3. IsArray(longer, n + 1)
  BY <1>1, <1>2 DEF IsArray, HoldsAt
<1>4. /\ \A i \in 1..n : longer[i] = o[i]
      /\ longer[n + 1] = c
  BY <1>1, <1>2 DEF IsArray
<1> HIDE DEF longer
<1>5. \A d \in Client : HoldsAt(longer, n + 1, d) <=> HoldsAt(o, n, d) \/ d = c
  BY <1>1, <1>4 DEF HoldsAt
<1>6. AddTail(list, c) = list \cup {<<d, c>> : d \in Members(list) \cup {c}}
  <2>1. Members(list) \in SUBSET Client /\ c \notin Members(list)
    BY ListMembers DEF Members
  <2> HIDE DEF list
  <2>2. Cardinality(Members(list)) < Cardinality(Client)
    <3>1. Members(list) # Client
      BY <2>1
    <3> QED
      BY <2>1, <3>1, KeysAssumption, FS_Subset, FS_CardinalityType
  <2> QED
    BY <2>2 DEF AddTail
<1>7. ListOf(longer, n + 1) = list \cup {<<d, c>> : d \in Members(list) \cup {c}}
  <2> DEFINE new == {<<d, c>> : d \in Members(list) \cup {c}}
  <2>1. ASSUME NEW p \in ListOf(longer, n + 1) PROVE p \in list \cup new
    <3>1. PICK i, j \in 1..(n + 1) : i <= j /\ p = <<longer[i], longer[j]>>
      BY <1>1, ListPairs
    <3>2. CASE j # n + 1
      <4>1. i \in 1..n /\ j \in 1..n /\ p = <<o[i], o[j]>>
        BY <1>1, <1>4, <3>1, <3>2
      <4> QED
        BY <1>1, <3>1, <4>1, ListPairs
    <3>3. CASE j = n + 1 /\ i # n + 1
      <4>1. i \in 1..n /\ p = <<o[i], c>>
        BY <1>1, <1>4, <3>1, <3>3
      <4>2. o[i] \in Members(list)
        <5>1. o[i] \in Client /\ HoldsAt(o, n, o[i])
          BY <1>1, <4>1 DEF HoldsAt, IsArray
        <5> QED
          BY <5>1, ListMembers
      <4> QED
        BY <4>1, <4>2
    <3>4. CASE j = n + 1 /\ i = n + 1
      BY <1>4, <3>1, <3>4
    <3> QED
      BY <3>2, <3>3, <3>4
  <2>2. ASSUME NEW p \in list PROVE p \in ListOf(longer, n + 1)
    <3>1. PICK i, j \in 1..n : i <= j /\ p = <<o[i], o[j]>>
      BY <1>1, ListPairs
    <3>2. i \in 1..(n + 1) /\ j \in 1..(n + 1) /\ p = <<longer[i], longer[j]>>
      BY <1>1, <1>4, <3>1
    <3> QED
      BY <1>1, <3>1, <3>2, ListPairs
  <2>3. ASSUME NEW d \in Members(list) \cup {c} PROVE <<d, c>> \in ListOf(longer, n + 1)
    <3>1. d \in Client /\ HoldsAt(longer, n + 1, d)
      BY <1>5, ListMembers
    <3>2. PICK i \in 1..(n + 1) : longer[i] = d
      BY <3>1 DEF HoldsAt
    <3>3. i <= n + 1 /\ n + 1 \in 1..(n + 1) /\ <<d, c>> = <<longer[i], longer[n + 1]>>
      BY <1>1, <1>4, <3>2
    <3> QED
      BY <1>1, <3>3, ListPairs
  <2> QED
    BY <2>1, <2>2, <2>3
<1> QED
  BY <1>2, <1>3, <1>5, <1>6, <1>7 DEF longer
\* WatchTable::remove takes one client out and keeps the others in their order.
LEMMA RemoveIs ==
    ASSUME NEW k \in Key, IsArray(order[k], len[k]), NEW c \in Client
    PROVE  LET o == Compacted(k, c)
               m == Cardinality(Kept(k, c))
           IN /\ IsArray(o, m)
              /\ \A d \in Client : HoldsAt(o, m, d) <=> HoldsAt(order[k], len[k], d) /\ d # c
              /\ ListOf(o, m) = Dequeue(ListOf(order[k], len[k]), {c})
<1> DEFINE a == order[k]
           n == len[k]
           kept == Kept(k, c)
           place(i) == Cardinality({h \in kept : h <= i})
           o == Compacted(k, c)
           m == Cardinality(kept)
<1>1. C \in Nat /\ n \in Nat /\ n <= C
  BY KeysAssumption, FS_CardinalityType DEF C, IsArray
<1>2. kept \in SUBSET (1..n) /\ \A i \in 1..n : i \in kept <=> a[i] # c
  BY DEF Kept
<1> HIDE DEF kept
<1>3. /\ m \in 0..n
      /\ \A i \in kept : place(i) \in 1..m
      /\ \A i, j \in kept : i < j => place(i) < place(j)
      /\ \A j \in 1..m : \E i \in kept : place(i) = j
  BY <1>1, <1>2, PlacesAreRanks
<1>4. o = [j \in 1..C |-> IF \E i \in kept : place(i) = j
                          THEN a[CHOOSE i \in kept : place(i) = j] ELSE Nobody]
  BY DEF Compacted, kept
<1> HIDE DEF place, o, m
<1>5. \A i \in kept : i \in 1..n /\ a[i] \in Client /\ place(i) \in 1..m /\ place(i) \in 1..C
  BY <1>1, <1>2, <1>3 DEF IsArray
<1>6. \A i, j \in kept : (i <= j <=> place(i) <= place(j)) /\ (place(i) = place(j) => i = j)
  <2> SUFFICES ASSUME NEW i \in kept, NEW j \in kept
               PROVE  (i <= j <=> place(i) <= place(j)) /\ (place(i) = place(j) => i = j)
    OBVIOUS
  <2>1. i \in Int /\ j \in Int /\ place(i) \in Int /\ place(j) \in Int
    BY <1>5
  <2>2. (i < j => place(i) < place(j)) /\ (j < i => place(j) < place(i))
    BY <1>3
  <2> QED
    BY <2>1, <2>2
<1>7. \A i \in kept : o[place(i)] = a[i]
  <2> SUFFICES ASSUME NEW i \in kept PROVE o[place(i)] = a[i]
    OBVIOUS
  <2>1. (CHOOSE h \in kept : place(h) = place(i)) = i
    BY <1>6
  <2> QED
    BY <1>4, <1>5, <2>1
<1>8. \A j \in 1..C : j > m => o[j] = Nobody
  <2> SUFFICES ASSUME NEW j \in 1..C, j > m PROVE o[j] = Nobody
    OBVIOUS
  <2>1. \A i \in kept : place(i) # j
    BY <1>1, <1>3, <1>5
  <2> QED
    BY <1>4, <2>1
<1>9. \A j \in 1..m : \E i \in kept : place(i) = j /\ o[j] = a[i] /\ a[i] \in Client
  BY <1>3, <1>5, <1>7
<1>10. IsArray(o, m)
  <2>1. \A j \in 1..C : o[j] \in Client <=> j <= m
    BY <1>1, <1>3, <1>8, <1>9, NobodyAssumption
  <2>2. o \in [1..C -> Client \cup {Nobody}]
    BY <1>1, <1>3, <1>4, <1>8, <1>9
  <2>3. \A i, j \in 1..m : o[i] = o[j] => i = j
    <3> SUFFICES ASSUME NEW i \in 1..m, NEW j \in 1..m, o[i] = o[j] PROVE i = j
      OBVIOUS
    <3>1. PICK g \in kept : place(g) = i /\ o[i] = a[g]
      BY <1>9
    <3>2. PICK h \in kept : place(h) = j /\ o[j] = a[h]
      BY <1>9
    <3>3. g = h
      BY <1>5, <3>1, <3>2 DEF IsArray
    <3> QED
      BY <3>1, <3>2, <3>3
  <2>4. m \in 0..C
    BY <1>1, <1>3
  <2> QED
    BY <2>1, <2>2, <2>3, <2>4 DEF IsArray
<1>11. \A d \in Client : HoldsAt(o, m, d) <=> HoldsAt(a, n, d) /\ d # c
  <2> SUFFICES ASSUME NEW d \in Client
               PROVE  HoldsAt(o, m, d) <=> HoldsAt(a, n, d) /\ d # c
    OBVIOUS
  <2>1. ASSUME NEW j \in 1..m, o[j] = d PROVE HoldsAt(a, n, d) /\ d # c
    BY <1>2, <1>5, <1>9, <2>1 DEF HoldsAt
  <2>2. ASSUME NEW i \in 1..n, a[i] = d, d # c PROVE HoldsAt(o, m, d)
    <3>1. i \in kept
      BY <1>2, <2>2
    <3>2. place(i) \in 1..m /\ o[place(i)] = d
      BY <1>5, <1>7, <2>2, <3>1
    <3> QED
      BY <3>2 DEF HoldsAt
  <2> QED
    BY <2>1, <2>2 DEF HoldsAt
<1>12. ListOf(o, m) = Dequeue(ListOf(a, n), {c})
  <2>1. m \in Nat
    BY <1>1, <1>3
  <2>2. ASSUME NEW p \in ListOf(o, m) PROVE p \in Dequeue(ListOf(a, n), {c})
    <3>1. PICK i, j \in 1..m : i <= j /\ p = <<o[i], o[j]>>
      BY <2>1, ListPairs
    <3>2. PICK g \in kept : place(g) = i /\ o[i] = a[g]
      BY <1>9
    <3>3. PICK h \in kept : place(h) = j /\ o[j] = a[h]
      BY <1>9
    <3>4. g <= h /\ g \in 1..n /\ h \in 1..n /\ a[g] # c /\ a[h] # c
      BY <1>2, <1>5, <1>6, <3>1, <3>2, <3>3
    <3>5. p \in ListOf(a, n)
      BY <1>1, <3>1, <3>2, <3>3, <3>4, ListPairs
    <3>6. p[1] # c /\ p[2] # c
      BY <3>1, <3>2, <3>3, <3>4
    <3> QED
      BY <3>5, <3>6 DEF Dequeue
  <2>3. ASSUME NEW p \in Dequeue(ListOf(a, n), {c}) PROVE p \in ListOf(o, m)
    <3>1. p \in ListOf(a, n) /\ p[1] # c /\ p[2] # c
      BY DEF Dequeue
    <3>2. PICK g, h \in 1..n : g <= h /\ p = <<a[g], a[h]>>
      BY <1>1, <3>1, ListPairs
    <3>3. g \in kept /\ h \in kept
      BY <1>2, <3>1, <3>2
    <3>4. /\ place(g) \in 1..m /\ place(h) \in 1..m /\ place(g) <= place(h)
          /\ p = <<o[place(g)], o[place(h)]>>
      BY <1>5, <1>6, <1>7, <3>2, <3>3
    <3> QED
      BY <2>1, <3>4, ListPairs
  <2> QED
    BY <2>2, <2>3
<1> QED
  BY <1>10, <1>11, <1>12 DEF o, m, kept

-----------------------------------------------------------------------------
(***************************************************************************)
(* Worlds and visits                                                       *)
(***************************************************************************)
\* A world of module Watch in which list and flags agree
IsWatchWorld(w) ==
    /\ HasFields(w)
    /\ w.slots = [k \in Key |-> w.slots[k]]
    /\ w.clients \in [Client -> ClientState]
    /\ \A c \in Client : w.clients[c].watched_expired \subseteq w.clients[c].watching
    /\ w.watched \in [Key -> SUBSET (Client \X Client)]
    /\ \A k \in Key : \A p \in w.watched[k] :
         p[1] \in Watchers(w, k) /\ p[2] \in Watchers(w, k)
    /\ \A k \in Key, c \in Client :
         k \in w.clients[c].watching <=> c \in Watchers(w, k)

Lists(o, n) == [k \in Key |-> ListOf(o[k], n[k])]

\* The world that the arrays stand for
LEMMA AsWorldIs ==
    ASSUME NEW h, NEW o, NEW n, IsHeap(h), Tied(h, o, n)
    PROVE  /\ AsWorld(h, o, n) = World3(h.slots, Lists(o, n), h.clients, h)
           /\ IsWatchWorld(AsWorld(h, o, n))
<1> DEFINE w == AsWorld(h, o, n)
           lists == Lists(o, n)
<1>1. w = [h EXCEPT !.watched = lists]
  BY DEF AsWorld, Lists, ListOf
<1> HIDE DEF lists
<1>2. w = World3(h.slots, lists, h.clients, h)
  BY <1>1 DEF IsHeap, HasFields, World3
<1>3. w.slots = h.slots /\ w.watched = lists /\ w.clients = h.clients /\ HasFields(w)
  BY <1>2 DEF World3, HasFields
<1> HIDE DEF w
<1>4. \A k \in Key : /\ lists[k] = ListOf(o[k], n[k])
                     /\ lists[k] \in SUBSET (Client \X Client)
                     /\ Watchers(w, k) = {c \in Client : HoldsAt(o[k], n[k], c)}
                     /\ \A p \in lists[k] : HoldsAt(o[k], n[k], p[1])
                                            /\ HoldsAt(o[k], n[k], p[2])
  BY <1>3, ListMembers DEF lists, Lists, Tied, Watchers
<1>5. lists \in [Key -> SUBSET (Client \X Client)]
  BY <1>4 DEF lists, Lists
<1>6. \A k \in Key : \A p \in lists[k] : p[1] \in Watchers(w, k) /\ p[2] \in Watchers(w, k)
  BY <1>4, <1>5
<1> QED
  BY <1>2, <1>3, <1>4, <1>5, <1>6 DEF IsWatchWorld, IsHeap, Tied, w, lists
\* A visit takes those whom it strikes out of lists and flags.
LEMMA VisitedIs ==
    ASSUME NEW w, IsWatchWorld(w), NEW pend
    PROVE  LET u == Visited(w, pend)
           IN /\ u = World3(w.slots, [k \in Key |-> Dequeue(w.watched[k], Struck(w, pend))],
                            [c \in Client |-> After(w, pend, c)], w)
              /\ IsWatchWorld(u)
<1> DEFINE u == Visited(w, pend)
           struck == Struck(w, pend)
           lists == [k \in Key |-> Dequeue(w.watched[k], struck)]
           clients == [c \in Client |-> After(w, pend, c)]
<1>1. u = [w EXCEPT !.clients = clients, !.watched = lists]
  BY DEF Visited
<1> HIDE DEF lists, clients
<1>2. u = World3(w.slots, lists, clients, w)
  BY <1>1 DEF IsWatchWorld, HasFields, World3
<1>3. u.slots = w.slots /\ u.watched = lists /\ u.clients = clients /\ HasFields(u)
  BY <1>2 DEF World3, HasFields
<1> HIDE DEF u
<1>4. \A c \in Client :
        /\ clients[c] \in ClientState
        /\ clients[c].watched_expired \subseteq clients[c].watching
        /\ clients[c].watching = IF c \in struck THEN {} ELSE w.clients[c].watching
  <2> SUFFICES ASSUME NEW c \in Client
               PROVE  /\ clients[c] \in ClientState
                      /\ clients[c].watched_expired \subseteq clients[c].watching
                      /\ clients[c].watching =
                           IF c \in struck THEN {} ELSE w.clients[c].watching
    OBVIOUS
  <2> DEFINE old == w.clients[c]
  <2>1. old \in ClientState /\ old.watched_expired \subseteq old.watching
    BY DEF IsWatchWorld
  <2>2. clients[c] = After(w, pend, c)
    BY DEF clients
  <2> QED
    BY <2>1, <2>2 DEF After, ClientState
<1>5. clients \in [Client -> ClientState]
  BY <1>4 DEF clients
<1>6. \A k \in Key : /\ lists[k] = {p \in w.watched[k] : p[1] \notin struck /\ p[2] \notin struck}
                     /\ lists[k] \in SUBSET (Client \X Client)
  BY DEF lists, Dequeue, IsWatchWorld
<1>7. lists \in [Key -> SUBSET (Client \X Client)]
  BY <1>6 DEF lists
<1>8. \A k \in Key : Watchers(u, k) = Watchers(w, k) \ struck
  BY <1>3, <1>6 DEF Watchers, Members
<1>9. \A k \in Key : \A p \in lists[k] : p[1] \in Watchers(u, k) /\ p[2] \in Watchers(u, k)
  BY <1>6, <1>8 DEF IsWatchWorld
<1>10. \A k \in Key, c \in Client : k \in clients[c].watching <=> c \in Watchers(u, k)
  BY <1>4, <1>8 DEF IsWatchWorld
<1>11. w.slots = [k \in Key |-> w.slots[k]]
  BY DEF IsWatchWorld
<1> QED
  BY <1>2, <1>3, <1>4, <1>5, <1>7, <1>9, <1>10, <1>11
     DEF IsWatchWorld, u, lists, clients, struck

\* Visits compose: after `now', those who were struck need not be visited again.
LEMMA VisitedInTwo ==
    ASSUME NEW w, IsWatchWorld(w), NEW pend, NEW now \in SUBSET pend, NEW later,
           \A k \in Key, c \in Client :
             <<k, c>> \in later <=> <<k, c>> \in pend \ now /\ c \notin Struck(w, now)
    PROVE  Visited(w, pend) = Visited(Visited(w, now), later)
<1> DEFINE u == Visited(w, now)
           v == Visited(w, pend)
           x == Visited(u, later)
<1>1. /\ IsWatchWorld(u)
      /\ u = World3(w.slots, [k \in Key |-> Dequeue(w.watched[k], Struck(w, now))],
                    [c \in Client |-> After(w, now, c)], w)
  BY VisitedIs
<1>2. v = World3(w.slots, [k \in Key |-> Dequeue(w.watched[k], Struck(w, pend))],
                 [c \in Client |-> After(w, pend, c)], w)
  BY VisitedIs
<1> HIDE DEF u
<1>3. x = World3(u.slots, [k \in Key |-> Dequeue(u.watched[k], Struck(u, later))],
                 [c \in Client |-> After(u, later, c)], u)
  BY <1>1, VisitedIs
<1> HIDE DEF v, x
<1>4. \A c \in Client : u.clients[c] = After(w, now, c)
  BY <1>1 DEF World3
<1>5. \A c \in Client : c \in Struck(w, now) =>
        /\ c \in Struck(w, pend) /\ c \notin Struck(u, later)
        /\ After(u, later, c) = After(w, pend, c)
  <2> SUFFICES ASSUME NEW c \in Client, c \in Struck(w, now)
               PROVE  /\ c \in Struck(w, pend) /\ c \notin Struck(u, later)
                      /\ After(u, later, c) = After(w, pend, c)
    OBVIOUS
  <2>1. c \in Struck(w, pend)
    BY DEF Struck
  <2>2. \A k \in Key : <<k, c>> \notin later
    OBVIOUS
  <2>3. c \notin Struck(u, later)
    BY <2>2 DEF Struck
  <2>4. u.clients[c] = [watching |-> {}, watched_expired |-> {}, dirty_cas |-> TRUE]
    BY <1>4 DEF After
  <2> QED
    BY <2>1, <2>3, <2>4 DEF After
<1>6. \A c \in Client : c \notin Struck(w, now) =>
        /\ c \in Struck(w, pend) <=> c \in Struck(u, later)
        /\ After(u, later, c) = After(w, pend, c)
  <2> SUFFICES ASSUME NEW c \in Client, c \notin Struck(w, now)
               PROVE  /\ c \in Struck(w, pend) <=> c \in Struck(u, later)
                      /\ After(u, later, c) = After(w, pend, c)
    OBVIOUS
  <2> DEFINE old == w.clients[c]
  <2>1. u.clients[c] = [watching |-> old.watching,
                        watched_expired |-> {k \in old.watched_expired : <<k, c>> \notin now},
                        dirty_cas |-> old.dirty_cas]
    BY <1>4 DEF After
  <2>2. old.watched_expired \subseteq Key
    BY DEF IsWatchWorld, ClientState
  <2>3. \A k \in Key : <<k, c>> \in now => k \in old.watched_expired
    BY DEF Struck
  <2> HIDE DEF old
  <2>4. \A k \in Key : <<k, c>> \in pend /\ k \notin old.watched_expired
                         <=> <<k, c>> \in later /\ k \notin u.clients[c].watched_expired
    BY <2>1, <2>3
  <2>5. c \in Struck(w, pend) <=> c \in Struck(u, later)
    BY <2>4 DEF Struck, old
  <2>6. {k \in old.watched_expired : <<k, c>> \notin pend}
          = {k \in u.clients[c].watched_expired : <<k, c>> \notin later}
    BY <2>1, <2>2
  <2> DEFINE new == u.clients[c]
  <2>7. new.watching = old.watching /\ new.dirty_cas = old.dirty_cas
    BY <2>1
  <2> HIDE DEF new
  <2>8. After(w, pend, c) = IF c \in Struck(w, pend)
          THEN [watching |-> {}, watched_expired |-> {}, dirty_cas |-> TRUE]
          ELSE [watching |-> old.watching,
                watched_expired |-> {k \in old.watched_expired : <<k, c>> \notin pend},
                dirty_cas |-> old.dirty_cas]
    BY DEF After, old
  <2>9. After(u, later, c) = IF c \in Struck(u, later)
          THEN [watching |-> {}, watched_expired |-> {}, dirty_cas |-> TRUE]
          ELSE [watching |-> new.watching,
                watched_expired |-> {k \in new.watched_expired : <<k, c>> \notin later},
                dirty_cas |-> new.dirty_cas]
    BY DEF After, new
  <2>10. {k \in old.watched_expired : <<k, c>> \notin pend}
           = {k \in new.watched_expired : <<k, c>> \notin later}
    BY <2>6 DEF new
  <2> QED
    BY <2>5, <2>7, <2>8, <2>9, <2>10
<1>7. Struck(w, pend) = Struck(w, now) \cup Struck(u, later)
  BY <1>5, <1>6 DEF Struck
<1>8. \A k \in Key : Dequeue(u.watched[k], Struck(u, later))
                       = Dequeue(w.watched[k], Struck(w, pend))
  <2> TAKE k \in Key
  <2>1. u.watched[k] = Dequeue(w.watched[k], Struck(w, now))
    BY <1>1 DEF World3
  <2> QED
    BY <1>7, <2>1 DEF Dequeue
<1>9. [k \in Key |-> Dequeue(u.watched[k], Struck(u, later))]
        = [k \in Key |-> Dequeue(w.watched[k], Struck(w, pend))]
  BY <1>8
<1>10. [c \in Client |-> After(u, later, c)] = [c \in Client |-> After(w, pend, c)]
  BY <1>5, <1>6
<1>11. u.slots = w.slots /\ u.clock = w.clock /\ u.mode = w.mode /\ u.repl = w.repl
       /\ u.dirty = w.dirty /\ u.nesting = w.nesting
  BY <1>1 DEF World3
<1>12. v = x
  BY <1>2, <1>3, <1>9, <1>10, <1>11 DEF World3
<1> QED
  BY <1>12 DEF v, x, u

\* With nobody left to visit the world stays as it is.
LEMMA VisitedNobody ==
    ASSUME NEW w, IsWatchWorld(w), NEW pend, \A k \in Key, c \in Client : <<k, c>> \notin pend
    PROVE  Visited(w, pend) = w
<1>1. Struck(w, pend) = {}
  BY DEF Struck
<1>2. \A c \in Client : After(w, pend, c) = w.clients[c]
  <2> SUFFICES ASSUME NEW c \in Client PROVE After(w, pend, c) = w.clients[c]
    OBVIOUS
  <2> DEFINE old == w.clients[c]
  <2>1. old \in ClientState
    BY DEF IsWatchWorld
  <2>2. {k \in old.watched_expired : <<k, c>> \notin pend} = old.watched_expired
    BY <2>1 DEF ClientState
  <2>3. old = [watching |-> old.watching, watched_expired |-> old.watched_expired,
               dirty_cas |-> old.dirty_cas]
    BY <2>1 DEF ClientState
  <2> HIDE DEF old
  <2>4. After(w, pend, c) = old
    BY <1>1, <2>2, <2>3 DEF After, old
  <2> QED
    BY <2>4 DEF old
<1>3. [c \in Client |-> After(w, pend, c)] = w.clients
  BY <1>2 DEF IsWatchWorld
<1>4. [k \in Key |-> Dequeue(w.watched[k], Struck(w, pend))] = w.watched
  BY <1>1 DEF IsWatchWorld, Dequeue
<1>5. Visited(w, pend) = World3(w.slots, w.watched, w.clients, w)
  <2>1. Visited(w, pend) = World3(w.slots, [k \in Key |-> Dequeue(w.watched[k], Struck(w, pend))],
                                  [c \in Client |-> After(w, pend, c)], w)
    BY VisitedIs
  <2> QED
    BY <1>3, <1>4, <2>1
<1> QED
  BY <1>5 DEF IsWatchWorld, HasFields

\* Blanking the slots of other keys changes nothing for WATCH.
LEMMA BlankedIs ==
    ASSUME NEW w, IsWatchWorld(w), NEW ks
    PROVE  LET b == Blanked(w, ks)
               slots == [k \in Key |-> IF k \in ks THEN AbsentSlot ELSE w.slots[k]]
           IN /\ b = World3(slots, w.watched, w.clients, w)
              /\ IsWatchWorld(b)
              /\ \A pend : Struck(b, pend) = Struck(w, pend)
              /\ \A pend : Visited(b, pend) = Blanked(Visited(w, pend), ks)
<1> DEFINE b == Blanked(w, ks)
           slots == [k \in Key |-> IF k \in ks THEN AbsentSlot ELSE w.slots[k]]
<1>1. b = [w EXCEPT !.slots = slots]
  BY DEF Blanked, IsWatchWorld, HasFields, World3
<1>2. slots = [k \in Key |-> slots[k]]
  OBVIOUS
<1> HIDE DEF slots, b
<1>3. b = World3(slots, w.watched, w.clients, w)
  BY <1>1 DEF IsWatchWorld, HasFields, World3
<1>4. /\ b.slots = slots /\ b.watched = w.watched /\ b.clients = w.clients /\ HasFields(b)
      /\ b.clock = w.clock /\ b.mode = w.mode /\ b.repl = w.repl /\ b.dirty = w.dirty
      /\ b.nesting = w.nesting
  BY <1>3 DEF World3, HasFields
<1>5. IsWatchWorld(b)
  BY <1>2, <1>4 DEF IsWatchWorld, Watchers
<1>6. \A pend : Struck(b, pend) = Struck(w, pend)
  BY <1>4 DEF Struck
<1>7. ASSUME NEW pend PROVE Visited(b, pend) = Blanked(Visited(w, pend), ks)
  <2> DEFINE u == Visited(w, pend)
             lists == [k \in Key |-> Dequeue(w.watched[k], Struck(w, pend))]
             clients == [c \in Client |-> After(w, pend, c)]
  <2>1. \A c \in Client : After(b, pend, c) = After(w, pend, c)
    BY <1>4, <1>6 DEF After
  <2>2. Visited(b, pend) = World3(slots, [k \in Key |-> Dequeue(w.watched[k], Struck(w, pend))],
                                  [c \in Client |-> After(b, pend, c)], b)
    BY <1>4, <1>5, <1>6, VisitedIs
  <2>3. [c \in Client |-> After(b, pend, c)] = clients
    BY <2>1
  <2>4. u = World3(w.slots, lists, clients, w)
    BY VisitedIs
  <2> HIDE DEF u, lists, clients
  <2>5. Blanked(u, ks) = [u EXCEPT !.slots = slots]
    BY <2>4 DEF Blanked, World3, slots
  <2>6. [u EXCEPT !.slots = slots] = World3(slots, lists, clients, w)
    BY <2>4 DEF World3
  <2>7. Visited(b, pend) = World3(slots, lists, clients, w)
    BY <1>4, <2>2, <2>3 DEF World3, lists
  <2> QED
    BY <2>5, <2>6, <2>7 DEF u
<1> QED
  BY <1>3, <1>5, <1>6, <1>7 DEF b, slots
\* unwatch_all on a world in which list and flags agree
LEMMA UnwatchAllIs ==
    ASSUME NEW w, IsWatchWorld(w), NEW cs \in SUBSET Client
    PROVE  UnwatchAll(w, cs) =
             World3(w.slots, [k \in Key |-> Dequeue(w.watched[k], cs)],
                    [c \in Client |->
                       IF c \in cs
                       THEN [watching |-> {}, watched_expired |-> {},
                             dirty_cas |-> w.clients[c].dirty_cas]
                       ELSE w.clients[c]], w)
<1> DEFINE own(k) == {c \in cs : k \in w.clients[c].watching}
           lists == [k \in Key |-> Dequeue(w.watched[k], own(k))]
           clients == [c \in Client |->
                         IF c \in cs
                         THEN [watching |-> {},
                               watched_expired |-> w.clients[c].watched_expired
                                                     \ w.clients[c].watching,
                               dirty_cas |-> w.clients[c].dirty_cas]
                         ELSE w.clients[c]]
<1>1. \A c \in Client : w.clients[c].watched_expired \ w.clients[c].watching = {}
  BY DEF IsWatchWorld
<1>2. clients = [c \in Client |->
                   IF c \in cs
                   THEN [watching |-> {}, watched_expired |-> {},
                         dirty_cas |-> w.clients[c].dirty_cas]
                   ELSE w.clients[c]]
  BY <1>1
<1>3. \A k \in Key : Dequeue(w.watched[k], own(k)) = Dequeue(w.watched[k], cs)
  <2> SUFFICES ASSUME NEW k \in Key
               PROVE  Dequeue(w.watched[k], own(k)) = Dequeue(w.watched[k], cs)
    OBVIOUS
  <2>1. \A p \in w.watched[k] : p[1] \in Watchers(w, k) /\ p[2] \in Watchers(w, k)
    BY DEF IsWatchWorld
  <2>2. \A d \in Watchers(w, k) : d \in cs <=> d \in own(k)
    <3>1. Watchers(w, k) \in SUBSET Client
      BY DEF Watchers, Members
    <3>2. \A d \in Client : k \in w.clients[d].watching <=> d \in Watchers(w, k)
      BY DEF IsWatchWorld
    <3> QED
      BY <3>1, <3>2
  <2> HIDE DEF own
  <2> QED
    BY <2>1, <2>2 DEF Dequeue
<1>4. lists = [k \in Key |-> Dequeue(w.watched[k], cs)]
  BY <1>3
<1>5. UnwatchAll(w, cs) = [w EXCEPT !.clients = clients, !.watched = lists]
  BY DEF UnwatchAll
<1> HIDE DEF clients, lists
<1>6. UnwatchAll(w, cs) = World3(w.slots, lists, clients, w)
  BY <1>5 DEF IsWatchWorld, HasFields, World3
<1> QED
  BY <1>2, <1>4, <1>6

\* Whom touch_watched_key visits when it is called for the keys of ks
ReachedPairs(w, ks) == {p \in ks \X Client : p[2] \in Reached(w, p[1])}

\* touch_watched_key visits them, all at once.
LEMMA TouchIs ==
    ASSUME NEW w, IsWatchWorld(w), NEW ks \in SUBSET Key
    PROVE  Touch(w, ks) = Visited(w, ReachedPairs(w, ks))
<1> DEFINE pend == ReachedPairs(w, ks)
           dirtied == {c \in Client : \E k \in ks :
                          c \in Reached(w, k) /\ k \notin w.clients[c].watched_expired}
           cleared(c) == {k \in ks : c \in Reached(w, k)}
           clients == [c \in Client |->
                         IF c \in dirtied
                         THEN [w.clients[c] EXCEPT !.dirty_cas = TRUE]
                         ELSE [w.clients[c] EXCEPT !.watched_expired = @ \ cleared(c)]]
           flagged == [w EXCEPT !.clients = clients]
<1>1. Touch(w, ks) = UnwatchAll(flagged, dirtied)
  BY DEF Touch
<1>2. \A k \in Key, c \in Client : <<k, c>> \in pend <=> k \in ks /\ c \in Reached(w, k)
  BY DEF ReachedPairs
<1>3. dirtied = Struck(w, pend)
  BY <1>2 DEF Struck
<1>4. \A c \in Client :
        /\ clients[c] \in ClientState
        /\ clients[c].watching = w.clients[c].watching
        /\ c \in dirtied => clients[c].dirty_cas = TRUE
                            /\ clients[c].watched_expired = w.clients[c].watched_expired
        /\ c \notin dirtied => clients[c] = After(w, pend, c)
        /\ clients[c].watched_expired \subseteq clients[c].watching
  <2> SUFFICES ASSUME NEW c \in Client
               PROVE  /\ clients[c] \in ClientState
                      /\ clients[c].watching = w.clients[c].watching
                      /\ c \in dirtied => clients[c].dirty_cas = TRUE
                            /\ clients[c].watched_expired = w.clients[c].watched_expired
                      /\ c \notin dirtied => clients[c] = After(w, pend, c)
                      /\ clients[c].watched_expired \subseteq clients[c].watching
    OBVIOUS
  <2> DEFINE old == w.clients[c]
             done == cleared(c)
  <2>1. old \in ClientState /\ old.watched_expired \subseteq old.watching
        /\ old.watched_expired \subseteq Key
    BY DEF IsWatchWorld, ClientState
  <2>2. old.watched_expired \ done = {k \in old.watched_expired : <<k, c>> \notin pend}
    BY <1>2, <2>1
  <2>3. clients[c] = IF c \in dirtied THEN [old EXCEPT !.dirty_cas = TRUE]
                     ELSE [old EXCEPT !.watched_expired = @ \ done]
    OBVIOUS
  <2>4. After(w, pend, c) = IF c \in dirtied
          THEN [watching |-> {}, watched_expired |-> {}, dirty_cas |-> TRUE]
          ELSE [watching |-> old.watching, watched_expired |-> old.watched_expired \ done,
                dirty_cas |-> old.dirty_cas]
    BY <1>3, <2>2 DEF After
  <2> HIDE DEF old, done, dirtied, clients
  <2>5. CASE c \in dirtied
    BY <2>1, <2>3, <2>5 DEF ClientState, old
  <2>6. CASE c \notin dirtied
    <3>1. clients[c] = [old EXCEPT !.watched_expired = @ \ done]
      BY <2>3, <2>6
    <3>2. clients[c] = [watching |-> old.watching,
                        watched_expired |-> old.watched_expired \ done,
                        dirty_cas |-> old.dirty_cas]
      BY <2>1, <3>1 DEF ClientState
    <3>3. clients[c] = After(w, pend, c)
      BY <2>4, <2>6, <3>2
    <3> QED
      BY <2>1, <2>6, <3>2, <3>3 DEF ClientState, old
  <2> QED
    BY <2>5, <2>6
<1>5. clients \in [Client -> ClientState]
  BY <1>4
<1> HIDE DEF dirtied, clients
<1>6. flagged = World3(w.slots, w.watched, clients, w)
  BY DEF IsWatchWorld, HasFields, World3
<1>7. /\ flagged.slots = w.slots /\ flagged.watched = w.watched
      /\ flagged.clients = clients /\ HasFields(flagged)
      /\ flagged.clock = w.clock /\ flagged.mode = w.mode /\ flagged.repl = w.repl
      /\ flagged.dirty = w.dirty /\ flagged.nesting = w.nesting
  BY <1>6 DEF World3, HasFields
<1> HIDE DEF flagged
<1>8. IsWatchWorld(flagged)
  <2>1. \A k \in Key : Watchers(flagged, k) = Watchers(w, k)
    BY <1>7 DEF Watchers
  <2> QED
    BY <1>4, <1>5, <1>7, <2>1 DEF IsWatchWorld
<1>9. dirtied \in SUBSET Client
  BY DEF dirtied
<1>10. UnwatchAll(flagged, dirtied) =
         World3(flagged.slots, [k \in Key |-> Dequeue(flagged.watched[k], dirtied)],
                [c \in Client |->
                   IF c \in dirtied
                   THEN [watching |-> {}, watched_expired |-> {},
                         dirty_cas |-> flagged.clients[c].dirty_cas]
                   ELSE flagged.clients[c]], flagged)
  BY <1>8, <1>9, UnwatchAllIs
<1>11. \A c \in Client :
         (IF c \in dirtied
          THEN [watching |-> {}, watched_expired |-> {},
                dirty_cas |-> flagged.clients[c].dirty_cas]
          ELSE flagged.clients[c]) = After(w, pend, c)
  BY <1>3, <1>4, <1>7 DEF After
<1>12. UnwatchAll(flagged, dirtied) =
         World3(w.slots, [k \in Key |-> Dequeue(w.watched[k], Struck(w, pend))],
                [c \in Client |-> After(w, pend, c)], w)
  BY <1>3, <1>7, <1>10, <1>11 DEF World3
<1>13. Visited(w, pend) =
         World3(w.slots, [k \in Key |-> Dequeue(w.watched[k], Struck(w, pend))],
                [c \in Client |-> After(w, pend, c)], w)
  BY VisitedIs
<1> QED
  BY <1>1, <1>12, <1>13
-----------------------------------------------------------------------------
(***************************************************************************)
(* The operations on the arrays, each against its operator on worlds       *)
(***************************************************************************)
ArrayWorld == AsWorld(heap, order, len)

\* The assignment of a slot
WithSlot(w, k, slot) == [w EXCEPT !.slots[k] = slot]

WithSlotIs(h, o, n, k, slot) ==
    LET x == WithSlot(h, k, slot)
        w == AsWorld(h, o, n)
    IN /\ IsHeap(x)
       /\ Tied(x, o, n)
       /\ x.clients = h.clients
       /\ AsWorld(x, o, n) = World3([w.slots EXCEPT ![k] = slot], w.watched, w.clients, w)
       /\ AsWorld(x, o, n) = WithSlot(w, k, slot)

LEMMA SlotIs ==
    ASSUME NEW h, NEW o, NEW n, IsHeap(h), Tied(h, o, n), NEW k \in Key, NEW slot
    PROVE  WithSlotIs(h, o, n, k, slot)
<1> DEFINE x == WithSlot(h, k, slot)
           w == AsWorld(h, o, n)
           slots == [h.slots EXCEPT ![k] = slot]
           lists == Lists(o, n)
<1>1. w = World3(h.slots, lists, h.clients, h)
  BY AsWorldIs
<1>2. x = [h EXCEPT !.slots = slots]
  BY DEF IsHeap, HasFields, World3, WithSlot
<1>3. slots = [j \in Key |-> slots[j]]
  BY DEF IsHeap
<1> HIDE DEF slots, lists
<1>4. x = World3(slots, h.watched, h.clients, h)
  BY <1>2 DEF IsHeap, HasFields, World3
<1>5. /\ x.slots = slots /\ x.watched = h.watched /\ x.clients = h.clients /\ HasFields(x)
      /\ x.clock = h.clock /\ x.mode = h.mode /\ x.repl = h.repl /\ x.dirty = h.dirty
      /\ x.nesting = h.nesting
  BY <1>4 DEF World3, HasFields
<1> HIDE DEF x
<1>6. IsHeap(x)
  BY <1>3, <1>5 DEF IsHeap
<1>7. Tied(x, o, n)
  BY <1>5 DEF Tied
<1>8. AsWorld(x, o, n) = World3(slots, lists, h.clients, h)
  <2>1. AsWorld(x, o, n) = World3(x.slots, lists, x.clients, x)
    BY <1>6, <1>7, AsWorldIs DEF lists
  <2> QED
    BY <1>5, <2>1 DEF World3
<1>9. /\ w.slots = h.slots /\ w.watched = lists /\ w.clients = h.clients
      /\ w.clock = h.clock /\ w.mode = h.mode /\ w.repl = h.repl /\ w.dirty = h.dirty
      /\ w.nesting = h.nesting
  BY <1>1 DEF World3
<1>10. AsWorld(x, o, n) = World3([w.slots EXCEPT ![k] = slot], w.watched, w.clients, w)
  BY <1>8, <1>9 DEF World3, slots
<1>11. [w EXCEPT !.slots[k] = slot] = [w EXCEPT !.slots = slots]
  BY <1>1, <1>9 DEF World3, slots
<1>12. [w EXCEPT !.slots = slots] = World3(slots, lists, h.clients, h)
  BY <1>1 DEF World3
<1> QED
  BY <1>5, <1>6, <1>7, <1>8, <1>9, <1>10, <1>11, <1>12 DEF x, slots, WithSlot, WithSlotIs

\* unwatch_all: the client leaves its lists, and nothing else changes.
LEMMA UnwatchIs ==
    ASSUME TablesTied, NEW c \in Client, NEW client \in ClientState,
           client.watching = heap.clients[c].watching,
           client.watched_expired = heap.clients[c].watched_expired,
           Unwatch(c, client)
    PROVE  LET bare == [watching |-> {}, watched_expired |-> {},
                        dirty_cas |-> client.dirty_cas]
           IN /\ TablesTied'
              /\ heap'.slots = heap.slots
              /\ heap'.clients = [heap.clients EXCEPT ![c] = bare]
              /\ ArrayWorld' =
                   World3(heap.slots, [k \in Key |-> Dequeue(ArrayWorld.watched[k], {c})],
                          [heap.clients EXCEPT ![c] = bare], heap)
<1> DEFINE bare == [watching |-> {}, watched_expired |-> {}, dirty_cas |-> client.dirty_cas]
           ks == heap.clients[c].watching
           clients == [heap.clients EXCEPT ![c] = bare]
           old == Lists(order, len)
           new == Lists(order', len')
<1>1. IsHeap(heap) /\ Tied(heap, order, len)
  BY DEF TablesTied
<1>2. [client EXCEPT !.watching = {}, !.watched_expired = @ \ client.watching] = bare
  <2>1. client.watched_expired \ client.watching = {}
    BY <1>1 DEF IsHeap
  <2> DEFINE ws == client.watching
             es == client.watched_expired
             rest == es \ ws
             d == client.dirty_cas
  <2>2. client = [watching |-> ws, watched_expired |-> es, dirty_cas |-> d]
    BY DEF ClientState
  <2> HIDE DEF ws, es, d, rest
  <2>3. [client EXCEPT !.watching = {}, !.watched_expired = rest]
          = [watching |-> {}, watched_expired |-> rest, dirty_cas |-> d]
    <3> DEFINE mid == [client EXCEPT !.watching = {}]
    <3>1. mid = [watching |-> {}, watched_expired |-> es, dirty_cas |-> d]
      BY <2>2
    <3>2. [client EXCEPT !.watching = {}, !.watched_expired = rest]
            = [mid EXCEPT !.watched_expired = rest]
      OBVIOUS
    <3> HIDE DEF mid
    <3> QED
      BY <3>1, <3>2
  <2>4. rest = {}
    BY <2>1 DEF ws, es, rest
  <2>5. [client EXCEPT !.watching = {}, !.watched_expired = @ \ ws]
          = [client EXCEPT !.watching = {}, !.watched_expired = rest]
    BY DEF es, rest
  <2> QED
    BY <2>3, <2>4, <2>5 DEF ws, d
<1>3. heap' = [heap EXCEPT !.clients[c] = bare]
  BY <1>2 DEF Unwatch
<1>4. order' = [k \in Key |-> IF k \in ks THEN Compacted(k, c) ELSE order[k]]
  BY DEF Unwatch
<1>5. len' = [k \in Key |-> IF k \in ks THEN Cardinality(Kept(k, c)) ELSE len[k]]
  BY DEF Unwatch
<1>6. heap' = World3(heap.slots, heap.watched, clients, heap)
  BY <1>1, <1>3 DEF IsHeap, HasFields, World3
<1>7. \A d \in Client : clients[d] = IF d = c THEN bare ELSE heap.clients[d]
  BY <1>1 DEF IsHeap
<1>8. clients \in [Client -> ClientState]
  BY <1>1 DEF IsHeap, ClientState
<1> HIDE DEF clients
<1>9. /\ heap'.slots = heap.slots /\ heap'.watched = heap.watched
      /\ heap'.clients = clients /\ HasFields(heap')
      /\ heap'.clock = heap.clock /\ heap'.mode = heap.mode /\ heap'.repl = heap.repl
      /\ heap'.dirty = heap.dirty /\ heap'.nesting = heap.nesting
  BY <1>6 DEF World3, HasFields
<1>10. IsHeap(heap')
  <2>1. \A d \in Client : clients[d].watched_expired \subseteq clients[d].watching
    BY <1>1, <1>7 DEF IsHeap
  <2> QED
    BY <1>1, <1>8, <1>9, <2>1 DEF IsHeap
<1>11. ASSUME NEW k \in Key
       PROVE  /\ IsArray(order'[k], len'[k])
              /\ \A d \in Client : HoldsAt(order'[k], len'[k], d)
                                     <=> HoldsAt(order[k], len[k], d) /\ d # c
              /\ ListOf(order'[k], len'[k]) = Dequeue(ListOf(order[k], len[k]), {c})
  <2>1. IsArray(order[k], len[k]) /\ (k \in ks <=> HoldsAt(order[k], len[k], c))
    BY <1>1 DEF Tied
  <2>2. CASE k \in ks
    <3>1. order'[k] = Compacted(k, c) /\ len'[k] = Cardinality(Kept(k, c))
      BY <1>4, <1>5, <2>2
    <3> DEFINE o == Compacted(k, c)
               m == Cardinality(Kept(k, c))
    <3>2. /\ IsArray(o, m)
          /\ \A d \in Client : HoldsAt(o, m, d) <=> HoldsAt(order[k], len[k], d) /\ d # c
          /\ ListOf(o, m) = Dequeue(ListOf(order[k], len[k]), {c})
      BY <2>1, RemoveIs
    <3> HIDE DEF o, m
    <3>3. order'[k] = o /\ len'[k] = m
      BY <3>1 DEF o, m
    <3> QED
      BY <3>2, <3>3
  <2>3. CASE k \notin ks
    <3>1. order'[k] = order[k] /\ len'[k] = len[k]
      BY <1>4, <1>5, <2>3
    <3>2. \A p \in ListOf(order[k], len[k]) : p[1] # c /\ p[2] # c
      BY <2>1, <2>3, ListMembers
    <3>3. Dequeue(ListOf(order[k], len[k]), {c}) = ListOf(order[k], len[k])
      BY <3>2 DEF Dequeue
    <3> QED
      BY <2>1, <2>3, <3>1, <3>3
  <2> QED
    BY <2>2, <2>3
<1>12. Tied(heap', order', len')
  <2>1. \A k \in Key, d \in Client :
          k \in clients[d].watching <=> HoldsAt(order'[k], len'[k], d)
    BY <1>1, <1>7, <1>11 DEF Tied
  <2> QED
    BY <1>9, <1>11, <2>1 DEF Tied
<1>13. TablesTied'
  BY <1>4, <1>5, <1>10, <1>12 DEF TablesTied
<1>14. ArrayWorld.watched = old
  BY <1>1, AsWorldIs DEF ArrayWorld, World3
<1>15. new = [k \in Key |-> Dequeue(ArrayWorld.watched[k], {c})]
  <2>1. \A k \in Key : ListOf(order'[k], len'[k]) = Dequeue(ArrayWorld.watched[k], {c})
    BY <1>11, <1>14 DEF Lists
  <2> QED
    BY <2>1 DEF Lists
<1>16. ArrayWorld' = World3(heap'.slots, new, heap'.clients, heap')
  BY <1>10, <1>12, AsWorldIs DEF ArrayWorld
<1>17. ArrayWorld' = World3(heap.slots, new, clients, heap)
  BY <1>9, <1>16 DEF World3
<1> QED
  BY <1>9, <1>13, <1>15, <1>17 DEF clients
-----------------------------------------------------------------------------
(***************************************************************************)
(* The snapshot that a call starts with                                    *)
(***************************************************************************)
LEMMA ArrayClients ==
    ASSUME NEW o, NEW n, IsArray(o, n)
    PROVE  n \in Nat /\ \A i \in 1..n : o[i] \in Client
<1>1. C \in Nat /\ n \in Nat /\ n <= C
  BY KeysAssumption, FS_CardinalityType DEF C, IsArray
<1> QED
  BY <1>1 DEF IsArray

LEMMA UnblockedIs ==
    ASSUME NEW h, NEW k, NEW a, NEW i, NEW n
    PROVE  \A p : p \in Unblocked(h, k, a, i, n) <=>
             \E g \in i..n : p = <<k, a[g]>> /\ \A j \in i..g : ~Blocks(h, k, a[j])
BY DEF Unblocked

\* The whole array: the clients that touch_watched_key reaches
LEMMA SnapshotIs ==
    ASSUME NEW h, NEW o, NEW n, IsHeap(h), Tied(h, o, n), NEW k \in Key
    PROVE  \A p : p \in Unblocked(h, k, o[k], 1, n[k]) <=>
             \E c \in Client : p = <<k, c>> /\ c \in Reached(AsWorld(h, o, n), k)
<1> DEFINE w == AsWorld(h, o, n)
           a == o[k]
           m == n[k]
<1>1. w.clients = h.clients /\ w.slots = h.slots /\ w.watched[k] = ListOf(a, m)
  BY AsWorldIs DEF World3, Lists
<1>2. \A c : Blocks(w, k, c) <=> Blocks(h, k, c)
  BY <1>1 DEF Blocks
<1>3. IsArray(a, m) /\ m \in Nat
  BY DEF Tied, IsArray
<1> HIDE DEF w, a, m
<1>4. /\ ListOf(a, m) \in SUBSET (Client \X Client)
      /\ Members(ListOf(a, m)) = {c \in Client : HoldsAt(a, m, c)}
      /\ \A p \in ListOf(a, m) : HoldsAt(a, m, p[1]) /\ HoldsAt(a, m, p[2])
  BY <1>3, ListMembers
<1>5. Watchers(w, k) = {c \in Client : HoldsAt(a, m, c)}
  BY <1>1, <1>4 DEF Watchers
<1>6. \A g \in 1..m : a[g] \in Client
  BY <1>3, ArrayClients
<1>7. ASSUME NEW g \in 1..m
      PROVE  (\A j \in 1..g : ~Blocks(h, k, a[j])) <=> a[g] \in Reached(w, k)
  <2>1. ASSUME \A j \in 1..g : ~Blocks(h, k, a[j]),
               NEW d \in Client, <<d, a[g]>> \in ListOf(a, m)
        PROVE  ~Blocks(w, k, d)
    <3> DEFINE p == <<d, a[g]>>
    <3>1. HoldsAt(a, m, p[1])
      BY <1>4, <2>1
    <3>2. PICK j \in 1..m : a[j] = d
      BY <3>1 DEF HoldsAt
    <3>3. j <= g
      BY <1>3, <2>1, <3>2, ListOrders
    <3> QED
      BY <1>2, <2>1, <3>2, <3>3
  <2>2. ASSUME a[g] \in Reached(w, k), NEW j \in 1..g PROVE ~Blocks(h, k, a[j])
    <3>1. j \in 1..m /\ j <= g
      BY <1>3
    <3>2. <<a[j], a[g]>> \in ListOf(a, m)
      BY <1>3, <3>1, ListOrders
    <3> QED
      BY <1>1, <1>2, <1>6, <2>2, <3>1, <3>2 DEF Reached
  <2>3. a[g] \in Watchers(w, k)
    BY <1>5, <1>6 DEF HoldsAt
  <2> QED
    BY <1>1, <2>1, <2>2, <2>3 DEF Reached
<1>8. \A c \in Reached(w, k) : c \in Client /\ HoldsAt(a, m, c)
  BY <1>5 DEF Reached
<1> SUFFICES ASSUME NEW p
             PROVE  p \in Unblocked(h, k, a, 1, m) <=>
                      \E c \in Client : p = <<k, c>> /\ c \in Reached(w, k)
  BY DEF w, a, m
<1>9. ASSUME NEW g \in 1..m, p = <<k, a[g]>>, \A j \in 1..g : ~Blocks(h, k, a[j])
      PROVE  \E c \in Client : p = <<k, c>> /\ c \in Reached(w, k)
  BY <1>6, <1>7, <1>9
<1>10. ASSUME NEW c \in Client, p = <<k, c>>, c \in Reached(w, k)
       PROVE  \E g \in 1..m : p = <<k, a[g]>> /\ \A j \in 1..g : ~Blocks(h, k, a[j])
  <2>1. PICK g \in 1..m : a[g] = c
    BY <1>8, <1>10 DEF HoldsAt
  <2> QED
    BY <1>7, <1>10, <2>1
<1> QED
  BY <1>9, <1>10, UnblockedIs

\* When the key is absent nothing blocks: every watcher is reached.
LEMMA AbsentReached ==
    ASSUME NEW w, IsWatchWorld(w), NEW k \in Key, ~w.slots[k].present
    PROVE  \A c \in Client : c \in Reached(w, k) <=> k \in w.clients[c].watching
BY DEF Reached, Blocks, IsWatchWorld

\* A call has just taken its snapshot: the frame is sound, and whom it will
\* visit is whom the atomic operator reaches.
LEMMA SnapshotSound ==
    ASSUME TablesTied', UNCHANGED <<order, len>>, NEW k \in Key,
           NEW todo \in SUBSET (Key \ {k}), NEW result,
           frame' = Snapshot(k, todo, result)
    PROVE  /\ FrameIsSound'
           /\ frame' # Idle /\ frame'.todo = todo /\ frame'.result = result
           /\ \A j, c : <<j, c>> \in Pending' <=>
                \/ j = k /\ c \in Client /\ c \in Reached(ArrayWorld', k)
                \/ j \in todo /\ c \in Client /\ j \in heap'.clients[c].watching
<1>1. IsHeap(heap') /\ Tied(heap', order, len)
  BY DEF TablesTied
<1>2. frame' = [calling |-> TRUE, key |-> k, order |-> order[k], n |-> len[k], i |-> 1,
                todo |-> todo, result |-> result]
  BY DEF Snapshot
<1>3. frame' # Idle
  BY <1>2 DEF Idle
<1>4. IsArray(order[k], len[k]) /\ len[k] \in Nat
  BY <1>1 DEF Tied, IsArray
<1>5. \A h \in 1..len[k] : order[k][h] \in Client /\ k \in heap'.clients[order[k][h]].watching
  <2> SUFFICES ASSUME NEW h \in 1..len[k]
               PROVE  order[k][h] \in Client /\ k \in heap'.clients[order[k][h]].watching
    OBVIOUS
  <2>1. order[k][h] \in Client
    BY <1>4, ArrayClients
  <2> QED
    BY <1>1, <2>1 DEF Tied, HoldsAt
<1>6. FrameIsSound'
  BY <1>2, <1>4, <1>5 DEF FrameIsSound, IsArray
<1>7. PendingHere' = Unblocked(heap', k, order[k], 1, len[k])
  BY <1>2 DEF PendingHere
<1>8. ArrayWorld' = AsWorld(heap', order, len)
  BY DEF ArrayWorld
<1>9. \A j, c : <<j, c>> \in PendingHere'
                  <=> j = k /\ c \in Client /\ c \in Reached(ArrayWorld', k)
  BY <1>1, <1>7, <1>8, SnapshotIs
<1>10. \A j, c : <<j, c>> \in PendingLater'
                   <=> j \in todo /\ c \in Client /\ j \in heap'.clients[c].watching
  BY <1>2 DEF PendingLater
<1> QED
  BY <1>2, <1>3, <1>6, <1>9, <1>10 DEF Pending
-----------------------------------------------------------------------------
(***************************************************************************)
(* The iterations                                                          *)
(***************************************************************************)
LEMMA ArrayWorldIs ==
    ASSUME TablesTied
    PROVE  /\ IsWatchWorld(ArrayWorld)
           /\ ArrayWorld = World3(heap.slots, ArrayWorld.watched, heap.clients, heap)
           /\ ArrayWorld.slots = heap.slots /\ ArrayWorld.clients = heap.clients
BY AsWorldIs DEF TablesTied, ArrayWorld, World3

LEMMA PendingIs ==
    \A j, c : <<j, c>> \in Pending <=>
        \/ /\ j = frame.key
           /\ \E g \in frame.i..frame.n :
                c = frame.order[g]
                /\ \A x \in frame.i..g : ~Blocks(heap, frame.key, frame.order[x])
        \/ j \in frame.todo /\ c \in Client /\ j \in heap.clients[c].watching
<1>1. \A j, c : <<j, c>> \in PendingHere <=>
        \E g \in frame.i..frame.n :
            <<j, c>> = <<frame.key, frame.order[g]>>
            /\ \A x \in frame.i..g : ~Blocks(heap, frame.key, frame.order[x])
  BY UnblockedIs DEF PendingHere
<1>2. \A j, c : <<j, c>> \in PendingLater <=>
        j \in frame.todo /\ c \in Client /\ j \in heap.clients[c].watching
  BY DEF PendingLater
<1> QED
  BY <1>1, <1>2 DEF Pending

\* A step that visits the clients of now and leaves the others for later
LEMMA VisitKeeps ==
    ASSUME TablesTied, ResultIsAhead, frame # Idle, NEW now \in SUBSET Pending,
           frame' # Idle, frame'.todo = frame.todo, frame'.result = frame.result,
           ArrayWorld' = Visited(ArrayWorld, now),
           \A k \in Key, c \in Client : <<k, c>> \in Pending'
             <=> <<k, c>> \in Pending \ now /\ c \notin Struck(ArrayWorld, now)
    PROVE  ResultIsAhead'
<1> DEFINE w == ArrayWorld
           b == Blanked(w, frame.todo)
<1>1. IsWatchWorld(w)
  BY ArrayWorldIs
<1>3. frame.result = Visited(b, Pending)
  BY DEF ResultIsAhead, ArrayWorld
<1> HIDE DEF w
<1>2. /\ IsWatchWorld(b)
      /\ \A pend : Struck(b, pend) = Struck(w, pend)
      /\ \A pend : Visited(b, pend) = Blanked(Visited(w, pend), frame.todo)
  BY <1>1, BlankedIs
<1> HIDE DEF b
<1>4. Visited(b, Pending) = Visited(Visited(b, now), Pending')
  BY <1>2, VisitedInTwo DEF w
<1>5. Visited(b, now) = Blanked(ArrayWorld', frame'.todo)
  BY <1>2 DEF w
<1> QED
  BY <1>3, <1>4, <1>5 DEF ResultIsAhead, ArrayWorld

\* The client under the loop: to be visited unless it blocks
LEMMA CurrentIs ==
    ASSUME TablesTied, FrameIsSound, InLoop
    PROVE  /\ frame # Idle
           /\ frame.key \in Key /\ frame.key \notin frame.todo
           /\ frame.todo \subseteq Key
           /\ frame.i \in frame.i..frame.n /\ frame.i \in Nat /\ frame.n \in Nat
           /\ frame.i <= frame.n
           /\ Current \in Client /\ frame.key \in heap.clients[Current].watching
           /\ \A h \in (frame.i + 1)..frame.n :
                /\ h \in frame.i..frame.n /\ frame.order[h] \in Client
                /\ frame.key \in heap.clients[frame.order[h]].watching
                /\ frame.order[h] # Current
<1>1. frame # Idle
  BY DEF InLoop, Idle
<1>2. frame.i <= frame.n /\ frame.n \in Nat /\ frame.i \in 1..(frame.n + 1)
  BY <1>1 DEF FrameIsSound, InLoop
<1>3. \A h \in (frame.i + 1)..frame.n : h \in frame.i..frame.n /\ h # frame.i
  BY <1>2
<1>4. frame.i \in frame.i..frame.n /\ frame.i \in Nat
  BY <1>2
<1> QED
  BY <1>1, <1>2, <1>3, <1>4 DEF FrameIsSound, Current

\* The frame after an iteration that went on to the next client
LEMMA AdvanceIs ==
    ASSUME FrameIsSound, frame # Idle, Advance
    PROVE  /\ frame' # Idle
           /\ DOMAIN frame' = DOMAIN frame /\ frame'.calling = frame.calling
           /\ frame'.key = frame.key /\ frame'.todo = frame.todo
           /\ frame'.result = frame.result /\ frame'.order = frame.order
           /\ frame'.n = frame.n /\ frame'.i = frame.i + 1
<1>1. DOMAIN frame = {"calling", "key", "order", "n", "i", "todo", "result"}
      /\ frame.calling = TRUE
  BY DEF FrameIsSound
<1>2. /\ DOMAIN frame' = DOMAIN frame /\ frame'.calling = frame.calling
      /\ frame'.key = frame.key /\ frame'.todo = frame.todo
      /\ frame'.result = frame.result /\ frame'.order = frame.order
      /\ frame'.n = frame.n /\ frame'.i = frame.i + 1
  BY <1>1 DEF Advance
<1>3. frame' # Idle
  BY <1>1, <1>2 DEF Idle
<1> QED
  BY <1>2, <1>3

\* What the iteration leaves for later: the same, without the client under
\* the loop, and without all pairs of that client if it lost its watches
LEMMA AdvancePending ==
    ASSUME TablesTied, FrameIsSound, InLoop, Advance, NEW gone \in SUBSET {Current},
           ~Blocks(heap, frame.key, Current),
           \A d \in Client : d # Current =>
             (Blocks(heap', frame.key, d) <=> Blocks(heap, frame.key, d)),
           \A k \in Key, d \in Client : k \in heap'.clients[d].watching
             <=> k \in heap.clients[d].watching /\ d \notin gone
    PROVE  /\ FrameIsSound'
           /\ <<frame.key, Current>> \in Pending
           /\ \A k \in Key, c \in Client : <<k, c>> \in Pending'
                <=> <<k, c>> \in Pending \ {<<frame.key, Current>>} /\ c \notin gone
<1> DEFINE a == frame.order
           i == frame.i
           n == frame.n
           key == frame.key
<1>1. /\ frame # Idle /\ key \in Key /\ key \notin frame.todo /\ frame.todo \subseteq Key
      /\ i \in i..n /\ i \in Nat /\ n \in Nat /\ i <= n
      /\ Current = a[i] /\ Current \in Client /\ key \in heap.clients[Current].watching
      /\ \A h \in (i + 1)..n : /\ h \in i..n /\ a[h] \in Client
                               /\ key \in heap.clients[a[h]].watching
                               /\ a[h] # Current
  BY CurrentIs DEF Current
<1>2. /\ frame' # Idle /\ DOMAIN frame' = DOMAIN frame /\ frame'.calling = frame.calling
      /\ frame'.key = key /\ frame'.todo = frame.todo
      /\ frame'.order = a /\ frame'.n = n /\ frame'.i = i + 1
  BY <1>1, AdvanceIs
<1>3. FrameIsSound'
  <2>1. i + 1 \in 1..(n + 1)
    BY <1>1
  <2>2. \A h \in (i + 1)..n : a[h] \in Client /\ key \in heap'.clients[a[h]].watching
    BY <1>1
  <2>3. \A h, j \in (i + 1)..n : a[h] = a[j] => h = j
    BY <1>1 DEF FrameIsSound
  <2> QED
    BY <1>1, <1>2, <2>1, <2>2, <2>3 DEF FrameIsSound
<1>4. \A k, c : <<k, c>> \in Pending <=>
        \/ k = key /\ \E g \in i..n : c = a[g] /\ \A x \in i..g : ~Blocks(heap, key, a[x])
        \/ k \in frame.todo /\ c \in Client /\ k \in heap.clients[c].watching
  BY PendingIs
<1>5. \A k, c : <<k, c>> \in Pending' <=>
        \/ k = key /\ \E g \in (i + 1)..n :
                         c = a[g] /\ \A x \in (i + 1)..g : ~Blocks(heap', key, a[x])
        \/ k \in frame.todo /\ c \in Client /\ k \in heap'.clients[c].watching
  <2>1. (\A j, c : <<j, c>> \in Pending <=>
          \/ /\ j = frame.key
             /\ \E g \in frame.i..frame.n :
                  c = frame.order[g]
                  /\ \A x \in frame.i..g : ~Blocks(heap, frame.key, frame.order[x])
          \/ j \in frame.todo /\ c \in Client /\ j \in heap.clients[c].watching)'
    BY PendingIs, PTL
  <2> QED
    BY <1>2, <2>1
<1> HIDE DEF a, i, n, key
<1>6. \A x \in i..i : x = i
  BY <1>1
<1>7. <<key, Current>> \in Pending
  BY <1>1, <1>4, <1>6 DEF key
<1>8. ASSUME NEW c \in Client
      PROVE  <<key, c>> \in Pending' <=> <<key, c>> \in Pending /\ c # Current
  <2>1. ASSUME NEW g \in (i + 1)..n, c = a[g],
               \A x \in (i + 1)..g : ~Blocks(heap', key, a[x])
        PROVE  <<key, c>> \in Pending /\ c # Current
    <3>1. g \in i..n /\ a[g] # Current
      BY <1>1
    <3>2. ASSUME NEW x \in i..g, x # i PROVE ~Blocks(heap, key, a[x])
      <4>1. x \in (i + 1)..g /\ x \in (i + 1)..n
        BY <1>1, <3>2
      <4> QED
        BY <1>1, <2>1, <4>1 DEF key
    <3>3. ~Blocks(heap, key, a[i])
      BY <1>1 DEF key
    <3> QED
      BY <1>4, <2>1, <3>1, <3>2, <3>3
  <2>2. ASSUME NEW g \in i..n, c = a[g], c # Current,
               \A x \in i..g : ~Blocks(heap, key, a[x])
        PROVE  <<key, c>> \in Pending'
    <3>1. g \in (i + 1)..n
      BY <1>1, <2>2
    <3>2. ASSUME NEW x \in (i + 1)..g PROVE ~Blocks(heap', key, a[x])
      <4>1. x \in (i + 1)..n /\ x \in i..g
        BY <1>1
      <4> QED
        BY <1>1, <2>2, <4>1 DEF key
    <3> QED
      BY <1>5, <2>2, <3>1, <3>2
  <2>3. key \notin frame.todo
    BY <1>1
  <2> QED
    BY <1>4, <1>5, <2>1, <2>2, <2>3
<1>9. ASSUME NEW k \in Key, k # key, NEW c \in Client
      PROVE  <<k, c>> \in Pending' <=> <<k, c>> \in Pending /\ c \notin gone
  BY <1>4, <1>5, <1>9
<1>10. \A k \in Key, c \in Client : <<k, c>> \in Pending'
         <=> <<k, c>> \in Pending \ {<<key, Current>>} /\ c \notin gone
  <2> TAKE k \in Key, c \in Client
  <2>1. CASE k = key
    BY <1>8, <2>1
  <2>2. CASE k # key
    BY <1>9, <2>2
  <2> QED
    BY <2>1, <2>2
<1> QED
  BY <1>3, <1>7, <1>10 DEF key
LEMMA SkipKeeps ==
    ASSUME LoopIInv, SkipClient
    PROVE  LoopIInv' /\ frame # Idle /\ frame' # Idle /\ frame'.result = frame.result
<1> DEFINE cur == Current
           key == frame.key
           now == {<<key, cur>>}
           w == ArrayWorld
           old == heap.clients[cur]
           lighter == [watching |-> old.watching, watched_expired |-> old.watched_expired \ {key},
                       dirty_cas |-> old.dirty_cas]
           clients == [heap.clients EXCEPT ![cur] = lighter]
<1>1. TablesTied /\ FrameIsSound /\ ResultIsAhead /\ InLoop /\ Advance
      /\ UNCHANGED <<order, len>>
  BY DEF LoopIInv, SkipClient
<1>2. frame # Idle /\ key \in Key /\ cur \in Client /\ key \in old.watching
  BY <1>1, CurrentIs
<1>3. key \in old.watched_expired /\ ~heap.slots[key].present
  BY DEF SkipClient, Exempt
<1>4. IsHeap(heap) /\ Tied(heap, order, len)
  BY <1>1 DEF TablesTied
<1>5. old \in ClientState /\ old.watched_expired \subseteq old.watching
  BY <1>2, <1>4 DEF IsHeap
<1>6. [old EXCEPT !.watched_expired = @ \ {key}] = lighter
  BY <1>5 DEF ClientState
<1>7. heap' = [heap EXCEPT !.clients = clients]
  <2>1. heap' = [heap EXCEPT !.clients[cur].watched_expired = @ \ {key}]
    BY DEF SkipClient
  <2>2. heap' = [heap EXCEPT !.clients[cur] = [old EXCEPT !.watched_expired = @ \ {key}]]
    BY <2>1
  <2>3. heap' = [heap EXCEPT !.clients[cur] = lighter]
    BY <1>6, <2>2
  <2> HIDE DEF lighter, cur
  <2> QED
    BY <1>4, <2>3 DEF IsHeap, HasFields, World3
<1>8. \A d \in Client : clients[d] = IF d = cur THEN lighter ELSE heap.clients[d]
  BY <1>4 DEF IsHeap
<1>9. clients \in [Client -> ClientState]
  BY <1>4, <1>5 DEF IsHeap, ClientState
<1> HIDE DEF clients
<1>10. heap' = World3(heap.slots, heap.watched, clients, heap)
  BY <1>4, <1>7 DEF IsHeap, HasFields, World3
<1>11. /\ heap'.slots = heap.slots /\ heap'.watched = heap.watched
       /\ heap'.clients = clients /\ HasFields(heap')
       /\ heap'.clock = heap.clock /\ heap'.mode = heap.mode /\ heap'.repl = heap.repl
       /\ heap'.dirty = heap.dirty /\ heap'.nesting = heap.nesting
  BY <1>10 DEF World3, HasFields
<1>12. \A d \in Client : /\ clients[d].watching = heap.clients[d].watching
                         /\ clients[d].watched_expired \subseteq clients[d].watching
  BY <1>4, <1>5, <1>8 DEF IsHeap
<1>13. TablesTied'
  <2>1. IsHeap(heap')
    BY <1>4, <1>9, <1>11, <1>12 DEF IsHeap
  <2>2. Tied(heap', order, len)
    BY <1>4, <1>11, <1>12 DEF Tied
  <2> QED
    BY <1>1, <2>1, <2>2 DEF TablesTied
<1>14. ArrayWorld' = World3(w.slots, w.watched, clients, w)
  <2>1. ArrayWorld' = World3(heap'.slots, Lists(order, len), heap'.clients, heap')
    BY <1>1, <1>13, AsWorldIs DEF TablesTied, ArrayWorld
  <2>2. w = World3(heap.slots, Lists(order, len), heap.clients, heap)
    BY <1>4, AsWorldIs DEF ArrayWorld
  <2> HIDE DEF w
  <2> QED
    BY <1>11, <2>1, <2>2 DEF World3
<1>15. Struck(w, now) = {}
  <2>1. w.clients = heap.clients
    BY <1>1, ArrayWorldIs
  <2> QED
    BY <1>3, <2>1 DEF Struck
<1>16. Visited(w, now) = World3(w.slots, w.watched, clients, w)
  <2>1. IsWatchWorld(w) /\ w.clients = heap.clients
    BY <1>1, ArrayWorldIs
  <2>2. ASSUME NEW d \in Client PROVE After(w, now, d) = clients[d]
    <3> DEFINE x == heap.clients[d]
    <3>1. x \in ClientState
      BY <1>4 DEF IsHeap
    <3>2. {k \in x.watched_expired : <<k, d>> \notin now}
            = IF d = cur THEN x.watched_expired \ {key} ELSE x.watched_expired
      OBVIOUS
    <3>3. x = [watching |-> x.watching, watched_expired |-> x.watched_expired,
               dirty_cas |-> x.dirty_cas]
      BY <3>1 DEF ClientState
    <3>4. After(w, now, d) = [watching |-> x.watching,
            watched_expired |-> IF d = cur THEN x.watched_expired \ {key} ELSE x.watched_expired,
            dirty_cas |-> x.dirty_cas]
      BY <1>15, <2>1, <3>2 DEF After
    <3> QED
      BY <1>8, <3>3, <3>4
  <2>3. [d \in Client |-> After(w, now, d)] = clients
    BY <1>9, <2>2
  <2>4. [k \in Key |-> Dequeue(w.watched[k], Struck(w, now))] = w.watched
    BY <1>15, <2>1 DEF Dequeue, IsWatchWorld
  <2>5. Visited(w, now) = World3(w.slots, [k \in Key |-> Dequeue(w.watched[k], Struck(w, now))],
                                 [d \in Client |-> After(w, now, d)], w)
    BY <2>1, VisitedIs
  <2> QED
    BY <2>3, <2>4, <2>5
<1>17. /\ FrameIsSound'
       /\ <<key, cur>> \in Pending
       /\ \A k \in Key, c \in Client : <<k, c>> \in Pending'
            <=> <<k, c>> \in Pending \ now /\ c \notin {}
  <2>1. ~Blocks(heap, key, cur)
    BY <1>3 DEF Blocks
  <2>2. \A d \in Client : d # cur => (Blocks(heap', key, d) <=> Blocks(heap, key, d))
    BY <1>8, <1>11 DEF Blocks
  <2>3. \A k \in Key, d \in Client : k \in heap'.clients[d].watching
          <=> k \in heap.clients[d].watching /\ d \notin {}
    BY <1>11, <1>12
  <2>4. {} \in SUBSET {cur}
    OBVIOUS
  <2> QED
    BY <1>1, <2>1, <2>2, <2>3, <2>4, AdvancePending
<1>18. frame' # Idle /\ frame'.todo = frame.todo /\ frame'.result = frame.result
  BY <1>1, <1>2, AdvanceIs
<1>19. ResultIsAhead'
  <2>1. now \in SUBSET Pending
    BY <1>17
  <2>2. ArrayWorld' = Visited(w, now)
    BY <1>14, <1>16
  <2>3. \A k \in Key, c \in Client : <<k, c>> \in Pending'
          <=> <<k, c>> \in Pending \ now /\ c \notin Struck(w, now)
    BY <1>15, <1>17
  <2> HIDE DEF now
  <2> QED
    BY <1>1, <1>2, <1>18, <2>1, <2>2, <2>3, VisitKeeps
<1> QED
  BY <1>2, <1>13, <1>17, <1>18, <1>19 DEF LoopIInv

LEMMA DirtyKeeps ==
    ASSUME LoopIInv, DirtyClient
    PROVE  LoopIInv' /\ frame # Idle /\ frame' # Idle /\ frame'.result = frame.result
<1> DEFINE cur == Current
           key == frame.key
           now == {<<key, cur>>}
           w == ArrayWorld
           old == heap.clients[cur]
           client == [old EXCEPT !.dirty_cas = TRUE]
           bare == [watching |-> {}, watched_expired |-> {}, dirty_cas |-> TRUE]
           clients == [heap.clients EXCEPT ![cur] = bare]
<1>1. TablesTied /\ FrameIsSound /\ ResultIsAhead /\ InLoop /\ Advance
      /\ Unwatch(cur, client)
  BY DEF LoopIInv, DirtyClient
<1>2. frame # Idle /\ key \in Key /\ cur \in Client /\ key \in old.watching
  BY <1>1, CurrentIs
<1>3. key \notin old.watched_expired
  BY DEF DirtyClient, Exempt
<1>4. IsHeap(heap) /\ Tied(heap, order, len)
  BY <1>1 DEF TablesTied
<1>5. old \in ClientState
  BY <1>2, <1>4 DEF IsHeap
<1>6. /\ client \in ClientState /\ client.watching = old.watching
      /\ client.watched_expired = old.watched_expired /\ client.dirty_cas = TRUE
  BY <1>5 DEF ClientState
<1> HIDE DEF client
<1>7. /\ TablesTied' /\ heap'.slots = heap.slots /\ heap'.clients = clients
      /\ ArrayWorld' = World3(heap.slots, [k \in Key |-> Dequeue(w.watched[k], {cur})],
                              clients, heap)
  <2>1. LET made == [watching |-> {}, watched_expired |-> {},
                     dirty_cas |-> client.dirty_cas]
        IN /\ TablesTied'
           /\ heap'.slots = heap.slots
           /\ heap'.clients = [heap.clients EXCEPT ![cur] = made]
           /\ ArrayWorld' =
                World3(heap.slots, [k \in Key |-> Dequeue(w.watched[k], {cur})],
                       [heap.clients EXCEPT ![cur] = made], heap)
    BY <1>1, <1>2, <1>6, UnwatchIs
  <2> QED
    BY <1>6, <2>1
<1>8. \A d \in Client : clients[d] = IF d = cur THEN bare ELSE heap.clients[d]
  BY <1>4 DEF IsHeap
<1>9. clients = [d \in Client |-> clients[d]]
  BY <1>4 DEF IsHeap
<1> HIDE DEF clients
<1>10. IsWatchWorld(w) /\ w.clients = heap.clients
       /\ w = World3(heap.slots, w.watched, heap.clients, heap)
  BY <1>1, ArrayWorldIs
<1>11. Struck(w, now) = {cur}
  <2>1. \A c \in Client : c \in Struck(w, now) <=> c = cur
    BY <1>2, <1>3, <1>10 DEF Struck
  <2> QED
    BY <1>2, <2>1 DEF Struck
<1>12. Visited(w, now) = World3(w.slots, [k \in Key |-> Dequeue(w.watched[k], {cur})], clients, w)
  <2>2. ASSUME NEW d \in Client PROVE After(w, now, d) = clients[d]
    <3> DEFINE x == heap.clients[d]
    <3>1. x \in ClientState
      BY <1>4 DEF IsHeap
    <3>2. d # cur => {k \in x.watched_expired : <<k, d>> \notin now} = x.watched_expired
      OBVIOUS
    <3>3. x = [watching |-> x.watching, watched_expired |-> x.watched_expired,
               dirty_cas |-> x.dirty_cas]
      BY <3>1 DEF ClientState
    <3>4. d # cur => After(w, now, d) = [watching |-> x.watching,
            watched_expired |-> x.watched_expired, dirty_cas |-> x.dirty_cas]
      BY <1>10, <1>11, <3>2 DEF After
    <3>5. After(w, now, cur) = bare
      BY <1>11 DEF After
    <3> QED
      BY <1>8, <3>3, <3>4, <3>5
  <2>3. [d \in Client |-> After(w, now, d)] = clients
    BY <1>9, <2>2
  <2>4. Visited(w, now) = World3(w.slots, [k \in Key |-> Dequeue(w.watched[k], Struck(w, now))],
                                 [d \in Client |-> After(w, now, d)], w)
    BY <1>10, VisitedIs
  <2> QED
    BY <1>11, <2>3, <2>4
<1>13. ArrayWorld' = Visited(w, now)
  <2>1. \A ls, cs : World3(w.slots, ls, cs, w) = World3(heap.slots, ls, cs, heap)
    BY <1>10 DEF World3
  <2> QED
    BY <1>7, <1>12, <2>1
<1>14. /\ FrameIsSound'
       /\ <<key, cur>> \in Pending
       /\ \A k \in Key, c \in Client : <<k, c>> \in Pending'
            <=> <<k, c>> \in Pending \ now /\ c \notin {cur}
  <2>1. ~Blocks(heap, key, cur)
    BY <1>3 DEF Blocks
  <2>2. \A d \in Client : d # cur => (Blocks(heap', key, d) <=> Blocks(heap, key, d))
    BY <1>7, <1>8 DEF Blocks
  <2>3. \A k \in Key, d \in Client : k \in heap'.clients[d].watching
          <=> k \in heap.clients[d].watching /\ d \notin {cur}
    BY <1>7, <1>8
  <2>4. {cur} \in SUBSET {cur}
    OBVIOUS
  <2> QED
    BY <1>1, <2>1, <2>2, <2>3, <2>4, AdvancePending
<1>15. frame' # Idle /\ frame'.todo = frame.todo /\ frame'.result = frame.result
  BY <1>1, <1>2, AdvanceIs
<1>16. ResultIsAhead'
  <2>1. now \in SUBSET Pending
    BY <1>14
  <2>2. \A k \in Key, c \in Client : <<k, c>> \in Pending'
          <=> <<k, c>> \in Pending \ now /\ c \notin Struck(w, now)
    BY <1>11, <1>14
  <2> HIDE DEF now
  <2> QED
    BY <1>1, <1>2, <1>13, <1>15, <2>1, <2>2, VisitKeeps
<1> QED
  BY <1>2, <1>7, <1>14, <1>15, <1>16 DEF LoopIInv
\* The `return` in the loop: nobody behind a client that blocks was to be
\* visited anyway.
LEMMA AbandonKeeps ==
    ASSUME LoopIInv, Abandon
    PROVE  LoopIInv' /\ frame # Idle /\ frame' # Idle /\ frame'.result = frame.result
<1>1. TablesTied /\ FrameIsSound /\ ResultIsAhead /\ InLoop
      /\ frame' = [frame EXCEPT !.i = frame.n + 1] /\ UNCHANGED <<order, len, heap>>
  BY DEF LoopIInv, Abandon
<1>2. /\ frame # Idle /\ frame.i \in Nat /\ frame.n \in Nat /\ frame.i <= frame.n
  BY <1>1, CurrentIs
<1>3. /\ DOMAIN frame = {"calling", "key", "order", "n", "i", "todo", "result"}
      /\ frame.calling = TRUE
  BY <1>1, <1>2 DEF FrameIsSound
<1>4. /\ DOMAIN frame' = DOMAIN frame /\ frame'.calling = TRUE
      /\ frame'.key = frame.key /\ frame'.todo = frame.todo
      /\ frame'.result = frame.result /\ frame'.order = frame.order
      /\ frame'.n = frame.n /\ frame'.i = frame.n + 1
  BY <1>1, <1>3
<1>5. frame' # Idle
  BY <1>3, <1>4 DEF Idle
<1>6. ArrayWorld' = ArrayWorld /\ TablesTied'
  BY <1>1 DEF ArrayWorld, TablesTied
<1>7. FrameIsSound'
  BY <1>1, <1>2, <1>3, <1>4 DEF FrameIsSound
<1>8. PendingHere = {}
  <2>1. Blocks(heap, frame.key, frame.order[frame.i])
    BY DEF Abandon, Exempt, Blocks, Current
  <2>2. \A g \in frame.i..frame.n : frame.i \in frame.i..g
    BY <1>2
  <2> QED
    BY <2>1, <2>2 DEF PendingHere, Unblocked
<1>9. PendingHere' = {}
  <2>1. frame'.i..frame'.n = {}
    BY <1>2, <1>4
  <2> QED
    BY <2>1 DEF PendingHere, Unblocked
<1>10. PendingLater' = PendingLater
  BY <1>1, <1>4 DEF PendingLater
<1>11. Pending' = Pending
  BY <1>8, <1>9, <1>10 DEF Pending
<1>12. ResultIsAhead'
  BY <1>1, <1>2, <1>4, <1>6, <1>11 DEF ResultIsAhead, ArrayWorld
<1> QED
  BY <1>2, <1>4, <1>5, <1>6, <1>7, <1>12 DEF LoopIInv

-----------------------------------------------------------------------------
(***************************************************************************)
(* The calls                                                               *)
(***************************************************************************)
\* A visit depends on the pairs of keys and clients only.
LEMMA VisitedAlike ==
    ASSUME NEW w, IsWatchWorld(w), NEW pend, NEW other,
           \A k \in Key, c \in Client : <<k, c>> \in other <=> <<k, c>> \in pend
    PROVE  Visited(w, pend) = Visited(w, other)
<1>1. Struck(w, {}) = {}
  BY DEF Struck
<1>2. Visited(w, {}) = w
  BY VisitedNobody
<1>3. {} \in SUBSET pend
  OBVIOUS
<1>4. \A k \in Key, c \in Client :
        <<k, c>> \in other <=> <<k, c>> \in pend \ {} /\ c \notin Struck(w, {})
  BY <1>1
<1>5. Visited(w, pend) = Visited(Visited(w, {}), other)
  BY <1>3, <1>4, VisitedInTwo
<1> QED
  BY <1>2, <1>5

LEMMA BlankedNone ==
    ASSUME NEW w, IsWatchWorld(w)
    PROVE  Blanked(w, {}) = w
<1> DEFINE slots == [k \in Key |-> IF k \in {} THEN AbsentSlot ELSE w.slots[k]]
<1>1. slots = w.slots
  BY DEF IsWatchWorld
<1>2. Blanked(w, {}) = World3(slots, w.watched, w.clients, w)
  BY BlankedIs
<1> HIDE DEF slots
<1> QED
  BY <1>1, <1>2 DEF IsWatchWorld, HasFields

\* One key of the cycle is deleted: the rest is still to be.
LEMMA BlankedNext ==
    ASSUME NEW h, NEW o, NEW n, IsHeap(h), Tied(h, o, n), NEW ks, NEW k \in Key, k \in ks
    PROVE  LET x == WithSlot(h, k, AbsentSlot)
           IN Blanked(AsWorld(x, o, n), ks \ {k}) = Blanked(AsWorld(h, o, n), ks)
<1> DEFINE x == WithSlot(h, k, AbsentSlot)
           w == AsWorld(h, o, n)
           v == AsWorld(x, o, n)
           slots == [w.slots EXCEPT ![k] = AbsentSlot]
<1>1. IsWatchWorld(w)
  BY AsWorldIs
<1>2. IsHeap(x) /\ Tied(x, o, n) /\ v = World3(slots, w.watched, w.clients, w)
  BY SlotIs DEF WithSlotIs
<1> HIDE DEF x
<1>3. IsWatchWorld(v)
  BY <1>2, AsWorldIs
<1> HIDE DEF w, v, slots
<1>4. Blanked(v, ks \ {k}) =
        World3([j \in Key |-> IF j \in ks \ {k} THEN AbsentSlot ELSE v.slots[j]],
               v.watched, v.clients, v)
  BY <1>3, BlankedIs
<1>5. Blanked(w, ks) =
        World3([j \in Key |-> IF j \in ks THEN AbsentSlot ELSE w.slots[j]],
               w.watched, w.clients, w)
  BY <1>1, BlankedIs
<1>6. \A j \in Key : slots[j] = IF j = k THEN AbsentSlot ELSE w.slots[j]
  BY <1>1 DEF IsWatchWorld, slots
<1>7. /\ v.slots = slots /\ v.watched = w.watched /\ v.clients = w.clients
      /\ v.clock = w.clock /\ v.mode = w.mode /\ v.repl = w.repl /\ v.dirty = w.dirty
      /\ v.nesting = w.nesting
  BY <1>2 DEF World3
<1>8. [j \in Key |-> IF j \in ks \ {k} THEN AbsentSlot ELSE v.slots[j]]
        = [j \in Key |-> IF j \in ks THEN AbsentSlot ELSE w.slots[j]]
  BY <1>6, <1>7
<1>9. Blanked(v, ks \ {k}) = Blanked(w, ks)
  BY <1>4, <1>5, <1>7, <1>8 DEF World3
<1> QED
  BY <1>9 DEF v, w, x

LEMMA CallTouchKeeps ==
    ASSUME LoopIInv, NEW k \in Key, NEW slot, CallTouch(k, slot)
    PROVE  /\ LoopIInv' /\ frame = Idle /\ frame' # Idle
           /\ frame'.result = Touch(WithSlot(ArrayWorld, k, slot), {k})
<1> DEFINE w == ArrayWorld'
           pairs == ReachedPairs(w, {k})
<1>1. /\ TablesTied /\ frame = Idle /\ UNCHANGED <<order, len>>
      /\ heap' = WithSlot(heap, k, slot)
      /\ frame' = Snapshot(k, {}, Touch(w, {k}))
  BY DEF LoopIInv, CallTouch, ArrayWorld, WithSlot
<1>2. IsHeap(heap) /\ Tied(heap, order, len) /\ DOMAIN order = Key /\ DOMAIN len = Key
  BY <1>1 DEF TablesTied
<1>3. IsHeap(heap') /\ Tied(heap', order, len)
      /\ AsWorld(heap', order, len) = WithSlot(ArrayWorld, k, slot)
  <2> DEFINE x == WithSlot(heap, k, slot)
  <2>1. WithSlotIs(heap, order, len, k, slot)
    BY <1>2, SlotIs
  <2> HIDE DEF x
  <2>2. heap' = x
    BY <1>1 DEF x
  <2> QED
    BY <2>1, <2>2 DEF ArrayWorld, WithSlotIs, x
<1>4. TablesTied' /\ w = WithSlot(ArrayWorld, k, slot)
  BY <1>1, <1>2, <1>3 DEF TablesTied, ArrayWorld
<1>5. IsWatchWorld(w)
  BY <1>1, <1>3, AsWorldIs DEF ArrayWorld
<1> HIDE DEF w
<1>6. {} \in SUBSET (Key \ {k}) /\ {k} \in SUBSET Key
  OBVIOUS
<1>7. /\ FrameIsSound'
      /\ frame' # Idle /\ frame'.todo = {} /\ frame'.result = Touch(w, {k})
      /\ \A j, c : <<j, c>> \in Pending' <=>
           \/ j = k /\ c \in Client /\ c \in Reached(ArrayWorld', k)
           \/ j \in {} /\ c \in Client /\ j \in heap'.clients[c].watching
  BY <1>1, <1>4, <1>6, SnapshotSound
<1>8. Touch(w, {k}) = Visited(w, pairs)
  BY <1>5, <1>6, TouchIs
<1>9. \A j \in Key, c \in Client : <<j, c>> \in Pending' <=> <<j, c>> \in pairs
  BY <1>7 DEF ReachedPairs, w
<1> HIDE DEF pairs
<1>10. Visited(w, pairs) = Visited(w, Pending')
  BY <1>5, <1>9, VisitedAlike
<1>11. Blanked(w, {}) = w
  BY <1>5, BlankedNone
<1>12. ResultIsAhead'
  BY <1>7, <1>8, <1>10, <1>11 DEF ResultIsAhead, ArrayWorld, w
<1> QED
  BY <1>1, <1>4, <1>7, <1>12 DEF LoopIInv

\* The cycle deletes and touches the first of the keys that it finds due.
LEMMA CallCycleKeeps ==
    ASSUME LoopIInv, NEW ks \in SUBSET Key, CallCycle(ks)
    PROVE  /\ LoopIInv' /\ frame = Idle /\ frame' # Idle
           /\ frame'.result = Touch(Blanked(ArrayWorld, ks), ks)
<1> DEFINE w == ArrayWorld'
           x == Blanked(ArrayWorld, ks)
           pairs == ReachedPairs(x, ks)
<1>1. PICK k \in ks : /\ heap' = WithSlot(heap, k, AbsentSlot)
                      /\ frame' = Snapshot(k, ks \ {k}, Touch(x, ks))
  BY DEF CallCycle, Blanked, ArrayWorld, WithSlot
<1>2. TablesTied /\ frame = Idle /\ UNCHANGED <<order, len>> /\ k \in Key
  BY DEF LoopIInv, CallCycle
<1>3. IsHeap(heap) /\ Tied(heap, order, len) /\ DOMAIN order = Key /\ DOMAIN len = Key
  BY <1>2 DEF TablesTied
<1>4. /\ IsHeap(heap') /\ Tied(heap', order, len) /\ heap'.clients = heap.clients
      /\ w = World3([ArrayWorld.slots EXCEPT ![k] = AbsentSlot], ArrayWorld.watched,
                    ArrayWorld.clients, ArrayWorld)
  BY <1>1, <1>2, <1>3, SlotIs DEF ArrayWorld, WithSlotIs
<1>5. x = Blanked(w, ks \ {k})
  BY <1>1, <1>2, <1>3, BlankedNext DEF ArrayWorld
<1>6. IsWatchWorld(w) /\ IsWatchWorld(ArrayWorld) /\ ArrayWorld.clients = heap.clients
  BY <1>2, <1>4, AsWorldIs, ArrayWorldIs DEF ArrayWorld
<1>7. TablesTied'
  BY <1>2, <1>3, <1>4 DEF TablesTied
<1> HIDE DEF w
<1>8. /\ IsWatchWorld(x) /\ x.clients = heap.clients
      /\ \A j \in ks : ~x.slots[j].present
  <2>1. /\ x = World3([j \in Key |-> IF j \in ks THEN AbsentSlot ELSE ArrayWorld.slots[j]],
                      ArrayWorld.watched, ArrayWorld.clients, ArrayWorld)
        /\ IsWatchWorld(x)
    BY <1>6, BlankedIs
  <2> HIDE DEF x
  <2>2. /\ x.slots = [j \in Key |-> IF j \in ks THEN AbsentSlot ELSE ArrayWorld.slots[j]]
        /\ x.clients = heap.clients
    BY <1>6, <2>1 DEF World3
  <2>3. \A j \in ks : x.slots[j] = AbsentSlot
    BY <2>2
  <2> QED
    BY <2>1, <2>2, <2>3 DEF AbsentSlot
<1>9. ~w.slots[k].present
  <2>1. w.slots = [ArrayWorld.slots EXCEPT ![k] = AbsentSlot]
    BY <1>4 DEF World3
  <2>2. w.slots[k] = AbsentSlot
    BY <1>2, <1>6, <2>1 DEF IsWatchWorld
  <2> QED
    BY <2>2 DEF AbsentSlot
<1>10. w.clients = heap.clients
  BY <1>4, <1>6 DEF World3
<1> HIDE DEF x
<1>11. ks \ {k} \in SUBSET (Key \ {k})
  OBVIOUS
<1>12. /\ FrameIsSound'
       /\ frame' # Idle /\ frame'.todo = ks \ {k} /\ frame'.result = Touch(x, ks)
       /\ \A j, c : <<j, c>> \in Pending' <=>
            \/ j = k /\ c \in Client /\ c \in Reached(w, k)
            \/ j \in ks \ {k} /\ c \in Client /\ j \in heap'.clients[c].watching
  BY <1>1, <1>2, <1>7, <1>11, SnapshotSound DEF w
<1>13. Touch(x, ks) = Visited(x, pairs)
  BY <1>8, TouchIs
<1>14. \A j \in Key, c \in Client : <<j, c>> \in Pending' <=> <<j, c>> \in pairs
  <2> TAKE j \in Key, c \in Client
  <2>1. j \in ks => (c \in Reached(x, j) <=> j \in heap.clients[c].watching)
    BY <1>8, AbsentReached
  <2>2. c \in Reached(w, k) <=> k \in heap.clients[c].watching
    BY <1>2, <1>6, <1>9, <1>10, AbsentReached
  <2>3. <<j, c>> \in pairs <=> j \in ks /\ c \in Reached(x, j)
    BY DEF ReachedPairs
  <2> QED
    BY <1>4, <1>12, <2>1, <2>2, <2>3
<1> HIDE DEF pairs
<1>15. Visited(x, pairs) = Visited(x, Pending')
  BY <1>8, <1>14, VisitedAlike
<1>16. ResultIsAhead'
  BY <1>5, <1>12, <1>13, <1>15 DEF ResultIsAhead, ArrayWorld, w
<1> QED
  BY <1>2, <1>7, <1>12, <1>16 DEF LoopIInv, x

\* The cycle goes on to the next key.
LEMMA NextKeyKeeps ==
    ASSUME LoopIInv, NextKey
    PROVE  LoopIInv' /\ frame # Idle /\ frame' # Idle /\ frame'.result = frame.result
<1> DEFINE w == ArrayWorld'
           x == Blanked(ArrayWorld, frame.todo)
<1>1. PICK k \in frame.todo :
        /\ heap' = WithSlot(heap, k, AbsentSlot)
        /\ frame' = Snapshot(k, frame.todo \ {k}, frame.result)
  BY DEF NextKey, WithSlot
<1>2. /\ TablesTied /\ FrameIsSound /\ ResultIsAhead /\ UNCHANGED <<order, len>>
      /\ frame # Idle /\ frame.i > frame.n
  BY DEF LoopIInv, NextKey, Idle
<1>3. k \in Key /\ frame.todo \subseteq Key /\ frame.i \in Nat /\ frame.n \in Nat
  BY <1>2 DEF FrameIsSound
<1>4. IsHeap(heap) /\ Tied(heap, order, len) /\ DOMAIN order = Key /\ DOMAIN len = Key
  BY <1>2 DEF TablesTied
<1>5. /\ IsHeap(heap') /\ Tied(heap', order, len) /\ heap'.clients = heap.clients
      /\ w = World3([ArrayWorld.slots EXCEPT ![k] = AbsentSlot], ArrayWorld.watched,
                    ArrayWorld.clients, ArrayWorld)
  BY <1>1, <1>2, <1>3, <1>4, SlotIs DEF ArrayWorld, WithSlotIs
<1>6. x = Blanked(w, frame.todo \ {k})
  BY <1>1, <1>2, <1>3, <1>4, BlankedNext DEF ArrayWorld
<1>7. IsWatchWorld(w) /\ IsWatchWorld(ArrayWorld) /\ ArrayWorld.clients = heap.clients
  BY <1>2, <1>5, AsWorldIs, ArrayWorldIs DEF ArrayWorld
<1>8. TablesTied'
  BY <1>2, <1>4, <1>5 DEF TablesTied
<1> HIDE DEF w
<1>9. ~w.slots[k].present /\ w.clients = heap.clients
  <2>1. w.slots = [ArrayWorld.slots EXCEPT ![k] = AbsentSlot] /\ w.clients = heap.clients
    BY <1>5, <1>7 DEF World3
  <2>2. w.slots[k] = AbsentSlot
    BY <1>3, <1>7, <2>1 DEF IsWatchWorld
  <2> QED
    BY <2>1, <2>2 DEF AbsentSlot
<1>10. IsWatchWorld(x)
  BY <1>7, BlankedIs
<1> HIDE DEF x
<1>11. frame.todo \ {k} \in SUBSET (Key \ {k})
  BY <1>3
<1>12. /\ FrameIsSound'
       /\ frame' # Idle /\ frame'.todo = frame.todo \ {k} /\ frame'.result = frame.result
       /\ \A j, c : <<j, c>> \in Pending' <=>
            \/ j = k /\ c \in Client /\ c \in Reached(w, k)
            \/ j \in frame.todo \ {k} /\ c \in Client /\ j \in heap'.clients[c].watching
  BY <1>1, <1>2, <1>3, <1>8, <1>11, SnapshotSound DEF w
<1>13. \A j \in Key, c \in Client : <<j, c>> \in Pending
         <=> j \in frame.todo /\ j \in heap.clients[c].watching
  <2>1. frame.i..frame.n = {}
    BY <1>2, <1>3
  <2> QED
    BY <2>1, PendingIs
<1>14. \A j \in Key, c \in Client : <<j, c>> \in Pending' <=> <<j, c>> \in Pending
  <2> TAKE j \in Key, c \in Client
  <2>1. c \in Reached(w, k) <=> k \in heap.clients[c].watching
    BY <1>3, <1>7, <1>9, AbsentReached
  <2> QED
    BY <1>5, <1>12, <1>13, <2>1
<1>15. Visited(x, Pending) = Visited(x, Pending')
  BY <1>10, <1>14, VisitedAlike
<1>16. frame.result = Visited(x, Pending)
  BY <1>2 DEF ResultIsAhead, ArrayWorld, x
<1>17. ResultIsAhead'
  BY <1>6, <1>12, <1>15, <1>16 DEF ResultIsAhead, ArrayWorld, w
<1> QED
  BY <1>2, <1>8, <1>12, <1>17 DEF LoopIInv
\* Two fields of one client, assigned one after the other
LEMMA TwoFields ==
    ASSUME NEW h, HasFields(h), h.clients \in [Client -> ClientState], NEW c \in Client,
           NEW a, NEW b
    PROVE  [h EXCEPT !.clients[c].watching = a, !.clients[c].watched_expired = b]
             = World3(h.slots, h.watched,
                 [h.clients EXCEPT ![c] =
                    [watching |-> a, watched_expired |-> b, dirty_cas |-> h.clients[c].dirty_cas]],
                 h)
<1> DEFINE old == h.clients[c]
           one == [watching |-> a, watched_expired |-> old.watched_expired,
                   dirty_cas |-> old.dirty_cas]
           both == [watching |-> a, watched_expired |-> b, dirty_cas |-> old.dirty_cas]
           mid == [h EXCEPT !.clients[c].watching = a]
           cs1 == [h.clients EXCEPT ![c] = one]
           cs2 == [h.clients EXCEPT ![c] = both]
<1>1. [old EXCEPT !.watching = a] = one
  BY DEF ClientState
<1>2. mid = [h EXCEPT !.clients = cs1]
  <2>1. mid = [h EXCEPT !.clients[c] = [old EXCEPT !.watching = a]]
    OBVIOUS
  <2>2. mid = [h EXCEPT !.clients[c] = one]
    BY <1>1, <2>1
  <2> HIDE DEF one, mid
  <2> QED
    BY <2>2 DEF HasFields, World3
<1>3. cs1[c] = one /\ cs1 = [d \in Client |-> IF d = c THEN one ELSE h.clients[d]]
  OBVIOUS
<1>4. cs2 = [d \in Client |-> IF d = c THEN both ELSE h.clients[d]]
  OBVIOUS
<1>5. [h EXCEPT !.clients[c].watching = a, !.clients[c].watched_expired = b]
        = [mid EXCEPT !.clients[c].watched_expired = b]
  OBVIOUS
<1> HIDE DEF cs1, mid
<1>6. mid = World3(h.slots, h.watched, cs1, h)
  BY <1>2 DEF HasFields, World3
<1>7. [one EXCEPT !.watched_expired = b] = both
  OBVIOUS
<1> HIDE DEF one, both
<1>8. [mid EXCEPT !.clients[c].watched_expired = b]
        = [mid EXCEPT !.clients[c] = [one EXCEPT !.watched_expired = b]]
  BY <1>3, <1>6 DEF World3
<1>9. [mid EXCEPT !.clients[c].watched_expired = b] = [mid EXCEPT !.clients[c] = both]
  BY <1>7, <1>8
<1>10. [cs1 EXCEPT ![c] = both] = cs2
  BY <1>3, <1>4
<1> HIDE DEF cs2
<1>11. [mid EXCEPT !.clients[c] = both] = World3(h.slots, h.watched, cs2, h)
  BY <1>6, <1>10 DEF World3
<1> QED
  BY <1>5, <1>9, <1>11 DEF cs2, both, old

\* watch_key appends the client, and the world is what WatchKey says.
LEMMA DoWatchKeyKeeps ==
    ASSUME LoopIInv, NEW c \in Client, NEW k \in Key, DoWatchKey(c, k)
    PROVE  /\ LoopIInv' /\ frame = Idle /\ frame' = Idle
           /\ ArrayWorld' = WatchKey(ArrayWorld, c, k)
<1> DEFINE old == heap.clients[c]
           w == ArrayWorld
           due == heap.slots[k].present /\ KeyIsExpired(heap, k)
           a == old.watching \cup {k}
           b == IF due THEN old.watched_expired \cup {k} ELSE old.watched_expired \ {k}
           new == [watching |-> a, watched_expired |-> b, dirty_cas |-> old.dirty_cas]
           clients == [heap.clients EXCEPT ![c] = new]
           longer == [order[k] EXCEPT ![len[k] + 1] = c]
           lists == [w.watched EXCEPT ![k] = AddTail(@, c)]
<1>1. TablesTied /\ frame = Idle /\ frame' = Idle /\ k \notin old.watching
  BY DEF LoopIInv, DoWatchKey
<1>2. /\ IsHeap(heap) /\ Tied(heap, order, len) /\ DOMAIN order = Key /\ DOMAIN len = Key
      /\ HasFields(heap) /\ heap.clients \in [Client -> ClientState]
      /\ old \in ClientState /\ old.watched_expired \subseteq old.watching
  BY <1>1 DEF TablesTied, IsHeap
<1>3. heap' = World3(heap.slots, heap.watched, clients, heap)
  <2>1. heap' = [heap EXCEPT !.clients[c].watching = a, !.clients[c].watched_expired = b]
    BY <1>2 DEF DoWatchKey
  <2> HIDE DEF a, b
  <2>2. [heap EXCEPT !.clients[c].watching = a, !.clients[c].watched_expired = b]
          = World3(heap.slots, heap.watched, clients, heap)
    BY <1>2, TwoFields
  <2> QED
    BY <2>1, <2>2
<1>4. /\ new \in ClientState /\ b \subseteq a
  <2>1. b \subseteq a
    BY <1>2
  <2> QED
    BY <1>2, <2>1 DEF ClientState
<1>5. \A d \in Client : clients[d] = IF d = c THEN new ELSE heap.clients[d]
  BY <1>2
<1>6. clients \in [Client -> ClientState]
  BY <1>2, <1>4
<1>7. \A d \in Client : /\ clients[d].watched_expired \subseteq clients[d].watching
                        /\ clients[d].watching = IF d = c THEN old.watching \cup {k}
                                                 ELSE heap.clients[d].watching
  BY <1>2, <1>4, <1>5 DEF IsHeap
<1> HIDE DEF clients
<1>8. /\ heap'.slots = heap.slots /\ heap'.watched = heap.watched
      /\ heap'.clients = clients /\ HasFields(heap')
      /\ heap'.clock = heap.clock /\ heap'.mode = heap.mode /\ heap'.repl = heap.repl
      /\ heap'.dirty = heap.dirty /\ heap'.nesting = heap.nesting
  BY <1>3 DEF World3, HasFields
<1>9. IsHeap(heap')
  BY <1>2, <1>6, <1>7, <1>8 DEF IsHeap
<1>10. IsArray(order[k], len[k]) /\ ~HoldsAt(order[k], len[k], c)
  BY <1>1, <1>2 DEF Tied
<1>11. /\ len[k] < C
       /\ IsArray(longer, len[k] + 1)
       /\ \A d \in Client : HoldsAt(longer, len[k] + 1, d)
                              <=> HoldsAt(order[k], len[k], d) \/ d = c
       /\ ListOf(longer, len[k] + 1) = AddTail(ListOf(order[k], len[k]), c)
  BY <1>10, AppendIs
<1>12. order' = [order EXCEPT ![k] = longer] /\ len' = [len EXCEPT ![k] = @ + 1]
  BY <1>11 DEF DoWatchKey
<1> HIDE DEF longer
<1>13. /\ DOMAIN order' = Key /\ DOMAIN len' = Key
       /\ order'[k] = longer /\ len'[k] = len[k] + 1
       /\ \A j \in Key : j # k => order'[j] = order[j] /\ len'[j] = len[j]
  BY <1>2, <1>12
<1>14. Tied(heap', order', len')
  <2>1. \A j \in Key : IsArray(order'[j], len'[j])
    BY <1>2, <1>11, <1>13 DEF Tied
  <2>2. \A j \in Key, d \in Client :
          j \in clients[d].watching <=> HoldsAt(order'[j], len'[j], d)
    <3> TAKE j \in Key, d \in Client
    <3>1. j \in heap.clients[d].watching <=> HoldsAt(order[j], len[j], d)
      BY <1>2 DEF Tied
    <3>2. CASE j = k
      BY <1>7, <1>11, <1>13, <3>1, <3>2
    <3>3. CASE j # k
      BY <1>7, <1>13, <3>1, <3>3
    <3> QED
      BY <3>2, <3>3
  <2> QED
    BY <1>8, <2>1, <2>2 DEF Tied
<1>15. LoopIInv'
  BY <1>1, <1>9, <1>13, <1>14 DEF LoopIInv, TablesTied, FrameIsSound, ResultIsAhead
<1>16. /\ IsWatchWorld(w) /\ w = World3(heap.slots, Lists(order, len), heap.clients, heap)
       /\ w.watched = Lists(order, len) /\ w.clients = heap.clients /\ w.slots = heap.slots
       /\ w.clock = heap.clock /\ w.mode = heap.mode
  <2>1. IsWatchWorld(w) /\ w = World3(heap.slots, Lists(order, len), heap.clients, heap)
    BY <1>2, AsWorldIs DEF ArrayWorld
  <2> HIDE DEF w
  <2> QED
    BY <2>1 DEF World3
<1>17. Lists(order', len') = lists
  <2>1. \A j \in Key : ListOf(order'[j], len'[j])
          = IF j = k THEN AddTail(ListOf(order[k], len[k]), c) ELSE ListOf(order[j], len[j])
    BY <1>11, <1>13
  <2>2. \A j \in Key : w.watched[j] = ListOf(order[j], len[j])
    BY <1>16 DEF Lists
  <2>3. w.watched = [j \in Key |-> w.watched[j]]
    BY <1>16 DEF Lists
  <2> HIDE DEF w
  <2>4. lists = [j \in Key |-> IF j = k THEN AddTail(w.watched[k], c) ELSE w.watched[j]]
    BY <2>3
  <2> QED
    BY <2>1, <2>2, <2>4 DEF Lists
<1>18. ArrayWorld' = World3(heap.slots, lists, clients, heap)
  <2>1. ArrayWorld' = World3(heap'.slots, Lists(order', len'), heap'.clients, heap')
    BY <1>9, <1>14, AsWorldIs DEF ArrayWorld
  <2> QED
    BY <1>8, <1>17, <2>1 DEF World3
<1>19. WatchKey(w, c, k) = World3(heap.slots, lists, clients, heap)
  <2> HIDE DEF w
  <2> DEFINE now == w.slots[k].present /\ KeyIsExpired(w, k)
             y == [w EXCEPT !.clients[c].watching = a, !.clients[c].watched_expired = b]
  <2>1. now <=> due
    BY <1>16 DEF KeyIsExpired
  <2> HIDE DEF now
  <2>2. WatchKey(w, c, k) =
          [w EXCEPT !.clients[c].watching = @ \cup {k},
                    !.clients[c].watched_expired = IF now THEN @ \cup {k} ELSE @ \ {k},
                    !.watched[k] = AddTail(@, c)]
    BY <1>1, <1>16 DEF WatchKey, now
  <2> HIDE DEF due
  <2>3. [w EXCEPT !.clients[c].watching = @ \cup {k},
                  !.clients[c].watched_expired = IF now THEN @ \cup {k} ELSE @ \ {k},
                  !.watched[k] = AddTail(@, c)]
          = [y EXCEPT !.watched[k] = AddTail(@, c)]
    <3>1. w.clients[c].watching = old.watching
          /\ w.clients[c].watched_expired = old.watched_expired
      BY <1>16
    <3> QED
      BY <1>2, <1>16, <2>1, <3>1 DEF World3, ClientState
  <2> HIDE DEF a, b
  <2>4. HasFields(w) /\ w.clients \in [Client -> ClientState]
    BY <1>16 DEF IsWatchWorld
  <2>5. y = World3(w.slots, w.watched,
              [w.clients EXCEPT ![c] = [watching |-> a, watched_expired |-> b,
                                        dirty_cas |-> w.clients[c].dirty_cas]], w)
    BY <2>4, TwoFields
  <2>6. y = World3(w.slots, w.watched, clients, w)
    BY <1>16, <2>5 DEF clients
  <2> HIDE DEF y
  <2>7. [y EXCEPT !.watched[k] = AddTail(@, c)] = World3(w.slots, lists, clients, w)
    BY <2>6 DEF World3
  <2>8. World3(w.slots, lists, clients, w) = World3(heap.slots, lists, clients, heap)
    <3> HIDE DEF lists
    <3>1. \A ls, cs : World3(w.slots, ls, cs, w) = World3(heap.slots, ls, cs, heap)
      BY <1>16 DEF World3
    <3> QED
      BY <3>1
  <2> QED
    BY <2>2, <2>3, <2>7, <2>8
<1> QED
  BY <1>1, <1>15, <1>18, <1>19
LEMMA DoUnwatchKeeps ==
    ASSUME LoopIInv, NEW c \in Client, DoUnwatchAll(c)
    PROVE  /\ LoopIInv' /\ frame = Idle /\ frame' = Idle
           /\ ArrayWorld' = UnwatchAll(ArrayWorld, {c})
<1> DEFINE w == ArrayWorld
           old == heap.clients[c]
           bare == [watching |-> {}, watched_expired |-> {}, dirty_cas |-> old.dirty_cas]
           clients == [heap.clients EXCEPT ![c] = bare]
<1>1. TablesTied /\ frame = Idle /\ frame' = Idle /\ Unwatch(c, old)
  BY DEF LoopIInv, DoUnwatchAll
<1>2. IsHeap(heap) /\ old \in ClientState /\ heap.clients \in [Client -> ClientState]
  BY <1>1 DEF TablesTied, IsHeap
<1>3. /\ TablesTied'
      /\ ArrayWorld' = World3(heap.slots, [k \in Key |-> Dequeue(w.watched[k], {c})],
                              clients, heap)
  BY <1>1, <1>2, UnwatchIs
<1>4. LoopIInv'
  BY <1>1, <1>3 DEF LoopIInv, FrameIsSound, ResultIsAhead
<1>5. IsWatchWorld(w) /\ w.clients = heap.clients
      /\ w = World3(heap.slots, w.watched, heap.clients, heap)
  BY <1>1, ArrayWorldIs
<1>6. UnwatchAll(w, {c}) =
        World3(w.slots, [k \in Key |-> Dequeue(w.watched[k], {c})],
               [d \in Client |-> IF d \in {c}
                                 THEN [watching |-> {}, watched_expired |-> {},
                                       dirty_cas |-> w.clients[d].dirty_cas]
                                 ELSE w.clients[d]], w)
  BY <1>5, UnwatchAllIs
<1>7. [d \in Client |-> IF d \in {c}
                        THEN [watching |-> {}, watched_expired |-> {},
                              dirty_cas |-> w.clients[d].dirty_cas]
                        ELSE w.clients[d]] = clients
  BY <1>2, <1>5
<1> HIDE DEF clients, w
<1>8. \A ls : World3(w.slots, ls, clients, w) = World3(heap.slots, ls, clients, heap)
  BY <1>5 DEF World3
<1>9. UnwatchAll(w, {c}) =
        World3(heap.slots, [k \in Key |-> Dequeue(w.watched[k], {c})], clients, heap)
  BY <1>6, <1>7, <1>8
<1> QED
  BY <1>1, <1>3, <1>4, <1>9 DEF w

\* When nobody is left, the arrays are the result.
LEMMA FinishedIs ==
    ASSUME LoopIInv, Finished
    PROVE  ArrayWorld = frame.result
<1>1. /\ TablesTied /\ FrameIsSound /\ ResultIsAhead /\ frame # Idle
      /\ frame.i > frame.n /\ frame.todo = {}
  BY DEF LoopIInv, Finished, Idle
<1>2. IsWatchWorld(ArrayWorld)
  BY <1>1, ArrayWorldIs
<1>3. frame.i..frame.n = {}
  BY <1>1 DEF FrameIsSound
<1>4. \A k, c : <<k, c>> \notin Pending
  BY <1>1, <1>3, PendingIs
<1>5. Visited(ArrayWorld, Pending) = ArrayWorld
  BY <1>2, <1>4, VisitedNobody
<1>6. Blanked(ArrayWorld, {}) = ArrayWorld
  BY <1>2, BlankedNone
<1> QED
  BY <1>1, <1>5, <1>6 DEF ResultIsAhead, ArrayWorld

LEMMA ReturnKeeps ==
    ASSUME LoopIInv, Return
    PROVE  /\ LoopIInv' /\ frame # Idle /\ frame' = Idle
           /\ ArrayWorld' = frame.result
<1>1. ArrayWorld = frame.result
  BY FinishedIs DEF Return
<1>2. frame # Idle /\ frame' = Idle /\ UNCHANGED <<order, len, heap>>
  BY DEF Return, Finished, Idle
<1> QED
  BY <1>1, <1>2 DEF LoopIInv, TablesTied, FrameIsSound, ResultIsAhead, ArrayWorld

-----------------------------------------------------------------------------
(***************************************************************************)
(* The initial states                                                      *)
(***************************************************************************)
LEMMA LoopInitIs ==
    ASSUME LoopInit
    PROVE  LoopIInv /\ ArrayWorld \in NondetWorld(MaxClock, StandaloneMaster)
<1>1. PICK s \in [Key -> DrawnSlot] : heap = NewWorld(s, MaxClock, StandaloneMaster)
  BY DEF LoopInit, NondetWorld
<1>2. /\ HasFields(heap) /\ heap.slots = s /\ heap.watched = [k \in Key |-> {}]
      /\ heap.clients = [c \in Client |-> FreshClient]
  BY <1>1 DEF HasFields, World3, NewWorld
<1>3. FreshClient \in ClientState /\ FreshClient.watched_expired \subseteq FreshClient.watching
      /\ FreshClient.watching = {}
  BY DEF FreshClient, ClientState
<1>4. IsHeap(heap)
  BY <1>2, <1>3 DEF IsHeap
<1>5. C \in Nat
  BY KeysAssumption, FS_CardinalityType DEF C
<1>6. \A k \in Key : IsArray(order[k], len[k]) /\ \A c \in Client : ~HoldsAt(order[k], len[k], c)
  <2> TAKE k \in Key
  <2>1. order[k] = [i \in 1..C |-> Nobody] /\ len[k] = 0
    BY DEF LoopInit
  <2>2. \A i \in 1..C : order[k][i] \in Client <=> i <= len[k]
    BY <1>5, <2>1, NobodyAssumption
  <2>3. order[k] \in [1..C -> Client \cup {Nobody}] /\ len[k] \in 0..C
    BY <1>5, <2>1
  <2>4. 1..len[k] = {}
    BY <2>1
  <2> QED
    BY <2>2, <2>3, <2>4 DEF IsArray, HoldsAt
<1>7. Tied(heap, order, len)
  BY <1>2, <1>3, <1>6 DEF Tied
<1>8. TablesTied
  BY <1>4, <1>7 DEF TablesTied, LoopInit
<1>9. LoopIInv
  BY <1>8 DEF LoopIInv, LoopInit, FrameIsSound, ResultIsAhead
<1>10. ArrayWorld = heap
  <2>1. \A k \in Key : ListOf(order[k], len[k]) = {}
    <3> TAKE k \in Key
    <3>1. 1..len[k] = {}
      BY DEF LoopInit
    <3> QED
      BY <3>1 DEF ListOf
  <2>2. Lists(order, len) = heap.watched
    BY <1>2, <2>1 DEF Lists
  <2>3. ArrayWorld = World3(heap.slots, Lists(order, len), heap.clients, heap)
    BY <1>4, <1>7, AsWorldIs DEF ArrayWorld
  <2> QED
    BY <1>2, <2>2, <2>3 DEF HasFields
<1> QED
  BY <1>1, <1>9, <1>10 DEF NondetWorld

-----------------------------------------------------------------------------
(***************************************************************************)
(* The specification                                                       *)
(***************************************************************************)
LEMMA LoopStepKeeps ==
    ASSUME LoopIInv, [LoopNext]_loopVars
    PROVE  LoopIInv'
<1>1. CASE \E c \in Client, k \in Key : DoWatchKey(c, k)
  BY <1>1, DoWatchKeyKeeps
<1>2. CASE \E c \in Client : DoUnwatchAll(c)
  BY <1>2, DoUnwatchKeeps
<1>3. CASE \E k \in Key, slot \in DrawnSlot : CallTouch(k, slot)
  BY <1>3, CallTouchKeeps
<1>4. CASE \E ks \in SUBSET Key : CallCycle(ks)
  BY <1>4, CallCycleKeeps
<1>5. CASE SkipClient
  BY <1>5, SkipKeeps
<1>6. CASE Abandon
  BY <1>6, AbandonKeeps
<1>7. CASE DirtyClient
  BY <1>7, DirtyKeeps
<1>8. CASE NextKey
  BY <1>8, NextKeyKeeps
<1>9. CASE Return
  BY <1>9, ReturnKeeps
<1>10. CASE UNCHANGED loopVars
  BY <1>10 DEF loopVars, LoopIInv, TablesTied, FrameIsSound, ResultIsAhead,
               Pending, PendingHere, PendingLater
<1> QED
  BY <1>1, <1>2, <1>3, <1>4, <1>5, <1>6, <1>7, <1>8, <1>9, <1>10 DEF LoopNext

\* The array and the flags agree, the running loop's snapshot is sound, and
\* visiting who is left leads to the result of the call: always.
THEOREM LoopInvariant == LoopSpec => []LoopIInv
<1>1. LoopInit => LoopIInv
  BY LoopInitIs
<1>2. LoopIInv /\ [LoopNext]_loopVars => LoopIInv'
  BY LoopStepKeeps
<1> QED
  BY <1>1, <1>2, PTL DEF LoopSpec

\* When touch_watched_key, or the whole active cycle, has run to its end,
\* the tables hold exactly the world that the atomic Touch computed when the
\* call was made, for any number of keys and watchers.
THEOREM LoopReturnsWhatWatchSays == LoopSpec => []ReturnsWhatWatchSays
<1>1. LoopIInv => ReturnsWhatWatchSays
  BY FinishedIs DEF ReturnsWhatWatchSays, ArrayWorld
<1> QED
  BY <1>1, LoopInvariant, PTL

\* The number of entries of an array is the number of clients that watch.
LEMMA LengthIs ==
    ASSUME NEW o, NEW n, IsArray(o, n)
    PROVE  Cardinality({c \in Client : HoldsAt(o, n, c)}) = n
<1> DEFINE S == {c \in Client : HoldsAt(o, n, c)}
           f == [i \in 1..n |-> o[i]]
<1>1. n \in Nat /\ \A i \in 1..n : o[i] \in Client
  BY ArrayClients
<1>2. f \in Bijection(1..n, S)
  <2>1. \A i \in 1..n : f[i] \in S
    BY <1>1 DEF HoldsAt
  <2>2. \A i, j \in 1..n : f[i] = f[j] => i = j
    BY DEF IsArray
  <2>3. \A c \in S : \E i \in 1..n : f[i] = c
    BY DEF HoldsAt
  <2> HIDE DEF S
  <2> QED
    BY <2>1, <2>2, <2>3 DEF Bijection, Injection, Surjection, IsInjective
<1>3. IsFiniteSet(1..n) /\ Cardinality(1..n) = n
  BY <1>1, FS_Interval
<1> HIDE DEF S, f
<1>4. Cardinality(S) = n
  BY <1>2, <1>3, FS_Bijection DEF ExistsBijection
<1> QED
  BY <1>4 DEF S

\* The loop meets only clients that watch the key at that moment, although
\* clients leave the lists while it runs over its snapshot, and add_tail never
\* finds the array full: there are as many entries as watchers.
THEOREM LoopVisitsWatchers == LoopSpec => []LoopVisitsWatchersOnce
<1>1. ASSUME LoopIInv PROVE LoopVisitsWatchersOnce
  <2>1. TablesTied /\ FrameIsSound
    BY <1>1 DEF LoopIInv
  <2>2. \A k \in Key : Cardinality({c \in Client : k \in heap.clients[c].watching}) = len[k]
    <3> TAKE k \in Key
    <3>1. IsArray(order[k], len[k])
      BY <2>1 DEF TablesTied, Tied
    <3>2. {c \in Client : k \in heap.clients[c].watching}
            = {c \in Client : HoldsAt(order[k], len[k], c)}
      BY <2>1 DEF TablesTied, Tied
    <3> QED
      BY <3>1, <3>2, LengthIs
  <2>3. InLoop => Current \in Client /\ frame.key \in heap.clients[Current].watching
    BY <2>1, CurrentIs
  <2> QED
    BY <2>2, <2>3 DEF LoopVisitsWatchersOnce
<1> QED
  BY <1>1, LoopInvariant, PTL

-----------------------------------------------------------------------------
(***************************************************************************)
(* The refinement.  A call takes effect when it is made; the iterations    *)
(* and the return are stuttering steps of module WatchCalls.               *)
(***************************************************************************)
CallsWorld == IF frame = Idle THEN ArrayWorld ELSE frame.result

LEMMA CallsOperators ==
    /\ \A w, c, k : Calls!WatchKey(w, c, k) = WatchKey(w, c, k)
    /\ \A w, cs : Calls!UnwatchAll(w, cs) = UnwatchAll(w, cs)
    /\ \A w, ks : Calls!Touch(w, ks) = Touch(w, ks)
    /\ \A m, x : Calls!NondetWorld(m, x) = NondetWorld(m, x)
<1>1. \A S : Calls!Cardinality(S) = Cardinality(S)
  BY DEF Calls!Cardinality, Cardinality
<1>2. \A w, c, k : Calls!WatchKey(w, c, k) = WatchKey(w, c, k)
  <2>1. \A list, c : Calls!AddTail(list, c) = AddTail(list, c)
    BY <1>1 DEF Calls!AddTail, AddTail, Calls!Members, Members
  <2>2. \A w, k : Calls!KeyIsExpired(w, k) <=> KeyIsExpired(w, k)
    BY DEF Calls!KeyIsExpired, KeyIsExpired, Calls!NoExpire, NoExpire
  <2> SUFFICES ASSUME NEW w, NEW c, NEW k PROVE Calls!WatchKey(w, c, k) = WatchKey(w, c, k)
    OBVIOUS
  <2> DEFINE es == w.clients[c].watched_expired
             made(flags, list) == [w EXCEPT
               !.clients[c].watching = @ \cup {k},
               !.clients[c].watched_expired = flags,
               !.watched[k] = list]
             f == IF w.slots[k].present /\ KeyIsExpired(w, k) THEN es \cup {k} ELSE es \ {k}
             g == IF w.slots[k].present /\ Calls!KeyIsExpired(w, k)
                  THEN es \cup {k} ELSE es \ {k}
             s == AddTail(w.watched[k], c)
             t == Calls!AddTail(w.watched[k], c)
  <2>3. f = g
    BY <2>2
  <2>4. s = t
    BY <2>1
  <2>5. WatchKey(w, c, k) = IF k \in w.clients[c].watching THEN w ELSE made(f, s)
    BY DEF WatchKey
  <2>6. Calls!WatchKey(w, c, k) = IF k \in w.clients[c].watching THEN w ELSE made(g, t)
    BY DEF Calls!WatchKey
  <2> HIDE DEF made, f, g, s, t
  <2> QED
    BY <2>3, <2>4, <2>5, <2>6
<1>3. \A w, cs : Calls!UnwatchAll(w, cs) = UnwatchAll(w, cs)
  BY DEF Calls!UnwatchAll, UnwatchAll, Calls!Dequeue, Dequeue
<1>4. \A w, ks : Calls!Touch(w, ks) = Touch(w, ks)
  <2>1. \A w, k : Calls!Reached(w, k) = Reached(w, k)
    BY DEF Calls!Reached, Reached, Calls!Watchers, Watchers, Calls!Members, Members,
           Calls!Blocks, Blocks
  <2> QED
    BY <1>3, <2>1 DEF Calls!Touch, Touch
<1>5. \A m, x : Calls!NondetWorld(m, x) = NondetWorld(m, x)
  BY DEF Calls!NondetWorld, NondetWorld, Calls!NewWorld, NewWorld, Calls!FreshClient,
         FreshClient, Calls!DrawnSlot, DrawnSlot, Calls!AbsentSlot, AbsentSlot,
         Calls!NoExpire, NoExpire
<1> QED
  BY <1>2, <1>3, <1>4, <1>5
\* A step of the arrays is a step of the calls, or changes nothing for them.
LEMMA StepRefines ==
    ASSUME LoopIInv, [LoopNext]_loopVars
    PROVE  Calls!CallsNext \/ CallsWorld' = CallsWorld
<1>1. ASSUME NEW c \in Client, NEW k \in Key, DoWatchKey(c, k) PROVE Calls!CallsNext
  <2>1. CallsWorld' = Calls!WatchKey(CallsWorld, c, k)
    BY <1>1, DoWatchKeyKeeps, CallsOperators DEF CallsWorld
  <2> QED
    BY <2>1 DEF Calls!CallsNext, Calls!Watching, CallsWorld, ArrayWorld
<1>2. ASSUME NEW c \in Client, DoUnwatchAll(c) PROVE Calls!CallsNext
  <2>1. CallsWorld' = Calls!UnwatchAll(CallsWorld, {c})
    BY <1>2, DoUnwatchKeeps, CallsOperators DEF CallsWorld
  <2> QED
    BY <2>1 DEF Calls!CallsNext, Calls!Unwatching, CallsWorld, ArrayWorld
<1>3. ASSUME NEW k \in Key, NEW slot \in DrawnSlot, CallTouch(k, slot) PROVE Calls!CallsNext
  <2>1. CallsWorld' = Calls!Touch(WithSlot(CallsWorld, k, slot), {k})
    BY <1>3, CallTouchKeeps, CallsOperators DEF CallsWorld
  <2>2. slot \in Calls!DrawnSlot
    BY DEF Calls!DrawnSlot, DrawnSlot, Calls!AbsentSlot, AbsentSlot, Calls!NoExpire, NoExpire
  <2> QED
    BY <2>1, <2>2 DEF Calls!CallsNext, Calls!Modification, CallsWorld, ArrayWorld, WithSlot
<1>4. ASSUME NEW ks \in SUBSET Key, CallCycle(ks) PROVE Calls!CallsNext
  <2>1. CallsWorld' = Calls!Touch(Blanked(CallsWorld, ks), ks)
    BY <1>4, CallCycleKeeps, CallsOperators DEF CallsWorld
  <2>2. Blanked(CallsWorld, ks) = [CallsWorld EXCEPT
          !.slots = [k \in Key |-> IF k \in ks THEN Calls!AbsentSlot ELSE @[k]]]
    BY DEF Blanked, Calls!AbsentSlot, AbsentSlot, Calls!NoExpire, NoExpire
  <2>3. CallsWorld' = Calls!Touch([CallsWorld EXCEPT
          !.slots = [k \in Key |-> IF k \in ks THEN Calls!AbsentSlot ELSE @[k]]], ks)
    BY <2>1, <2>2
  <2> QED
    BY <2>3 DEF Calls!CallsNext, Calls!Expiry, CallsWorld, ArrayWorld
<1>5. ASSUME SkipClient \/ Abandon \/ DirtyClient \/ NextKey PROVE CallsWorld' = CallsWorld
  <2>1. frame # Idle /\ frame' # Idle /\ frame'.result = frame.result
    BY <1>5, SkipKeeps, AbandonKeeps, DirtyKeeps, NextKeyKeeps
  <2> QED
    BY <2>1 DEF CallsWorld
<1>6. ASSUME Return PROVE CallsWorld' = CallsWorld
  BY <1>6, ReturnKeeps DEF CallsWorld
<1>7. ASSUME UNCHANGED loopVars PROVE CallsWorld' = CallsWorld
  BY <1>7 DEF loopVars, CallsWorld, ArrayWorld
<1> QED
  BY <1>1, <1>2, <1>3, <1>4, <1>5, <1>6, <1>7 DEF LoopNext

\* The array loops of model/watch.rs, with their early return and with clients
\* that leave lists under the loop's snapshot, implement the atomic operators
\* that the rest of the model uses, for any number of keys and clients.
THEOREM LoopImplementsCalls == LoopSpec => ImplementsWatchCalls
<1>1. LoopInit => Calls!CallsInit
  <2> SUFFICES ASSUME LoopInit PROVE Calls!CallsInit
    OBVIOUS
  <2>1. CallsWorld \in NondetWorld(MaxClock, StandaloneMaster)
    BY LoopInitIs DEF CallsWorld, LoopInit
  <2>2. CallsWorld \in Calls!NondetWorld(MaxClock, Calls!StandaloneMaster)
    BY <2>1, CallsOperators DEF Calls!StandaloneMaster, StandaloneMaster
  <2> QED
    BY <2>2 DEF Calls!CallsInit, CallsWorld, ArrayWorld
<1>2. LoopIInv /\ [LoopNext]_loopVars => Calls!CallsNext \/ CallsWorld' = CallsWorld
  BY StepRefines
<1>3. CallsWorld = IF frame = Idle THEN AsWorld(heap, order, len) ELSE frame.result
  BY DEF CallsWorld, ArrayWorld
<1>4. LoopIInv /\ [LoopNext]_loopVars => Calls!CallsNext
        \/ UNCHANGED (IF frame = Idle THEN AsWorld(heap, order, len) ELSE frame.result)
  BY <1>2 DEF CallsWorld, ArrayWorld
<1> QED
  BY <1>1, <1>4, LoopInvariant, PTL DEF LoopSpec, ImplementsWatchCalls, Calls!CallsSpec
=============================================================================
