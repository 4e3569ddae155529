----------------------------- MODULE StepProofs ----------------------------
(***************************************************************************)
(* Proofs of the invariants of module Properties, for every value of the   *)
(* constants.                                                              *)
(*                                                                         *)
(* The inductive invariant is Sound(world): the world is well typed, absent*)
(* slots are blank, the two views of WATCH agree and, where write lookups  *)
(* delete, no flag "already expired" is stale.  The parts need each other: *)
(* a touch clears the flags of exactly the clients in the key's list, so   *)
(* that flags stay fresh only because list and flags agree.  The operators *)
(* are taken bottom up: watcher lists, touch_watched_key, deletion, lookup,*)
(* write, command, execution unit, step.                                   *)
(***************************************************************************)
EXTENDS Properties, FiniteSetTheorems, SequenceTheorems, TLAPS

\* Taking clients out of a watcher list (WatchTable::remove) leaves the others
\* in their order.
LEMMA DequeueOrdered ==
    ASSUME NEW list \in SUBSET (Client \X Client), Ordered(list), NEW cs
    PROVE  /\ Dequeue(list, cs) \in SUBSET (Client \X Client)
           /\ Members(Dequeue(list, cs)) = Members(list) \ cs
           /\ Ordered(Dequeue(list, cs))
  BY DEF Dequeue, Members, Ordered

\* A list that lacks a client has room for it, so add_tail does not drop it.
LEMMA MemberRoom ==
    ASSUME NEW list, NEW c \in Client, c \notin Members(list)
    PROVE  Cardinality(Members(list)) < Cardinality(Client)
<1>1. Members(list) \subseteq Client /\ Members(list) # Client
  BY DEF Members
<1>2. IsFiniteSet(Client)
  BY KeysAssumption
<1> QED
  BY <1>1, <1>2, FS_Subset, FS_CardinalityType

\* add_tail puts the client behind all the others.
LEMMA AddTailOrdered ==
    ASSUME NEW list \in SUBSET (Client \X Client), Ordered(list),
           NEW c \in Client, c \notin Members(list)
    PROVE  /\ AddTail(list, c) \in SUBSET (Client \X Client)
           /\ Members(AddTail(list, c)) = Members(list) \cup {c}
           /\ Ordered(AddTail(list, c))
<1> DEFINE longer == list \cup {<<d, c>> : d \in Members(list) \cup {c}}
<1>1. AddTail(list, c) = longer
  BY MemberRoom DEF AddTail
<1>2. Members(longer) = Members(list) \cup {c}
  BY DEF Members
<1>3. longer \in SUBSET (Client \X Client)
  <2>1. \A d \in Members(list) \cup {c} : <<d, c>> \in Client \X Client
    BY DEF Members
  <2> QED
    BY <2>1
<1>4. \A a, b \in Client : <<a, b>> \in longer
                             <=> <<a, b>> \in list \/ (b = c /\ a \in Members(list) \cup {c})
  OBVIOUS
<1>5. \A a, b \in Client : <<a, b>> \in list => a \in Members(list) /\ b \in Members(list)
  BY DEF Ordered
<1>6. longer \subseteq Members(longer) \X Members(longer)
  BY <1>2 DEF Ordered
<1> HIDE DEF longer
<1>7. Ordered(longer)
  BY <1>2, <1>3, <1>4, <1>5, <1>6 DEF Ordered, Members
<1> QED
  BY <1>1, <1>2, <1>3, <1>7

-----------------------------------------------------------------------------
\* unwatch_all takes clients out of both views of WATCH and nothing else.
LEMMA UnwatchAllKeeps ==
    ASSUME NEW w \in World, TableIsConsistent(w), NEW cs \in SUBSET Client
    PROVE  LET u == UnwatchAll(w, cs)
           IN /\ u \in World /\ TableIsConsistent(u)
              /\ u.slots = w.slots /\ u.clock = w.clock /\ u.mode = w.mode
              /\ u.repl = w.repl /\ u.dirty = w.dirty /\ u.nesting = w.nesting
              /\ \A c \in Client \ cs : u.clients[c] = w.clients[c]
              /\ \A c \in cs : /\ u.clients[c].watching = {}
                               /\ u.clients[c].watched_expired = {}
                               /\ u.clients[c].dirty_cas = w.clients[c].dirty_cas
<1> DEFINE u == UnwatchAll(w, cs)
           gone(k) == {c \in cs : k \in w.clients[c].watching}
<1>1. /\ u.slots = w.slots /\ u.clock = w.clock /\ u.mode = w.mode
      /\ u.repl = w.repl /\ u.dirty = w.dirty /\ u.nesting = w.nesting
      /\ u.watched = [k \in Key |-> Dequeue(w.watched[k], gone(k))]
      /\ u.clients = [c \in Client |->
           IF c \in cs
           THEN [watching |-> {},
                 watched_expired |-> w.clients[c].watched_expired
                                       \ w.clients[c].watching,
                 dirty_cas |-> w.clients[c].dirty_cas]
           ELSE w.clients[c]]
  BY DEF UnwatchAll, World
<1>2. \A c \in Client : w.clients[c] \in ClientState
  BY DEF World
<1>3. /\ \A c \in Client \ cs : u.clients[c] = w.clients[c]
      /\ \A c \in cs : /\ u.clients[c].watching = {}
                       /\ u.clients[c].watched_expired = {}
                       /\ u.clients[c].dirty_cas = w.clients[c].dirty_cas
  BY <1>1, <1>2 DEF TableIsConsistent, ClientState
<1>4. \A k \in Key : /\ u.watched[k] \in SUBSET (Client \X Client)
                     /\ Ordered(u.watched[k])
                     /\ Watchers(u, k) = Watchers(w, k) \ gone(k)
  <2> TAKE k \in Key
  <2>1. w.watched[k] \in SUBSET (Client \X Client) /\ Ordered(w.watched[k])
    BY DEF World, TableIsConsistent
  <2>2. u.watched[k] = Dequeue(w.watched[k], gone(k))
    BY <1>1
  <2> HIDE DEF gone, u
  <2> QED
    BY <2>1, <2>2, DequeueOrdered DEF Watchers
<1>5. u.clients \in [Client -> ClientState]
  BY <1>1, <1>2 DEF ClientState
<1>6. u.watched \in [Key -> SUBSET (Client \X Client)]
  BY <1>1, <1>4
<1>7. u \in World
  BY <1>1, <1>5, <1>6 DEF World, UnwatchAll
<1>8. TableIsConsistent(u)
  BY <1>3, <1>4 DEF TableIsConsistent, Watchers, Members
<1> QED
  BY <1>1, <1>3, <1>7, <1>8

\* touch_watched_key keeps the views of WATCH in step; every watcher that it reaches
\* loses its flag, and becomes dirty if it had none.
LEMMA TouchKeeps ==
    ASSUME NEW w \in World, TableIsConsistent(w), NEW ks \in SUBSET Key
    PROVE  LET u == Touch(w, ks)
           IN /\ u \in World /\ TableIsConsistent(u)
              /\ u.slots = w.slots /\ u.clock = w.clock /\ u.mode = w.mode
              /\ u.repl = w.repl /\ u.dirty = w.dirty /\ u.nesting = w.nesting
              /\ \A c \in Client :
                   u.clients[c].watched_expired \subseteq w.clients[c].watched_expired
              /\ \A c \in Client : \A k \in ks :
                   c \in Reached(w, k) => k \notin u.clients[c].watched_expired
              /\ \A c \in Client : \A k \in ks :
                   c \in Reached(w, k) /\ k \notin w.clients[c].watched_expired
                       => u.clients[c].dirty_cas
              /\ \A c \in Client : w.clients[c].dirty_cas => u.clients[c].dirty_cas
<1> DEFINE u == Touch(w, ks)
           dirtied == {c \in Client : \E k \in ks :
                         c \in Reached(w, k) /\ k \notin w.clients[c].watched_expired}
           cleared(c) == {k \in ks : c \in Reached(w, k)}
           after(c) == IF c \in dirtied
                       THEN [w.clients[c] EXCEPT !.dirty_cas = TRUE]
                       ELSE [w.clients[c] EXCEPT !.watched_expired = @ \ cleared(c)]
           flagged == [w EXCEPT !.clients = [c \in Client |-> after(c)]]
<1>1. u = UnwatchAll(flagged, dirtied)
  BY DEF Touch
<1>2. /\ flagged.slots = w.slots /\ flagged.clock = w.clock /\ flagged.mode = w.mode
      /\ flagged.repl = w.repl /\ flagged.dirty = w.dirty
      /\ flagged.nesting = w.nesting /\ flagged.watched = w.watched
      /\ flagged.clients = [c \in Client |-> after(c)]
  BY DEF World
<1>3. \A c \in Client : w.clients[c] \in ClientState
  BY DEF World
<1>4. \A c \in Client :
        /\ after(c) \in ClientState
        /\ after(c).watching = w.clients[c].watching
        /\ after(c).watched_expired \subseteq w.clients[c].watched_expired
        /\ c \in dirtied => after(c).dirty_cas
        /\ c \notin dirtied => /\ after(c).watched_expired \cap cleared(c) = {}
                              /\ after(c).dirty_cas = w.clients[c].dirty_cas
  <2> HIDE DEF dirtied, cleared
  <2> QED
    BY <1>3 DEF ClientState
<1> HIDE DEF after
<1>5. flagged \in World
  <2>1. [c \in Client |-> after(c)] \in [Client -> ClientState]
    BY <1>4
  <2> QED
    BY <2>1 DEF World
<1>6. TableIsConsistent(flagged)
  <2>1. \A k \in Key : Watchers(flagged, k) = Watchers(w, k)
    BY <1>2 DEF Watchers
  <2>2. \A c \in Client : flagged.clients[c] = after(c)
    BY <1>2
  <2>3. \A c \in Client : flagged.clients[c].watched_expired
                              \subseteq flagged.clients[c].watching
    BY <1>4, <2>2 DEF TableIsConsistent
  <2> HIDE DEF flagged
  <2> QED
    BY <1>2, <1>4, <2>1, <2>2, <2>3 DEF TableIsConsistent
<1>7. dirtied \in SUBSET Client
  OBVIOUS
<1>8. \A c \in Client : flagged.clients[c] = after(c)
  BY <1>2
<1> HIDE DEF flagged, dirtied
<1>9. /\ u \in World /\ TableIsConsistent(u)
      /\ u.slots = flagged.slots /\ u.clock = flagged.clock /\ u.mode = flagged.mode
      /\ u.repl = flagged.repl /\ u.dirty = flagged.dirty
      /\ u.nesting = flagged.nesting
      /\ \A c \in Client \ dirtied : u.clients[c] = after(c)
      /\ \A c \in dirtied : /\ u.clients[c].watched_expired = {}
                            /\ u.clients[c].dirty_cas = after(c).dirty_cas
  BY <1>1, <1>5, <1>6, <1>7, <1>8, UnwatchAllKeeps
<1> HIDE DEF u
<1>10. \A c \in Client :
         u.clients[c].watched_expired \subseteq w.clients[c].watched_expired
  BY <1>4, <1>7, <1>9
<1>11. \A c \in Client : \A k \in ks :
         c \in Reached(w, k) => k \notin u.clients[c].watched_expired
  <2> SUFFICES ASSUME NEW c \in Client, NEW k \in ks, c \in Reached(w, k)
               PROVE  k \notin u.clients[c].watched_expired
    OBVIOUS
  <2>1. k \in cleared(c)
    OBVIOUS
  <2> QED
    BY <1>4, <1>9, <2>1
<1>12. \A c \in Client : \A k \in ks :
         c \in Reached(w, k) /\ k \notin w.clients[c].watched_expired
             => u.clients[c].dirty_cas
  BY <1>4, <1>9 DEF dirtied
<1>13. \A c \in Client : w.clients[c].dirty_cas => u.clients[c].dirty_cas
  BY <1>4, <1>9
<1> QED
  BY <1>2, <1>9, <1>10, <1>11, <1>12, <1>13 DEF u

-----------------------------------------------------------------------------
\* The keys of one active cycle, put in an order, are a sequence of keys.
LEMMA SetToSeqType ==
    ASSUME NEW ks \in SUBSET Key
    PROVE  /\ SetToSeq(ks) \in [1..Cardinality(ks) -> ks]
           /\ Cardinality(ks) \in Nat
<1>1. IsFiniteSet(ks)
  BY KeysAssumption, FS_Subset
<1>2. Cardinality(ks) \in Nat /\ ExistsBijection(1..Cardinality(ks), ks)
  BY <1>1, FS_CardinalityType
<1>3. \E f \in [1..Cardinality(ks) -> ks] : IsInjective(f)
  BY <1>2 DEF ExistsBijection, Bijection, Injection, IsInjective
<1> QED
  BY <1>2, <1>3 DEF SetToSeq

\* ReplLog::push keeps the log a sequence of effects.
LEMMA PushType ==
    ASSUME NEW log \in Seq(Effect), NEW es \in Seq(Effect)
    PROVE  Push(log, es) \in Seq(Effect)
<1>1. log \o es \in Seq(Effect)
  BY ConcatProperties
<1>2. ReplCap \in Nat
  BY ReplAssumption
<1>3. CASE Len(log \o es) <= ReplCap
  BY <1>1, <1>3 DEF Push
<1>4. CASE Len(log \o es) > ReplCap
  <2>1. SubSeq(log \o es, 1, ReplCap) \in Seq(Effect)
    BY <1>1, <1>2, <1>4, SubSeqProperties, LenProperties
  <2> QED
    BY <1>1, <1>2, <1>4, <2>1, LenProperties DEF Push
<1> QED
  BY <1>1, <1>2, <1>3, <1>4, LenProperties

-----------------------------------------------------------------------------
(***************************************************************************)
(* What every operation of the model keeps.                                *)
(***************************************************************************)

Sound(w) ==
    /\ w \in World
    /\ TableIsConsistent(w)
    /\ AbsentSlotsAreBlank(w)
    /\ ForcesDelete(w.mode) => FlagsAreFresh(w)

\* No watcher of k has a flag "already expired" on it.
Unflagged(w, k) == \A c \in Client : k \notin w.clients[c].watched_expired

\* From w to u every watcher of k that did not see it expired became dirty.
Dirtied(w, u, k) ==
    \A c \in Watchers(w, k) :
        u.clients[c].dirty_cas \/ k \in w.clients[c].watched_expired

\* u follows from w by operations on key k inside one execution unit.
Evolves(w, u, k) ==
    /\ Sound(u)
    /\ u.clock = w.clock /\ u.mode = w.mode /\ u.nesting = w.nesting
    /\ \A c \in Client : w.clients[c].dirty_cas => u.clients[c].dirty_cas
    /\ u = w \/ (ForcesDelete(w.mode) => Dirtied(w, u, k))

\* Doing nothing is an operation on any key.
LEMMA EvolvesReflexive == ASSUME NEW w, Sound(w), NEW k PROVE Evolves(w, w, k)
  BY DEF Evolves

\* Operations on one key compose: a client that is dirty stays dirty.
LEMMA EvolvesTransitive ==
    ASSUME NEW w, NEW u, NEW v, NEW k, Evolves(w, u, k), Evolves(u, v, k)
    PROVE  Evolves(w, v, k)
<1>1. CASE u = w
  BY <1>1
<1>2. CASE u # w
  <2>1. ForcesDelete(w.mode) => Dirtied(w, v, k)
    BY <1>2 DEF Evolves, Dirtied, Watchers, Members
  <2> QED
    BY <2>1 DEF Evolves
<1> QED
  BY <1>1, <1>2

\* delete_expired_key_and_propagate keeps the world sound and clears the keys'
\* flags.
LEMMA DeleteExpiredSound ==
    ASSUME NEW w, Sound(w), NEW ks \in SUBSET Key
    PROVE  LET u == DeleteExpiredAndPropagate(w, ks)
           IN /\ Sound(u)
              /\ u.clock = w.clock /\ u.mode = w.mode /\ u.nesting = w.nesting
              /\ u.slots = [k \in Key |-> IF k \in ks THEN AbsentSlot ELSE w.slots[k]]
              /\ \A k \in ks : Unflagged(u, k) /\ Evolves(w, u, k)
<1> DEFINE u == DeleteExpiredAndPropagate(w, ks)
           order == SetToSeq(ks)
           dels == [i \in DOMAIN order |-> DelEffect(order[i])]
           slots == [k \in Key |-> IF k \in ks THEN AbsentSlot ELSE w.slots[k]]
           v == [w EXCEPT !.slots = slots, !.repl = Push(@, dels),
                          !.dirty = @ + Cardinality(ks)]
<1>1. u = Touch(v, ks)
  BY DEF DeleteExpiredAndPropagate
<1>2. /\ v.slots = slots /\ v.repl = Push(w.repl, dels)
      /\ v.dirty = w.dirty + Cardinality(ks) /\ v.clock = w.clock /\ v.mode = w.mode
      /\ v.nesting = w.nesting /\ v.watched = w.watched /\ v.clients = w.clients
  BY DEF Sound, World
<1>3. v \in World
  <2>1. slots \in [Key -> Slot]
    BY DEF Sound, World, Slot, AbsentSlot
  <2>2. dels \in Seq(Effect)
    <3>1. order \in [1..Cardinality(ks) -> ks] /\ Cardinality(ks) \in Nat
      BY SetToSeqType
    <3>2. \A i \in 1..Cardinality(ks) : DelEffect(order[i]) \in Effect
      BY <3>1 DEF DelEffect, Effect
    <3>3. dels = [i \in 1..Cardinality(ks) |-> DelEffect(order[i])]
      BY <3>1
    <3> HIDE DEF order
    <3> QED
      BY <3>1, <3>2, <3>3, SeqDef
  <2>3. Push(w.repl, dels) \in Seq(Effect)
    BY <2>2, PushType DEF Sound, World
  <2>4. w.dirty + Cardinality(ks) \in Nat
    BY SetToSeqType DEF Sound, World
  <2> HIDE DEF slots, dels
  <2> QED
    BY <2>1, <2>3, <2>4 DEF Sound, World
<1>4. TableIsConsistent(v)
  BY <1>2 DEF Sound, TableIsConsistent, Watchers
<1> HIDE DEF v
<1>5. \A k \in ks : Reached(v, k) = Watchers(v, k)
  <2>1. \A k \in ks : ~v.slots[k].present
    BY <1>2 DEF AbsentSlot
  <2> QED
    BY <2>1 DEF Reached, Blocks, Watchers, Members
<1>6. /\ u \in World /\ TableIsConsistent(u)
      /\ u.slots = v.slots /\ u.clock = v.clock /\ u.mode = v.mode
      /\ u.nesting = v.nesting
      /\ \A c \in Client :
           u.clients[c].watched_expired \subseteq v.clients[c].watched_expired
      /\ \A c \in Client : \A k \in ks :
           c \in Reached(v, k) => k \notin u.clients[c].watched_expired
      /\ \A c \in Client : \A k \in ks :
           c \in Reached(v, k) /\ k \notin v.clients[c].watched_expired
               => u.clients[c].dirty_cas
      /\ \A c \in Client : v.clients[c].dirty_cas => u.clients[c].dirty_cas
  BY <1>1, <1>3, <1>4, TouchKeeps
<1> HIDE DEF u
<1>7. \A k \in ks : Unflagged(u, k)
  <2> SUFFICES ASSUME NEW k \in ks, NEW c \in Client
               PROVE  k \notin u.clients[c].watched_expired
    BY DEF Unflagged
  <2>1. CASE c \in Watchers(v, k)
    BY <1>5, <1>6, <2>1
  <2>2. CASE c \notin Watchers(v, k)
    <3>1. k \notin v.clients[c].watched_expired
      BY <1>4, <2>2 DEF TableIsConsistent
    <3> QED
      BY <1>6, <3>1
  <2> QED
    BY <2>1, <2>2
<1>8. \A k \in ks : Dirtied(w, u, k)
  BY <1>2, <1>5, <1>6 DEF Dirtied, Watchers, Members
<1>9. AbsentSlotsAreBlank(u)
  BY <1>2, <1>6 DEF Sound, AbsentSlotsAreBlank
<1>10. ForcesDelete(u.mode) => FlagsAreFresh(u)
  <2> SUFFICES ASSUME ForcesDelete(w.mode),
                      NEW c \in Client, NEW k \in u.clients[c].watched_expired
               PROVE  u.slots[k].present /\ KeyIsExpired(u, k)
    BY <1>2, <1>6 DEF FlagsAreFresh
  <2>1. k \in Key /\ k \in w.clients[c].watched_expired
    BY <1>2, <1>6 DEF Sound, World, ClientState
  <2>2. k \notin ks
    BY <1>7 DEF Unflagged
  <2>3. w.slots[k].present /\ KeyIsExpired(w, k)
    BY <2>1 DEF Sound, FlagsAreFresh
  <2> QED
    BY <1>2, <1>6, <2>1, <2>2, <2>3 DEF KeyIsExpired
<1>11. Sound(u)
  BY <1>6, <1>9, <1>10 DEF Sound
<1> QED
  BY <1>2, <1>6, <1>7, <1>8, <1>11 DEF Evolves, u

\* Both lookups keep the world sound; while write lookups delete, a write lookup
\* leaves no flag on its key, for a fresh flag means a key that it deletes.
LEMMA LookupSound ==
    ASSUME NEW w, Sound(w), NEW k \in Key, NEW flags \in {ReadFlags, WriteFlags}
    PROVE  LET e == Lookup(w, k, flags)
           IN /\ Evolves(w, e.world, k)
              /\ e.value # NoValue => e.world.slots[k].present
              /\ flags = WriteFlags /\ ForcesDelete(w.mode) => Unflagged(e.world, k)
<1> DEFINE e == Lookup(w, k, flags)
           x == ExpireIfNeeded(w, k, flags)
           d == DeleteExpiredAndPropagate(w, {k})
<1>1. CASE ~w.slots[k].present
  <2>1. e.world = w /\ e.value = NoValue
    BY <1>1 DEF Lookup
  <2>2. ForcesDelete(w.mode) => Unflagged(w, k)
    BY <1>1 DEF Sound, FlagsAreFresh, Unflagged
  <2> QED
    BY <2>1, <2>2, EvolvesReflexive
<1>2. CASE w.slots[k].present
  <2>1. /\ e.world = x.world
        /\ e.value = IF x.status = "Valid" THEN w.slots[k].value ELSE NoValue
    BY <1>2 DEF Lookup, Found
  <2>2. CASE x = [world |-> w, status |-> "Valid"]
    <3>1. e.world = w
      BY <2>1, <2>2
    <3>2. ~KeyIsExpired(w, k) \/ SeenFromMaster(w.mode)
      BY <2>2 DEF ExpireIfNeeded, ReadFlags, WriteFlags
    <3>3. ForcesDelete(w.mode) => Unflagged(w, k)
      BY <3>2 DEF Sound, FlagsAreFresh, Unflagged, ForcesDelete
    <3> QED
      BY <1>2, <3>1, <3>3, EvolvesReflexive
  <2>3. CASE x = [world |-> w, status |-> "Expired"]
    <3>1. e.world = w /\ e.value = NoValue
      BY <2>1, <2>3
    <3>2. HiddenInPlace(w.mode, flags)
      BY <2>3 DEF ExpireIfNeeded
    <3>3. flags = WriteFlags => ~ForcesDelete(w.mode)
      BY <3>2 DEF HiddenInPlace, WriteFlags, ReadFlags, ForcesDelete
    <3> QED
      BY <3>1, <3>3, EvolvesReflexive
  <2>4. CASE x = [world |-> d, status |-> "Deleted"]
    <3>1. e.world = d /\ e.value = NoValue
      BY <2>1, <2>4
    <3>2. Unflagged(d, k) /\ Evolves(w, d, k)
      BY DeleteExpiredSound
    <3> HIDE DEF d
    <3> QED
      BY <3>1, <3>2
  <2> QED
    BY <2>2, <2>3, <2>4 DEF ExpireIfNeeded
<1> QED
  BY <1>1, <1>2

\* The tail of a write keeps the world sound and, with no flag on the key, dirties
\* every watcher.
LEMMA WriteSlotSound ==
    ASSUME NEW w, Sound(w), NEW k \in Key, NEW slot \in Slot, NEW effect \in Effect,
           slot.present \/ slot = AbsentSlot,
           ForcesDelete(w.mode) => Unflagged(w, k)
    PROVE  /\ Evolves(w, WriteSlot(w, k, slot, effect), k)
           /\ ForcesDelete(w.mode) => Dirtied(w, WriteSlot(w, k, slot, effect), k)
<1> DEFINE v == [w EXCEPT !.slots[k] = slot, !.dirty = @ + 1]
           t == Touch(v, {k})
           u == WriteSlot(w, k, slot, effect)
<1>1. u = [t EXCEPT !.repl = Push(@, <<effect>>)]
  BY DEF WriteSlot
<1>2. /\ v.slots = [w.slots EXCEPT ![k] = slot]
      /\ v.repl = w.repl /\ v.dirty = w.dirty + 1 /\ v.clock = w.clock
      /\ v.mode = w.mode /\ v.nesting = w.nesting /\ v.watched = w.watched
      /\ v.clients = w.clients
  BY DEF Sound, World
<1>3. v \in World
  <2>1. [w.slots EXCEPT ![k] = slot] \in [Key -> Slot] /\ w.dirty + 1 \in Nat
    BY DEF Sound, World
  <2> QED
    BY <2>1 DEF Sound, World
<1>4. TableIsConsistent(v)
  BY <1>2 DEF Sound, TableIsConsistent, Watchers
<1> HIDE DEF v
<1>5. ForcesDelete(w.mode) => Reached(v, k) = Watchers(w, k)
  BY <1>2 DEF Reached, Blocks, Unflagged, Watchers, Members
<1>6. /\ t \in World /\ TableIsConsistent(t)
      /\ t.slots = v.slots /\ t.clock = v.clock /\ t.mode = v.mode
      /\ t.nesting = v.nesting
      /\ \A c \in Client :
           t.clients[c].watched_expired \subseteq v.clients[c].watched_expired
      /\ \A c \in Client :
           c \in Reached(v, k) /\ k \notin v.clients[c].watched_expired
               => t.clients[c].dirty_cas
      /\ \A c \in Client : v.clients[c].dirty_cas => t.clients[c].dirty_cas
  BY <1>3, <1>4, TouchKeeps
<1> HIDE DEF t
<1>7. Push(t.repl, <<effect>>) \in Seq(Effect)
  <2>1. t.repl \in Seq(Effect) /\ <<effect>> \in Seq(Effect)
    BY <1>6 DEF World
  <2> HIDE DEF t
  <2> QED
    BY <2>1, PushType
<1>8. /\ u.slots = t.slots /\ u.clock = t.clock /\ u.mode = t.mode
      /\ u.nesting = t.nesting /\ u.watched = t.watched /\ u.clients = t.clients
      /\ u \in World
  BY <1>1, <1>6, <1>7 DEF World
<1> HIDE DEF u
<1>9. TableIsConsistent(u)
  BY <1>6, <1>8 DEF TableIsConsistent, Watchers
<1>10. AbsentSlotsAreBlank(u)
  BY <1>2, <1>6, <1>8 DEF Sound, AbsentSlotsAreBlank, World
<1>11. ForcesDelete(u.mode) => FlagsAreFresh(u)
  <2> SUFFICES ASSUME ForcesDelete(w.mode),
                      NEW c \in Client, NEW j \in u.clients[c].watched_expired
               PROVE  u.slots[j].present /\ KeyIsExpired(u, j)
    BY <1>2, <1>6, <1>8 DEF FlagsAreFresh
  <2>1. j \in Key /\ j \in w.clients[c].watched_expired
    BY <1>2, <1>6, <1>8 DEF Sound, World, ClientState
  <2>2. j # k
    BY <2>1 DEF Unflagged
  <2>3. w.slots[j].present /\ KeyIsExpired(w, j)
    BY <2>1 DEF Sound, FlagsAreFresh
  <2>4. u.slots[j] = w.slots[j]
    BY <1>2, <1>6, <1>8, <2>1, <2>2 DEF Sound, World
  <2> QED
    BY <1>2, <1>6, <1>8, <2>3, <2>4 DEF KeyIsExpired
<1>12. ForcesDelete(w.mode) => Dirtied(w, u, k)
  BY <1>2, <1>5, <1>6, <1>8 DEF Dirtied, Watchers, Members
<1>13. Sound(u)
  BY <1>8, <1>9, <1>10, <1>11 DEF Sound
<1> QED
  BY <1>2, <1>6, <1>8, <1>12, <1>13 DEF Evolves, u

\* The same for a write that empties the slot.
LEMMA DeleteSlotSound ==
    ASSUME NEW w, Sound(w), NEW k \in Key, ForcesDelete(w.mode) => Unflagged(w, k)
    PROVE  Evolves(w, DeleteSlot(w, k), k)
<1>1. AbsentSlot \in Slot /\ DelEffect(k) \in Effect
  BY DEF AbsentSlot, Slot, DelEffect, Effect
<1> QED
  BY <1>1, WriteSlotSound DEF DeleteSlot

-----------------------------------------------------------------------------
(***************************************************************************)
(* One lemma per command.                                                  *)
(***************************************************************************)
\* lookup_key_read is an operation on its key.
LEMMA LookupKeyReadSound ==
    ASSUME NEW w, Sound(w), NEW k \in Key
    PROVE  Evolves(w, LookupKeyRead(w, k).world, k)
  BY LookupSound DEF LookupKeyRead

\* lookup_key_write is an operation on its key, and a value it finds is there.
LEMMA LookupKeyWriteSound ==
    ASSUME NEW w, Sound(w), NEW k \in Key
    PROVE  LET write == LookupKeyWrite(w, k)
           IN /\ Evolves(w, write.world, k)
              /\ write.value # NoValue => write.world.slots[k].present
              /\ ForcesDelete(write.world.mode) => Unflagged(write.world, k)
              /\ Sound(write.world)
  BY LookupSound DEF LookupKeyWrite, Evolves

\* The deadline that SET assigns has its type.
LEMMA NewExpireType ==
    ASSUME NEW w, Sound(w), NEW k \in Key, NEW ttl \in TtlArg, NEW exists
    PROVE  NewExpire(w, k, ttl, exists) \in ExpireTimes \cup {NoExpire}
  BY DEF Sound, World, Slot, TtlArg, NoTtl, KeepTtl, PxAt, NewExpire

\* SET: a read lookup, a write lookup, and a write or a deletion.
LEMMA CmdSetSound ==
    ASSUME NEW w, Sound(w), NEW cmd, cmd.key \in Key, cmd.val \in Value,
           cmd.ttl \in TtlArg
    PROVE  Evolves(w, CmdSet(w, cmd).world, cmd.key)
<1> DEFINE k == cmd.key
           read == IF cmd.get THEN LookupKeyRead(w, k)
                   ELSE [world |-> w, value |-> NoValue]
           write == LookupKeyWrite(read.world, k)
           u == write.world
           at == NewExpire(u, k, cmd.ttl, write.value # NoValue)
           slot == [present |-> TRUE, value |-> cmd.val, expire_at |-> at]
           written == WriteSlot(u, k, slot, SetEffect(k, cmd.val, at))
           after == CmdSet(w, cmd).world
<1>1. Evolves(w, read.world, k)
  BY LookupKeyReadSound, EvolvesReflexive
<1> HIDE DEF read
<1>2. /\ Evolves(read.world, u, k) /\ Sound(u)
      /\ ForcesDelete(u.mode) => Unflagged(u, k)
  BY <1>1, LookupKeyWriteSound DEF Evolves
<1>3. Evolves(w, u, k)
  BY <1>1, <1>2, EvolvesTransitive
<1>4. after \in {u, DeleteSlot(u, k), written}
  BY DEF CmdSet, SetAfterGet, SetFound, Result, read
<1> HIDE DEF write, after
<1>5. Evolves(u, DeleteSlot(u, k), k)
  BY <1>2, DeleteSlotSound
<1>6. Evolves(u, written, k)
  <2>1. at \in ExpireTimes \cup {NoExpire}
    BY <1>2, NewExpireType
  <2> HIDE DEF at
  <2>2. slot \in Slot /\ SetEffect(k, cmd.val, at) \in Effect
    BY <2>1 DEF Slot, SetEffect, Effect
  <2> QED
    BY <1>2, <2>2, WriteSlotSound
<1> QED
  BY <1>3, <1>4, <1>5, <1>6, EvolvesTransitive DEF after

\* DEL: a write lookup and a deletion.
LEMMA CmdDelSound ==
    ASSUME NEW w, Sound(w), NEW k \in Key
    PROVE  Evolves(w, CmdDel(w, k).world, k)
<1> DEFINE write == LookupKeyWrite(w, k)
           u == write.world
           after == CmdDel(w, k).world
<1>1. /\ Evolves(w, u, k) /\ Sound(u)
      /\ ForcesDelete(u.mode) => Unflagged(u, k)
  BY LookupKeyWriteSound
<1>2. after \in {u, DeleteSlot(u, k)}
  BY DEF CmdDel, DelFound, Result
<1> HIDE DEF write, after
<1>3. Evolves(u, DeleteSlot(u, k), k)
  BY <1>1, DeleteSlotSound
<1> QED
  BY <1>1, <1>2, <1>3, EvolvesTransitive DEF after

\* Assigning another deadline to a present key, as EXPIRE and PERSIST do.
LEMMA RetimeSound ==
    ASSUME NEW u, Sound(u), NEW k \in Key, u.slots[k].present,
           ForcesDelete(u.mode) => Unflagged(u, k),
           NEW at \in ExpireTimes \cup {NoExpire}, NEW effect \in Effect
    PROVE  Evolves(u, WriteSlot(u, k, [u.slots[k] EXCEPT !.expire_at = at], effect), k)
<1> DEFINE slot == [u.slots[k] EXCEPT !.expire_at = at]
<1>1. u.slots[k] \in Slot
  BY DEF Sound, World
<1>2. slot \in Slot /\ slot.present
  BY <1>1 DEF Slot
<1> HIDE DEF slot
<1>3. Evolves(u, WriteSlot(u, k, slot, effect), k)
  BY <1>2, WriteSlotSound
<1> QED
  BY <1>3 DEF slot

\* EXPIRE: a write lookup, and a new deadline or a deletion.
LEMMA CmdExpireSound ==
    ASSUME NEW w, Sound(w), NEW k \in Key, NEW at \in ExpireTimes, NEW cond
    PROVE  Evolves(w, CmdExpire(w, k, at, cond).world, k)
<1> DEFINE write == LookupKeyWrite(w, k)
           u == write.world
           moved == WriteSlot(u, k, [u.slots[k] EXCEPT !.expire_at = at],
                              PExpireAtEffect(k, at))
           after == CmdExpire(w, k, at, cond).world
<1>1. /\ Evolves(w, u, k) /\ Sound(u)
      /\ write.value # NoValue => u.slots[k].present
      /\ ForcesDelete(u.mode) => Unflagged(u, k)
  BY LookupKeyWriteSound
<1>2. \/ after \in {u, DeleteSlot(u, k)}
      \/ write.value # NoValue /\ after = moved
  BY DEF CmdExpire, ExpireFound, Result
<1> HIDE DEF write, after
<1>3. Evolves(u, DeleteSlot(u, k), k)
  BY <1>1, DeleteSlotSound
<1>4. PExpireAtEffect(k, at) \in Effect
  BY DEF PExpireAtEffect, Effect
<1>5. write.value # NoValue => Evolves(u, moved, k)
  BY <1>1, <1>4, RetimeSound
<1> QED
  BY <1>1, <1>2, <1>3, <1>5, EvolvesTransitive DEF after

\* PERSIST: a write lookup, and the deadline removed.
LEMMA CmdPersistSound ==
    ASSUME NEW w, Sound(w), NEW k \in Key
    PROVE  Evolves(w, CmdPersist(w, k).world, k)
<1> DEFINE write == LookupKeyWrite(w, k)
           u == write.world
           moved == WriteSlot(u, k, [u.slots[k] EXCEPT !.expire_at = NoExpire],
                              PersistEffect(k))
           after == CmdPersist(w, k).world
<1>1. /\ Evolves(w, u, k) /\ Sound(u)
      /\ write.value # NoValue => u.slots[k].present
      /\ ForcesDelete(u.mode) => Unflagged(u, k)
  BY LookupKeyWriteSound
<1>2. after = u \/ (write.value # NoValue /\ after = moved)
  BY DEF CmdPersist, PersistFound, Result
<1> HIDE DEF write, after
<1>3. PersistEffect(k) \in Effect
  BY DEF PersistEffect, Effect
<1>4. write.value # NoValue => Evolves(u, moved, k)
  BY <1>1, <1>3, RetimeSound
<1> QED
  BY <1>1, <1>2, <1>4, EvolvesTransitive DEF after

\* Every command on a key is an operation on that key.
LEMMA KeyCmdSound ==
    ASSUME NEW w, Sound(w), NEW cmd \in KeyCmd
    PROVE  Evolves(w, Exec(w, cmd).world, cmd.key)
<1>1. CASE cmd \in SetCmd
  <2>1. /\ cmd.op = "Set" /\ cmd.key \in Key /\ cmd.val \in Value
        /\ cmd.ttl \in TtlArg
    BY <1>1 DEF SetCmd
  <2>2. Exec(w, cmd) = CmdSet(w, cmd)
    BY <2>1 DEF Exec, LookupOp
  <2> QED
    BY <2>1, <2>2, CmdSetSound
<1>2. CASE cmd \in ExpireCmd
  <2>1. cmd.op = "Expire" /\ cmd.key \in Key /\ cmd.at \in ExpireTimes
    BY <1>2 DEF ExpireCmd
  <2>2. Exec(w, cmd) = CmdExpire(w, cmd.key, cmd.at, cmd.cond)
    BY <2>1 DEF Exec, LookupOp
  <2> QED
    BY <2>1, <2>2, CmdExpireSound
<1>3. CASE cmd \in RemoveCmd
  <2>1. cmd.op \in {"Del", "Persist"} /\ cmd.key \in Key
    BY <1>3 DEF RemoveCmd
  <2>2. Exec(w, cmd) \in {CmdDel(w, cmd.key), CmdPersist(w, cmd.key)}
    BY <2>1 DEF Exec, LookupOp
  <2> QED
    BY <2>1, <2>2, CmdDelSound, CmdPersistSound
<1>4. CASE cmd \in LookupCmd
  <2>1. cmd.op \in LookupOp /\ cmd.key \in Key
    BY <1>4 DEF LookupCmd
  <2>2. Exec(w, cmd) = CmdLookup(w, cmd.op, cmd.key)
    BY <2>1 DEF Exec, LookupOp
  <2>3. Exec(w, cmd).world = LookupKeyRead(w, cmd.key).world
    BY <2>2 DEF CmdLookup, Answered, Result
  <2> QED
    BY <2>1, <2>3, LookupKeyReadSound
<1> QED
  BY <1>1, <1>2, <1>3, <1>4 DEF KeyCmd

\* u is sound, and no time has passed since w.
SameUnit(w, u) ==
    Sound(u) /\ u.clock = w.clock /\ u.mode = w.mode /\ u.nesting = w.nesting

\* watch_key flags a key as expired only while it is present and expired.
LEMMA WatchKeySound ==
    ASSUME NEW w, Sound(w), NEW c \in Client, NEW k \in Key
    PROVE  SameUnit(w, WatchKey(w, c, k))
<1> DEFINE u == WatchKey(w, c, k)
           expired_now == w.slots[k].present /\ KeyIsExpired(w, k)
           client == [w.clients[c] EXCEPT
                        !.watching = @ \cup {k},
                        !.watched_expired =
                            IF expired_now THEN @ \cup {k} ELSE @ \ {k}]
<1>1. CASE k \in w.clients[c].watching
  BY <1>1 DEF WatchKey, SameUnit
<1>2. CASE k \notin w.clients[c].watching
  <2>1. /\ w.clients \in [Client -> ClientState]
        /\ w.watched \in [Key -> SUBSET (Client \X Client)]
    BY DEF Sound, World
  <2>2. /\ u.slots = w.slots /\ u.clock = w.clock /\ u.mode = w.mode
        /\ u.repl = w.repl /\ u.dirty = w.dirty /\ u.nesting = w.nesting
        /\ u.clients = [w.clients EXCEPT ![c] = client]
        /\ u.watched = [w.watched EXCEPT ![k] = AddTail(@, c)]
    BY <1>2, <2>1 DEF WatchKey, Sound, World
  <2>3. /\ client \in ClientState
        /\ client.watching = w.clients[c].watching \cup {k}
        /\ client.watched_expired = IF expired_now
                                    THEN w.clients[c].watched_expired \cup {k}
                                    ELSE w.clients[c].watched_expired \ {k}
    BY <2>1 DEF ClientState
  <2>4. /\ AddTail(w.watched[k], c) \in SUBSET (Client \X Client)
        /\ Members(AddTail(w.watched[k], c)) = Watchers(w, k) \cup {c}
        /\ Ordered(AddTail(w.watched[k], c))
    <3>1. /\ w.watched[k] \in SUBSET (Client \X Client)
          /\ Ordered(w.watched[k]) /\ c \notin Members(w.watched[k])
      BY <1>2, <2>1 DEF Sound, TableIsConsistent, Watchers
    <3> QED
      BY <3>1, AddTailOrdered DEF Watchers
  <2>5. u \in World
    <3>1. /\ [w.clients EXCEPT ![c] = client] \in [Client -> ClientState]
          /\ [w.watched EXCEPT ![k] = AddTail(@, c)] \in [Key -> SUBSET (Client \X Client)]
      BY <2>1, <2>3, <2>4
    <3>2. u = [w EXCEPT !.clients = [w.clients EXCEPT ![c] = client],
                        !.watched = [w.watched EXCEPT ![k] = AddTail(@, c)]]
      BY <1>2, <2>1, <2>2 DEF WatchKey, Sound, World
    <3> HIDE DEF u, client
    <3> QED
      BY <3>1, <3>2 DEF Sound, World
  <2> HIDE DEF u, client
  <2>6. TableIsConsistent(u)
    <3>1. \A j \in Key : Ordered(u.watched[j])
      BY <2>1, <2>2, <2>4 DEF Sound, TableIsConsistent
    <3>2. \A j \in Key : Watchers(u, j) = IF j = k THEN Watchers(w, j) \cup {c}
                                          ELSE Watchers(w, j)
      BY <2>1, <2>2, <2>4 DEF Watchers
    <3>3. \A d \in Client : u.clients[d] = IF d = c THEN client ELSE w.clients[d]
      BY <2>1, <2>2
    <3> QED
      BY <2>3, <3>1, <3>2, <3>3 DEF Sound, TableIsConsistent
  <2>7. ForcesDelete(u.mode) => FlagsAreFresh(u)
    <3>1. \A j : KeyIsExpired(u, j) <=> KeyIsExpired(w, j)
      BY <2>2 DEF KeyIsExpired
    <3>2. \A d \in Client : u.clients[d] = IF d = c THEN client ELSE w.clients[d]
      BY <2>1, <2>2
    <3> QED
      BY <2>2, <2>3, <3>1, <3>2 DEF Sound, FlagsAreFresh
  <2> QED
    BY <2>2, <2>5, <2>6, <2>7 DEF Sound, SameUnit, AbsentSlotsAreBlank, u
<1> QED
  BY <1>1, <1>2

\* unwatch_all of one client.
LEMMA UnwatchAllSound ==
    ASSUME NEW w, Sound(w), NEW c \in Client
    PROVE  SameUnit(w, UnwatchAll(w, {c}))
<1> DEFINE u == UnwatchAll(w, {c})
<1>1. /\ u \in World /\ TableIsConsistent(u)
      /\ u.slots = w.slots /\ u.clock = w.clock /\ u.mode = w.mode
      /\ u.nesting = w.nesting
      /\ \A d \in Client \ {c} : u.clients[d] = w.clients[d]
      /\ u.clients[c].watched_expired = {}
  BY UnwatchAllKeeps DEF Sound
<1> HIDE DEF u
<1>2. ForcesDelete(u.mode) => FlagsAreFresh(u)
  BY <1>1 DEF Sound, FlagsAreFresh, KeyIsExpired
<1>3. AbsentSlotsAreBlank(u)
  BY <1>1 DEF Sound, AbsentSlotsAreBlank
<1> QED
  BY <1>1, <1>2, <1>3 DEF Sound, SameUnit, u

\* Every command keeps the world sound.
LEMMA ExecSound ==
    ASSUME NEW w, Sound(w), NEW cmd \in Command
    PROVE  SameUnit(w, Exec(w, cmd).world)
<1>1. CASE cmd \in KeyCmd
  BY <1>1, KeyCmdSound DEF Evolves, SameUnit
<1>2. CASE cmd \in ScanCmd
  <2>1. Exec(w, cmd) \in {CmdKeys(w), CmdDbSize(w)}
    BY <1>2 DEF ScanCmd, Exec, LookupOp
  <2> QED
    BY <2>1 DEF CmdKeys, CmdDbSize, Result, SameUnit
<1>3. CASE cmd \in WatchCmd
  <2>1. cmd.op = "Watch" /\ cmd.client \in Client /\ cmd.key \in Key
    BY <1>3 DEF WatchCmd
  <2>2. Exec(w, cmd).world = WatchKey(w, cmd.client, cmd.key)
    BY <2>1 DEF Exec, Result, LookupOp
  <2> QED
    BY <2>1, <2>2, WatchKeySound
<1>4. CASE cmd \in UnwatchCmd
  <2>1. cmd.op = "Unwatch" /\ cmd.client \in Client
    BY <1>4 DEF UnwatchCmd
  <2>2. Exec(w, cmd).world = UnwatchAll(w, {cmd.client})
    BY <2>1 DEF Exec, Result, LookupOp
  <2> QED
    BY <2>1, <2>2, UnwatchAllSound
<1> QED
  BY <1>1, <1>2, <1>3, <1>4 DEF Command

\* An active expire cycle keeps the world sound.
LEMMA ActiveExpireCycleSound ==
    ASSUME NEW w, Sound(w)
    PROVE  SameUnit(w, ActiveExpireCycle(w))
<1> DEFINE ks == {k \in Key : w.slots[k].present /\ ActiveCycleWouldExpire(w, k)}
<1>1. ks \in SUBSET Key
  OBVIOUS
<1>2. ActiveExpireCycle(w) \in {w, DeleteExpiredAndPropagate(w, ks)}
  BY DEF ActiveExpireCycle
<1> HIDE DEF ks
<1>3. SameUnit(w, DeleteExpiredAndPropagate(w, ks))
  BY <1>1, DeleteExpiredSound DEF SameUnit
<1> QED
  BY <1>2, <1>3 DEF SameUnit

-----------------------------------------------------------------------------
(***************************************************************************)
(* Steps and schedules.                                                    *)
(***************************************************************************)
\* Opening an execution unit changes its counters only.
LEMMA EnterSound ==
    ASSUME NEW w, Sound(w)
    PROVE  LET u == EnterExecutionUnit(w)
           IN /\ Sound(u) /\ u.nesting = w.nesting + 1 /\ u.slots = w.slots
              /\ u.clients = w.clients /\ u.watched = w.watched
              /\ u.clock = w.clock /\ u.mode = w.mode
              /\ w.nesting = 0 => u.dirty = 0
<1> DEFINE u == EnterExecutionUnit(w)
<1>1. /\ u \in World /\ u.nesting = w.nesting + 1 /\ u.slots = w.slots
      /\ u.clients = w.clients /\ u.watched = w.watched
      /\ u.clock = w.clock /\ u.mode = w.mode
      /\ w.nesting = 0 => u.dirty = 0
  <2> DEFINE dirty == IF w.nesting = 0 THEN 0 ELSE w.dirty
  <2>1. dirty \in Nat /\ w.nesting + 1 \in Nat /\ (w.nesting = 0 => dirty = 0)
    BY DEF Sound, World
  <2>2. u = [w EXCEPT !.nesting = w.nesting + 1, !.dirty = dirty]
    BY DEF EnterExecutionUnit, Sound, World
  <2> HIDE DEF u, dirty
  <2> QED
    BY <2>1, <2>2 DEF Sound, World
<1> HIDE DEF u
<1>2. Sound(u)
  BY <1>1 DEF Sound, TableIsConsistent, Watchers, AbsentSlotsAreBlank, FlagsAreFresh,
              KeyIsExpired
<1> QED
  BY <1>1, <1>2 DEF u

\* Closing the unit that a step opened brings nesting back to 0.
LEMMA ExitSound ==
    ASSUME NEW w, Sound(w), w.nesting = 1
    PROVE  LET u == ExitExecutionUnit(w)
           IN Sound(u) /\ u.nesting = 0 /\ u.clients = w.clients /\ u.dirty = w.dirty
<1> DEFINE u == ExitExecutionUnit(w)
<1>1. /\ u \in World /\ u.nesting = 0 /\ u.slots = w.slots /\ u.dirty = w.dirty
      /\ u.clients = w.clients /\ u.watched = w.watched
      /\ u.clock = w.clock /\ u.mode = w.mode
  BY DEF ExitExecutionUnit, Sound, World
<1> HIDE DEF u
<1>2. Sound(u)
  BY <1>1 DEF Sound, TableIsConsistent, Watchers, AbsentSlotsAreBlank, FlagsAreFresh,
              KeyIsExpired
<1> QED
  BY <1>1, <1>2 DEF u

\* A command in its execution unit.
LEMMA RunCmdSound ==
    ASSUME NEW w, Sound(w), w.nesting = 0, NEW cmd \in Command
    PROVE  Sound(RunCmd(w, cmd).world) /\ RunCmd(w, cmd).world.nesting = 0
<1> DEFINE entered == EnterExecutionUnit(w)
           done == Exec(entered, cmd).world
<1>1. Sound(entered) /\ entered.nesting = 1
  BY EnterSound
<1> HIDE DEF entered
<1>2. Sound(done) /\ done.nesting = 1
  BY <1>1, ExecSound DEF SameUnit
<1>3. RunCmd(w, cmd).world = ExitExecutionUnit(done)
  BY DEF RunCmd, CloseUnit, Result, entered
<1> HIDE DEF done
<1> QED
  BY <1>2, <1>3, ExitSound

\* An active cycle in its execution unit.
LEMMA RunActiveExpireSound ==
    ASSUME NEW w, Sound(w), w.nesting = 0
    PROVE  Sound(RunActiveExpire(w)) /\ RunActiveExpire(w).nesting = 0
<1> DEFINE entered == EnterExecutionUnit(w)
           done == ActiveExpireCycle(entered)
<1>1. Sound(entered) /\ entered.nesting = 1
  BY EnterSound
<1> HIDE DEF entered
<1>2. Sound(done) /\ done.nesting = 1
  BY <1>1, ActiveExpireCycleSound DEF SameUnit
<1>3. RunActiveExpire(w) = ExitExecutionUnit(done)
  BY DEF RunActiveExpire, entered
<1> HIDE DEF done
<1> QED
  BY <1>2, <1>3, ExitSound

\* A tick: a flag that was fresh stays fresh as time moves on.
LEMMA RunClockTickSound ==
    ASSUME NEW w, Sound(w), NEW d \in Ticks
    PROVE  Sound(RunClockTick(w, d)) /\ RunClockTick(w, d).nesting = w.nesting
<1> DEFINE u == RunClockTick(w, d)
<1>1. w.clock \in Nat /\ d \in Nat
  BY TimesAssumption DEF Sound, World
<1>2. /\ u \in World /\ u.nesting = w.nesting /\ u.slots = w.slots
      /\ u.clients = w.clients /\ u.watched = w.watched
      /\ u.clock = w.clock + d /\ u.mode = w.mode
  <2> DEFINE now == w.clock + d
  <2>1. now \in Nat /\ w \in World
    BY <1>1 DEF Sound
  <2>2. u = [w EXCEPT !.clock = now]
    BY DEF RunClockTick
  <2> HIDE DEF u, now
  <2>3. /\ u \in World /\ u.nesting = w.nesting /\ u.slots = w.slots
        /\ u.clients = w.clients /\ u.watched = w.watched
        /\ u.clock = now /\ u.mode = w.mode
    BY <2>1, <2>2 DEF World
  <2> QED
    BY <2>3 DEF now
<1> HIDE DEF u
\* Time only moves on, so what had expired stays expired.
<1>3. \A k \in Key : KeyIsExpired(w, k) => KeyIsExpired(u, k)
  <2> SUFFICES ASSUME NEW k \in Key, KeyIsExpired(w, k) PROVE KeyIsExpired(u, k)
    OBVIOUS
  <2>1. w.slots[k].expire_at \in Nat \cup {-1}
    BY ExpireTimesAssumption DEF Sound, World, Slot, NoExpire
  <2> QED
    BY <1>1, <1>2, <2>1 DEF KeyIsExpired
<1>4. ForcesDelete(u.mode) => FlagsAreFresh(u)
  BY <1>2, <1>3 DEF Sound, World, ClientState, FlagsAreFresh
<1>5. Sound(u)
  BY <1>2, <1>4 DEF Sound, TableIsConsistent, Watchers, AbsentSlotsAreBlank
<1> QED
  BY <1>2, <1>5 DEF u

\* A drawn world is sound.
LEMMA NewWorldSound ==
    ASSUME NEW clock \in Nat, NEW mode \in Modes, NEW w \in NondetWorld(clock, mode)
    PROVE  Sound(w) /\ w.nesting = 0
<1>1. PICK slots \in [Key -> DrawnSlot] : w = NewWorld(slots, clock, mode)
  BY DEF NondetWorld
<1>2. \A k \in Key : slots[k] \in Slot /\ (slots[k].present \/ slots[k] = AbsentSlot)
  <2> SUFFICES ASSUME NEW k \in Key
               PROVE  slots[k] \in Slot /\ (slots[k].present \/ slots[k] = AbsentSlot)
    OBVIOUS
  <2>1. slots[k] \in DrawnSlot
    BY <1>1
  <2>2. CASE slots[k] = AbsentSlot
    BY <2>2 DEF Slot, AbsentSlot
  <2>3. CASE slots[k] # AbsentSlot
    BY <2>1, <2>3 DEF Slot, DrawnSlot
  <2> QED
    BY <2>2, <2>3
<1>3. /\ w.slots = slots /\ w.watched = [k \in Key |-> {}]
      /\ w.clients = [c \in Client |-> FreshClient] /\ w.nesting = 0
  BY <1>1 DEF NewWorld
<1>4. w \in World
  BY <1>1, <1>2 DEF NewWorld, World, ClientState, FreshClient
<1>5. TableIsConsistent(w)
  BY <1>3 DEF TableIsConsistent, Ordered, Watchers, Members, FreshClient
<1>6. AbsentSlotsAreBlank(w)
  BY <1>2, <1>3 DEF AbsentSlotsAreBlank
<1>7. FlagsAreFresh(w)
  BY <1>3 DEF FlagsAreFresh, FreshClient
<1> QED
  BY <1>3, <1>4, <1>5, <1>6, <1>7 DEF Sound

-----------------------------------------------------------------------------
(***************************************************************************)
(* The inductive invariant: the world is sound and no unit is open.        *)
(***************************************************************************)
IInv == Sound(world) /\ world.nesting = 0

\* Every initial world satisfies the inductive invariant.
LEMMA InitIInv == Init => IInv
<1> SUFFICES ASSUME Init PROVE IInv
  OBVIOUS
<1>1. PICK clock \in 0..MaxClock, mode \in Modes : world \in NondetWorld(clock, mode)
  BY DEF Init
<1>2. clock \in Nat
  BY <1>1, TimesAssumption
<1> QED
  BY <1>1, <1>2, NewWorldSound DEF IInv

\* A command step keeps it.
LEMMA PerformIInv ==
    ASSUME IInv, NEW cmd \in Command, Perform(cmd)
    PROVE  IInv'
<1> DEFINE after == RunCmd(world, cmd).world
<1>1. Sound(after) /\ after.nesting = 0
  BY RunCmdSound DEF IInv
<1>2. world' = after
  BY DEF Perform
<1> HIDE DEF after
<1> QED
  BY <1>1, <1>2 DEF IInv

\* Every step keeps it.
LEMMA NextIInv == IInv /\ [Next]_vars => IInv'
<1> SUFFICES ASSUME IInv, [Next]_vars PROVE IInv'
  OBVIOUS
<1>1. ASSUME NEW cmd \in Command, Perform(cmd) PROVE IInv'
  BY <1>1, PerformIInv
<1>2. CASE \/ DoSet \/ DoExpire \/ DoDel \/ DoPersist \/ DoGet \/ DoExists \/ DoType
           \/ DoPttl \/ DoKeys \/ DoDbSize \/ DoWatch \/ DoUnwatch
  BY <1>1, <1>2 DEF Command, KeyCmd, DoSet, DoExpire, DoDel, DoPersist, DoGet, DoExists,
     DoType, DoPttl, DoKeys, DoDbSize, DoWatch, DoUnwatch
<1>3. CASE ActiveExpire
  BY <1>3, RunActiveExpireSound DEF ActiveExpire, IInv
<1>4. CASE ClockTick
  BY <1>4, RunClockTickSound DEF ClockTick, IInv
<1>5. CASE UNCHANGED vars
  BY <1>5 DEF vars, IInv
<1> QED
  BY <1>2, <1>3, <1>4, <1>5 DEF Next

\* It holds in every reachable world.
LEMMA SpecIInv == Spec => []IInv
  BY InitIInv, NextIInv, PTL DEF Spec

\* While write lookups delete, a command on a key that counts a change has dirtied
\* every watcher of the key that had not already seen it expired.
LEMMA IInvDirties == IInv /\ ForcesDelete(world.mode) => WriteDirtiesEveryWatcher
<1> SUFFICES ASSUME IInv, ForcesDelete(world.mode), NEW cmd \in KeyCmd,
                    RunCmd(world, cmd).world.dirty > 0,
                    NEW c \in Watchers(world, cmd.key)
             PROVE  \/ RunCmd(world, cmd).world.clients[c].dirty_cas
                    \/ cmd.key \in world.clients[c].watched_expired
  BY DEF WriteDirtiesEveryWatcher
<1> DEFINE entered == EnterExecutionUnit(world)
           done == Exec(entered, cmd).world
<1>1. /\ Sound(entered) /\ entered.nesting = 1 /\ entered.dirty = 0
      /\ entered.clients = world.clients /\ entered.watched = world.watched
      /\ entered.mode = world.mode
  BY EnterSound DEF IInv
<1>2. RunCmd(world, cmd).world = ExitExecutionUnit(done)
  BY DEF RunCmd, CloseUnit, Result
<1> HIDE DEF entered
<1>3. Evolves(entered, done, cmd.key)
  BY <1>1, KeyCmdSound
<1> HIDE DEF done
<1>4. Sound(done) /\ done.nesting = 1
  BY <1>1, <1>3 DEF Evolves
<1>5. /\ RunCmd(world, cmd).world.clients = done.clients
      /\ RunCmd(world, cmd).world.dirty = done.dirty
  BY <1>2, <1>4, ExitSound
<1>6. done # entered
  BY <1>1, <1>5
<1>7. Dirtied(entered, done, cmd.key)
  BY <1>1, <1>3, <1>6 DEF Evolves
<1> QED
  BY <1>1, <1>5, <1>7 DEF Dirtied, Watchers

-----------------------------------------------------------------------------
(***************************************************************************)
(* Theorems.  Each holds for every number of keys, clients and values, any *)
(* set of expiry times and ticks, any log capacity and all modes.          *)
(***************************************************************************)

\* Every command, active expire cycle and tick leaves a well-typed world whose
\* execution unit is closed: step() of model/step.rs.
THEOREM TypeCorrect == Spec => []TypeOK
<1>1. IInv => TypeOK
  BY DEF IInv, Sound, TypeOK
<1> QED
  BY <1>1, SpecIInv, PTL

\* P-05: no path that removes a key (lazy or active expiry, DEL, EXPIRE or SET
\* with an elapsed time) leaves a TTL or a value behind in the slot.
THEOREM ExpiresStaySubsetOfKeys == Spec => []ExpiresSubsetOfKeys
<1>1. IInv => ExpiresSubsetOfKeys
  BY DEF IInv, Sound, ExpiresSubsetOfKeys
<1> QED
  BY <1>1, SpecIInv, PTL

\* The two views of WATCH, a client's own flags and the key's ordered list of
\* watchers, stay in step through watch_key, unwatch_all and touch_watched_key.
THEOREM WatchTableStaysConsistent == Spec => []WatchTableConsistent
<1>1. IInv => WatchTableConsistent
  BY DEF IInv, Sound, WatchTableConsistent
<1> QED
  BY <1>1, SpecIInv, PTL

\* FINDINGS.md F-01: where write lookups delete an expired key, no schedule of
\* steps reaches an "already expired" flag on a key that is absent or live, so
\* touch_watched_key never takes its `break` after a write.
THEOREM ExpiredFlagsStayFresh == Spec => []NoStaleExpiredFlag
<1>1. IInv => NoStaleExpiredFlag
  BY DEF IInv, Sound, NoStaleExpiredFlag
<1> QED
  BY <1>1, SpecIInv, PTL

\* P-07 and P-08: in the same configurations, every write that counts a change
\* dirties every watcher of its key that had not already seen it expired.
THEOREM WritesDirtyEveryWatcher ==
    Spec => [](ForcesDelete(world.mode) => WriteDirtiesEveryWatcher)
<1>1. IInv => (ForcesDelete(world.mode) => WriteDirtiesEveryWatcher)
  BY IInvDirties
<1> QED
  BY <1>1, SpecIInv, PTL

-----------------------------------------------------------------------------
(***************************************************************************)
(* What the clients of one world can see: the observers agree, nothing but *)
(* SET brings a key into sight, and a replica leaves expired keys to its   *)
(* master.                                                                 *)
(*                                                                         *)
(* The key fact is LookupFinds: where expired keys are hidden, a lookup    *)
(* finds a key exactly when KEYS would list it, whichever of the early     *)
(* returns of expire_if_needed it takes, and it removes only keys that     *)
(* were out of sight.                                                      *)
(***************************************************************************)

-----------------------------------------------------------------------------
(***************************************************************************)
(* What the operators do to slots, clock and mode                          *)
(***************************************************************************)
\* Opening a unit changes no slot and no time.
LEMMA EnterKeeps ==
    ASSUME NEW w, Sound(w)
    PROVE  LET u == EnterExecutionUnit(w)
           IN /\ Sound(u) /\ u.slots = w.slots /\ u.clock = w.clock /\ u.mode = w.mode
              /\ u.clients = w.clients /\ u.watched = w.watched /\ u.repl = w.repl
              /\ u.nesting = w.nesting + 1
  BY EnterSound DEF EnterExecutionUnit, Sound, World

\* Nor does closing one.
LEMMA ExitKeeps ==
    ASSUME NEW w \in World
    PROVE  LET u == ExitExecutionUnit(w)
           IN /\ u.slots = w.slots /\ u.clock = w.clock /\ u.mode = w.mode
              /\ u.clients = w.clients /\ u.watched = w.watched /\ u.repl = w.repl
  BY DEF ExitExecutionUnit, World

\* A command in its unit: its world but for the counters, and its reply.
LEMMA RunCmdIs ==
    ASSUME NEW w, Sound(w), NEW cmd \in Command
    PROVE  LET done == Exec(EnterExecutionUnit(w), cmd)
               u == RunCmd(w, cmd).world
           IN /\ u.slots = done.world.slots /\ u.clock = done.world.clock
              /\ u.mode = done.world.mode /\ u.clients = done.world.clients
              /\ u.watched = done.world.watched /\ u.repl = done.world.repl
              /\ RunCmd(w, cmd).reply = done.reply
<1> DEFINE done == Exec(EnterExecutionUnit(w), cmd)
<1>1. done.world \in World
  BY EnterKeeps, ExecSound DEF SameUnit, Sound
<1>2. /\ RunCmd(w, cmd).world = ExitExecutionUnit(done.world)
      /\ RunCmd(w, cmd).reply = done.reply
  BY DEF RunCmd, CloseUnit, Result
<1> HIDE DEF done
<1> QED
  BY <1>1, <1>2, ExitKeeps DEF done

\* What is visible depends on slots, clock and mode only.
LEMMA VisibleSame ==
    ASSUME NEW w, NEW u, u.slots = w.slots, u.clock = w.clock, u.mode = w.mode
    PROVE  VisibleKeys(u) = VisibleKeys(w)
  BY DEF VisibleKeys, KeyIsExpired

\* The tail of a write assigns one slot.
LEMMA WriteSlotSlots ==
    ASSUME NEW w, Sound(w), NEW k \in Key, NEW slot \in Slot, NEW effect
    PROVE  LET u == WriteSlot(w, k, slot, effect)
           IN /\ u.slots = [w.slots EXCEPT ![k] = slot]
              /\ u.clock = w.clock /\ u.mode = w.mode
<1> DEFINE v == [w EXCEPT !.slots[k] = slot, !.dirty = @ + 1]
           t == Touch(v, {k})
<1>1. WriteSlot(w, k, slot, effect) = [t EXCEPT !.repl = Push(@, <<effect>>)]
  BY DEF WriteSlot
<1>2. /\ v \in World /\ v.slots = [w.slots EXCEPT ![k] = slot]
      /\ v.clock = w.clock /\ v.mode = w.mode
      /\ v.watched = w.watched /\ v.clients = w.clients
  <2>1. [w.slots EXCEPT ![k] = slot] \in [Key -> Slot] /\ w.dirty + 1 \in Nat
    BY DEF Sound, World
  <2> QED
    BY <2>1 DEF Sound, World
<1>3. TableIsConsistent(v)
  BY <1>2 DEF Sound, TableIsConsistent, Watchers
<1> HIDE DEF v
<1>4. t \in World /\ t.slots = v.slots /\ t.clock = v.clock /\ t.mode = v.mode
  BY <1>2, <1>3, TouchKeeps
<1> HIDE DEF t
<1> QED
  BY <1>1, <1>2, <1>4 DEF World

-----------------------------------------------------------------------------
(***************************************************************************)
(* Lookups                                                                 *)
(***************************************************************************)
\* Where expired keys are hidden, every lookup finds what KEYS would list, with
\* its value, and may remove its key only if that was out of sight.
LEMMA LookupFinds ==
    ASSUME NEW w, Sound(w), HidesExpired(w.mode), NEW k \in Key,
           NEW flags \in {ReadFlags, WriteFlags}
    PROVE  LET e == Lookup(w, k, flags)
           IN /\ e.value = IF k \in VisibleKeys(w) THEN w.slots[k].value ELSE NoValue
              /\ Sound(e.world) /\ e.world.clock = w.clock /\ e.world.mode = w.mode
              /\ k \in VisibleKeys(w) => e.world = w
              /\ e.world.slots = w.slots \/ e.world.slots = [w.slots EXCEPT ![k] = AbsentSlot]
<1> DEFINE e == Lookup(w, k, flags)
           d == DeleteExpiredAndPropagate(w, {k})
<1>1. CASE ~w.slots[k].present
  BY <1>1 DEF Lookup, VisibleKeys
<1>2. CASE w.slots[k].present /\ ~KeyIsExpired(w, k)
  BY <1>2 DEF Lookup, VisibleKeys, ExpireIfNeeded, Found
<1>3. CASE w.slots[k].present /\ KeyIsExpired(w, k)
  <2>1. ~flags.allow_access_expired /\ ~SeenFromMaster(w.mode)
    BY DEF ReadFlags, WriteFlags, HidesExpired
  <2>2. e \in {[world |-> w, value |-> NoValue], [world |-> d, value |-> NoValue]}
    BY <1>3, <2>1 DEF Lookup, ExpireIfNeeded, Found
  <2>3. /\ Sound(d) /\ d.clock = w.clock /\ d.mode = w.mode
        /\ d.slots = [j \in Key |-> IF j \in {k} THEN AbsentSlot ELSE w.slots[j]]
    BY DeleteExpiredSound
  <2>4. d.slots = [w.slots EXCEPT ![k] = AbsentSlot]
    BY <2>3 DEF Sound, World
  <2>5. k \notin VisibleKeys(w)
    BY <1>3 DEF VisibleKeys
  <2> HIDE DEF d, e
  <2> QED
    BY <2>2, <2>3, <2>4, <2>5 DEF e
<1> QED
  BY <1>1, <1>2, <1>3

\* A lookup changes nothing that can be seen.
LEMMA LookupHidesNothing ==
    ASSUME NEW w, Sound(w), HidesExpired(w.mode), NEW k \in Key,
           NEW flags \in {ReadFlags, WriteFlags}
    PROVE  VisibleKeys(Lookup(w, k, flags).world) = VisibleKeys(w)
<1> DEFINE u == Lookup(w, k, flags).world
<1>1. /\ u.clock = w.clock /\ u.mode = w.mode
      /\ k \in VisibleKeys(w) => u = w
      /\ u.slots = w.slots \/ u.slots = [w.slots EXCEPT ![k] = AbsentSlot]
  BY LookupFinds
<1> HIDE DEF u
<1>2. CASE u.slots = w.slots
  BY <1>1, <1>2, VisibleSame DEF u
<1>3. CASE k \notin VisibleKeys(w) /\ u.slots = [w.slots EXCEPT ![k] = AbsentSlot]
  BY <1>1, <1>3 DEF VisibleKeys, KeyIsExpired, AbsentSlot, Sound, World, u
<1> QED
  BY <1>1, <1>2, <1>3 DEF u

\* A value that a slot of a sound world holds in sight is a string, never the
\* "nothing found" of a lookup.
LEMMA VisibleValue ==
    ASSUME NEW w, Sound(w), NEW k \in VisibleKeys(w)
    PROVE  w.slots[k].value # NoValue
  BY NoValueAssumption, EmptyStrAssumption DEF Sound, World, Slot, VisibleKeys

-----------------------------------------------------------------------------
(***************************************************************************)
(* The invariants                                                          *)
(***************************************************************************)
\* GET misses exactly the keys that KEYS leaves out.
LEMMA KeysGet == IInv => KeysAgreesWithGet
<1> SUFFICES ASSUME IInv, HidesExpired(world.mode)
             PROVE  RunCmd(world, [op |-> "Keys"]).reply =
                      KeySetReply({k \in Key :
                          RunCmd(world, [op |-> "Get", key |-> k]).reply # NilReply})
  BY DEF KeysAgreesWithGet
<1> DEFINE w == EnterExecutionUnit(world)
<1>1. /\ Sound(w) /\ HidesExpired(w.mode) /\ VisibleKeys(w) = VisibleKeys(world)
      /\ Sound(world)
  BY EnterKeeps, VisibleSame DEF IInv
<1> HIDE DEF w
<1>2. RunCmd(world, [op |-> "Keys"]).reply = KeySetReply(VisibleKeys(world))
  <2>1. [op |-> "Keys"] \in Command
    BY DEF Command, ScanCmd
  <2>2. Exec(w, [op |-> "Keys"]) = Result(w, KeySetReply(VisibleKeys(w)))
    BY DEF Exec, LookupOp, CmdKeys
  <2> QED
    BY <1>1, <2>1, <2>2, RunCmdIs DEF Result, w
<1>3. ASSUME NEW k \in Key
      PROVE  RunCmd(world, [op |-> "Get", key |-> k]).reply # NilReply
                <=> k \in VisibleKeys(world)
  <2> DEFINE cmd == [op |-> "Get", key |-> k]
             read == LookupKeyRead(w, k)
  <2>1. cmd \in Command
    BY DEF Command, KeyCmd, LookupCmd, LookupOp
  <2>2. Exec(w, cmd).reply = StrReply(read.value)
    BY DEF Exec, LookupOp, CmdLookup, Answered, LookupReply, Result
  <2>3. read.value = IF k \in VisibleKeys(w) THEN w.slots[k].value ELSE NoValue
    BY <1>1, LookupFinds DEF LookupKeyRead
  <2>4. RunCmd(world, cmd).reply = StrReply(read.value)
    BY <1>1, <2>1, <2>2, RunCmdIs DEF w
  <2> HIDE DEF cmd, read
  <2>5. StrReply(read.value) # NilReply <=> read.value # NoValue
    BY DEF StrReply, NilReply
  <2>6. read.value # NoValue <=> k \in VisibleKeys(world)
    BY <1>1, <2>3, VisibleValue
  <2> QED
    BY <2>4, <2>5, <2>6 DEF cmd
<1>4. VisibleKeys(world) \subseteq Key
  BY DEF VisibleKeys
<1>5. {k \in Key : RunCmd(world, [op |-> "Get", key |-> k]).reply # NilReply}
        = VisibleKeys(world)
  BY <1>3, <1>4
<1> QED
  BY <1>2, <1>5

\* A key in sight has time left, so PTTL's -1 and -2 keep their meaning.
LEMMA PttlSays == IInv => PttlIsUnambiguous
<1> SUFFICES ASSUME IInv, HidesExpired(world.mode), NEW k \in Key
             PROVE  LET n == RunCmd(world, [op |-> "Pttl", key |-> k]).reply.n
                    IN /\ n = -2 <=> k \notin VisibleKeys(world)
                       /\ n = -1 <=> k \in VisibleKeys(world)
                                     /\ world.slots[k].expire_at = NoExpire
                       /\ n >= -2
  BY DEF PttlIsUnambiguous
<1> DEFINE w == EnterExecutionUnit(world)
           cmd == [op |-> "Pttl", key |-> k]
           read == LookupKeyRead(w, k)
<1>1. /\ Sound(w) /\ HidesExpired(w.mode) /\ VisibleKeys(w) = VisibleKeys(world)
      /\ Sound(world) /\ w.slots = world.slots /\ w.clock = world.clock
      /\ w.mode = world.mode
  BY EnterKeeps, VisibleSame DEF IInv
<1>2. Exec(w, cmd).reply = PttlReply(read.world, k, read.value)
  BY DEF Exec, LookupOp, CmdLookup, Answered, LookupReply, Result
<1>3. cmd \in Command
  BY DEF Command, KeyCmd, LookupCmd, LookupOp
<1>4. RunCmd(world, cmd).reply = PttlReply(read.world, k, read.value)
  BY <1>1, <1>2, <1>3, RunCmdIs
<1> HIDE DEF w, cmd
<1>5. /\ read.value = IF k \in VisibleKeys(w) THEN w.slots[k].value ELSE NoValue
      /\ k \in VisibleKeys(w) => read.world = w
  BY <1>1, LookupFinds DEF LookupKeyRead
<1> HIDE DEF read
<1>6. CASE k \notin VisibleKeys(world)
  BY <1>1, <1>4, <1>5, <1>6 DEF PttlReply, IntReply, cmd
<1>7. CASE k \in VisibleKeys(world)
  <2>1. read.value # NoValue /\ read.world = w
    BY <1>1, <1>5, <1>7, VisibleValue
  <2>2. world.slots[k].expire_at \in ExpireTimes \cup {NoExpire} /\ world.clock \in Nat
    BY <1>1 DEF Sound, World, Slot
  <2>3. /\ world.slots[k].expire_at # NoExpire
             => world.clock <= world.slots[k].expire_at
        /\ world.slots[k].expire_at # NoExpire => world.slots[k].expire_at \in Nat
    <3>1. world.slots[k].expire_at \in Nat \cup {-1}
      BY <2>2, ExpireTimesAssumption DEF NoExpire
    <3>2. ~ KeyIsExpired(world, k)
      BY <1>7 DEF VisibleKeys
    <3> QED
      BY <2>2, <3>1, <3>2 DEF KeyIsExpired, HidesExpired, NoExpire
  <2>4. RunCmd(world, cmd).reply.n =
           IF world.slots[k].expire_at = NoExpire THEN -1
           ELSE world.slots[k].expire_at - world.clock
    BY <1>1, <1>4, <2>1 DEF PttlReply, IntReply
  <2> QED
    BY <1>7, <2>2, <2>3, <2>4 DEF cmd
<1> QED
  BY <1>6, <1>7

\* After an active cycle every key that is present is in sight: what the lookups
\* call expired, the cycle, one millisecond earlier, has called expired too.
LEMMA CycleReconciles == IInv => ActiveCycleReconcilesDbSize
<1> SUFFICES ASSUME IInv, world.mode.role = "Master", ~world.mode.expire_paused
             PROVE  LET after == RunActiveExpire(world)
                    IN RunCmd(after, [op |-> "DbSize"]).reply =
                       IntReply(Cardinality(RunCmd(after, [op |-> "Keys"]).reply.keys))
  BY DEF ActiveCycleReconcilesDbSize
<1> DEFINE w == EnterExecutionUnit(world)
           due == {k \in Key : w.slots[k].present /\ ActiveCycleWouldExpire(w, k)}
           u == DeleteExpiredAndPropagate(w, due)
           after == RunActiveExpire(world)
           v == EnterExecutionUnit(after)
<1>1. Sound(w) /\ w.mode = world.mode /\ w.slots = world.slots /\ w.clock = world.clock
  BY EnterKeeps DEF IInv
<1>2. after = ExitExecutionUnit(u)
  BY <1>1 DEF RunActiveExpire, ActiveExpireCycle
<1>3. due \in SUBSET Key
  OBVIOUS
<1>4. Sound(after)
  BY RunActiveExpireSound DEF IInv
<1> HIDE DEF w, due, after
<1>5. /\ Sound(u) /\ u.clock = w.clock /\ u.mode = w.mode
      /\ u.slots = [k \in Key |-> IF k \in due THEN AbsentSlot ELSE w.slots[k]]
  BY <1>1, <1>3, DeleteExpiredSound
<1> HIDE DEF u
<1>6. after.slots = u.slots /\ after.clock = u.clock /\ after.mode = u.mode
  BY <1>2, <1>5, ExitKeeps DEF Sound
<1>7. Sound(v) /\ v.slots = u.slots /\ v.clock = u.clock /\ v.mode = u.mode
  BY <1>4, <1>6, EnterKeeps
<1> HIDE DEF v
<1>8. {k \in Key : v.slots[k].present} = VisibleKeys(v)
  <2> SUFFICES ASSUME NEW k \in Key, v.slots[k].present PROVE ~KeyIsExpired(v, k)
    BY DEF VisibleKeys
  <2>1. k \notin due /\ v.slots[k] = w.slots[k] /\ v.clock = w.clock
    BY <1>5, <1>7 DEF AbsentSlot
  <2>2. ~ActiveCycleWouldExpire(w, k)
    BY <2>1 DEF due
  <2>3. w.clock \in Nat /\ w.slots[k].expire_at \in ExpireTimes \cup {NoExpire}
    BY <1>1 DEF Sound, World, Slot
  <2>4. w.slots[k].expire_at \in Nat \cup {-1}
    BY <2>3, ExpireTimesAssumption DEF NoExpire
  <2> QED
    BY <2>1, <2>2, <2>3, <2>4 DEF ActiveCycleWouldExpire, KeyIsExpired
<1>9. /\ [op |-> "Keys"] \in Command /\ [op |-> "DbSize"] \in Command
      /\ Exec(v, [op |-> "Keys"]) = Result(v, KeySetReply(VisibleKeys(v)))
      /\ Exec(v, [op |-> "DbSize"]) =
            Result(v, IntReply(Cardinality({k \in Key : v.slots[k].present})))
  BY DEF Command, ScanCmd, Exec, LookupOp, CmdKeys, CmdDbSize
<1>10. /\ RunCmd(after, [op |-> "Keys"]).reply = KeySetReply(VisibleKeys(v))
       /\ RunCmd(after, [op |-> "DbSize"]).reply =
             IntReply(Cardinality({k \in Key : v.slots[k].present}))
  <2>1. \A cmd \in Command : RunCmd(after, cmd).reply = Exec(v, cmd).reply
    BY <1>4, RunCmdIs DEF v
  <2>2. /\ Exec(v, [op |-> "Keys"]).reply = KeySetReply(VisibleKeys(v))
        /\ Exec(v, [op |-> "DbSize"]).reply =
              IntReply(Cardinality({k \in Key : v.slots[k].present}))
    BY <1>9 DEF Result
  <2>3. RunCmd(after, [op |-> "Keys"]).reply = Exec(v, [op |-> "Keys"]).reply
    BY <1>9, <2>1
  <2>4. RunCmd(after, [op |-> "DbSize"]).reply = Exec(v, [op |-> "DbSize"]).reply
    BY <1>9, <2>1
  <2> QED
    BY <2>2, <2>3, <2>4
<1>11. RunCmd(after, [op |-> "Keys"]).reply.keys = VisibleKeys(v)
  BY <1>10 DEF KeySetReply
<1> QED
  BY <1>8, <1>10, <1>11 DEF after

\* A write whose lookup found its key can only take keys out of sight, and all
\* commands on a key but SET do nothing else.
LEMMA OthersReviveNothing ==
    ASSUME NEW w, Sound(w), HidesExpired(w.mode), NEW cmd \in KeyCmd \ SetCmd
    PROVE  VisibleKeys(Exec(w, cmd).world) \subseteq VisibleKeys(w)
<1> DEFINE k == cmd.key
           write == LookupKeyWrite(w, k)
           u == write.world
           after == Exec(w, cmd).world
           retimed(at) == [u.slots[k] EXCEPT !.expire_at = at]
<1>1. k \in Key
  BY DEF KeyCmd, ExpireCmd, RemoveCmd, LookupCmd
<1>2. /\ Sound(u) /\ u.clock = w.clock /\ u.mode = w.mode
      /\ VisibleKeys(u) = VisibleKeys(w)
      /\ write.value # NoValue => k \in VisibleKeys(w)
  BY <1>1, LookupFinds, LookupHidesNothing DEF LookupKeyWrite
<1> HIDE DEF k
<1>3. ASSUME NEW slot \in Slot, NEW effect,
             slot.present => k \in VisibleKeys(w)
      PROVE  VisibleKeys(WriteSlot(u, k, slot, effect)) \subseteq VisibleKeys(w)
  <2> DEFINE x == WriteSlot(u, k, slot, effect)
  <2>1. /\ x.slots = [u.slots EXCEPT ![k] = slot] /\ x.clock = u.clock /\ x.mode = u.mode
    BY <1>1, <1>2, WriteSlotSlots
  <2> HIDE DEF x
  <2>2. ASSUME NEW j \in VisibleKeys(x) PROVE j \in VisibleKeys(w)
    <3>1. CASE j = k
      BY <1>1, <1>2, <1>3, <2>1, <2>2, <3>1 DEF VisibleKeys, Sound, World
    <3>2. CASE j # k
      <4>1. j \in VisibleKeys(u)
        BY <1>1, <1>2, <2>1, <2>2, <3>2 DEF VisibleKeys, KeyIsExpired, Sound, World
      <4> QED
        BY <1>2, <4>1
    <3> QED
      BY <3>1, <3>2
  <2> QED
    BY <2>2 DEF x
<1>4. AbsentSlot \in Slot /\ ~AbsentSlot.present
  BY DEF AbsentSlot, Slot
<1>5. \A at \in ExpireTimes \cup {NoExpire} : retimed(at) \in Slot
  <2> HIDE DEF write
  <2>1. u.slots[k] \in Slot
    BY <1>1, <1>2 DEF Sound, World
  <2> HIDE DEF u
  <2> QED
    BY <2>1 DEF Slot
<1> HIDE DEF retimed
<1>6. VisibleKeys(DeleteSlot(u, k)) \subseteq VisibleKeys(w)
  BY <1>3, <1>4 DEF DeleteSlot
<1>7. CASE cmd \in LookupCmd
  <2>1. Exec(w, cmd).world = LookupKeyRead(w, k).world
    BY <1>7 DEF LookupCmd, LookupOp, Exec, CmdLookup, Answered, Result, k
  <2> QED
    BY <1>1, <2>1, LookupHidesNothing DEF LookupKeyRead
<1>8. CASE cmd \in RemoveCmd
  <2>1. cmd.op \in {"Del", "Persist"}
    BY <1>8 DEF RemoveCmd
  <2>2. \/ after \in {u, DeleteSlot(u, k)}
        \/ write.value # NoValue
           /\ after = WriteSlot(u, k, retimed(NoExpire), PersistEffect(k))
    BY <2>1 DEF Exec, LookupOp, CmdDel, CmdPersist, DelFound, PersistFound, Result, k,
                retimed
  <2> HIDE DEF write, after
  <2> QED
    BY <1>2, <1>3, <1>5, <1>6, <2>2 DEF after
<1>9. CASE cmd \in ExpireCmd
  <2>1. cmd.op = "Expire" /\ cmd.at \in ExpireTimes
    BY <1>9 DEF ExpireCmd
  <2>2. \/ after \in {u, DeleteSlot(u, k)}
        \/ write.value # NoValue
           /\ after = WriteSlot(u, k, retimed(cmd.at), PExpireAtEffect(k, cmd.at))
    BY <2>1 DEF Exec, LookupOp, CmdExpire, ExpireFound, Result, k, retimed
  <2> HIDE DEF write, after
  <2> QED
    BY <1>2, <1>3, <1>5, <1>6, <2>1, <2>2 DEF after
<1> QED
  BY <1>7, <1>8, <1>9 DEF KeyCmd

\* In its execution unit too.
LEMMA OnlySet == IInv => OnlySetRevives
<1> SUFFICES ASSUME IInv, HidesExpired(world.mode), NEW cmd \in KeyCmd \ SetCmd
             PROVE  VisibleKeys(RunCmd(world, cmd).world) \subseteq VisibleKeys(world)
  BY DEF OnlySetRevives
<1> DEFINE w == EnterExecutionUnit(world)
           after == RunCmd(world, cmd).world
<1>1. Sound(w) /\ HidesExpired(w.mode) /\ VisibleKeys(w) = VisibleKeys(world)
  BY EnterKeeps, VisibleSame DEF IInv
<1>2. cmd \in Command /\ Sound(world)
  BY DEF Command, IInv
<1>3. /\ after.slots = Exec(w, cmd).world.slots /\ after.clock = Exec(w, cmd).world.clock
      /\ after.mode = Exec(w, cmd).world.mode
  BY <1>2, RunCmdIs
<1> HIDE DEF w, after
<1>4. VisibleKeys(after) = VisibleKeys(Exec(w, cmd).world)
  BY <1>3, VisibleSame
<1> QED
  BY <1>1, <1>4, OthersReviveNothing DEF after

\* On a replica a read lookup returns before it deletes.
LEMMA ReplicaReadsKeep ==
    ASSUME NEW w, w.mode.role = "ReadOnlyReplica", NEW k
    PROVE  LookupKeyRead(w, k).world = w
  BY DEF LookupKeyRead, Lookup, Found, ExpireIfNeeded, HiddenInPlace, ReadFlags

LEMMA ReplicaWaits == IInv => ReplicaWaitsForWrites
<1> SUFFICES ASSUME IInv, world.mode.role = "ReadOnlyReplica"
             PROVE  /\ \A cmd \in LookupCmd \cup ScanCmd :
                         NothingHappens(world, RunCmd(world, cmd).world)
                    /\ NothingHappens(world, RunActiveExpire(world))
  BY DEF ReplicaWaitsForWrites
<1> DEFINE w == EnterExecutionUnit(world)
<1>1. /\ Sound(w) /\ w.mode = world.mode /\ w.slots = world.slots /\ w.repl = world.repl
      /\ w.clients = world.clients /\ w.watched = world.watched /\ Sound(world)
  BY EnterKeeps DEF IInv
<1>2. NothingHappens(world, RunActiveExpire(world))
  <2>1. RunActiveExpire(world) = ExitExecutionUnit(w)
    BY <1>1 DEF RunActiveExpire, ActiveExpireCycle
  <2> HIDE DEF w
  <2>2. w \in World
    BY <1>1 DEF Sound
  <2> QED
    BY <1>1, <2>1, <2>2, ExitKeeps DEF NothingHappens
<1> HIDE DEF w
<1>3. ASSUME NEW cmd \in LookupCmd \cup ScanCmd
      PROVE  NothingHappens(world, RunCmd(world, cmd).world)
  <2>1. Exec(w, cmd).world = w
    <3>1. CASE cmd \in LookupCmd
      <4>1. Exec(w, cmd).world = LookupKeyRead(w, cmd.key).world
        BY <3>1 DEF LookupCmd, LookupOp, Exec, CmdLookup, Answered, Result
      <4> QED
        BY <1>1, <4>1, ReplicaReadsKeep
    <3>2. CASE cmd \in ScanCmd
      BY <3>2 DEF ScanCmd, LookupOp, Exec, CmdKeys, CmdDbSize, Result
    <3> QED
      BY <3>1, <3>2
  <2>2. cmd \in Command
    BY DEF Command, KeyCmd
  <2>3. /\ RunCmd(world, cmd).world.slots = w.slots
        /\ RunCmd(world, cmd).world.clients = w.clients
        /\ RunCmd(world, cmd).world.watched = w.watched
        /\ RunCmd(world, cmd).world.repl = w.repl
    BY <1>1, <2>1, <2>2, RunCmdIs DEF w
  <2> QED
    BY <1>1, <2>3 DEF NothingHappens
<1> QED
  BY <1>2, <1>3

-----------------------------------------------------------------------------
(***************************************************************************)
(* Theorems.  Each holds for every number of keys, clients and values, any *)
(* set of expiry times and ticks, any log capacity and all modes.          *)
(***************************************************************************)

\* KEYS, which filters for itself, and GET, which goes through the early returns
\* of expire_if_needed, agree in every reachable world that hides expired keys.
THEOREM KeysAndGetAgree == Spec => []KeysAgreesWithGet
  BY KeysGet, SpecIInv, PTL

\* PTTL's -2 and -1 mean "no such key" and "no deadline", and no remaining time
\* is ever so negative that it could be taken for them (cmd_pttl).
THEOREM PttlNeverLies == Spec => []PttlIsUnambiguous
  BY PttlSays, SpecIInv, PTL

\* P-12: after an active cycle DBSIZE counts exactly the keys that KEYS lists: the
\* two expiry comparisons of expire.rs differ in the safe direction.
THEOREM CyclesReconcileDbSize == Spec => []ActiveCycleReconcilesDbSize
  BY CycleReconciles, SpecIInv, PTL

\* No command but SET brings a key into sight, in whatever state the early returns
\* of expire_if_needed left it.
THEOREM HiddenKeysStayHidden == Spec => []OnlySetRevives
  BY OnlySet, SpecIInv, PTL

\* P-10, P-11: reads and active cycles on a replica change no slot, no watcher and
\* no log.
THEOREM ReplicasWaitForTheirMaster == Spec => []ReplicaWaitsForWrites
  BY ReplicaWaits, SpecIInv, PTL
=============================================================================
