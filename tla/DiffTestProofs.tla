--------------------------- MODULE DiffTestProofs --------------------------
(***************************************************************************)
(* Proofs about differential testing: for any number of keys, any length   *)
(* of the schedules and any drift that the margins allow, the two sides    *)
(* stay in lock step, a correct server is never accused and reading its    *)
(* snapshot does not change it, and a wrong one that is let off held the   *)
(* model's snapshot, but for TTLs that ran out while it was read.          *)
(*                                                                         *)
(* The key notion is Aligned(w, v): two worlds with one keyspace and two   *)
(* clocks that no deadline tells apart.  Every command takes aligned       *)
(* worlds to aligned worlds and draws replies that compare as equal.  What *)
(* is left is arithmetic (the clocks of the two sides stay on one side of  *)
(* every deadline), syntax (the server parses what the driver renders) and *)
(* the order of the reads of a snapshot.                                   *)
(***************************************************************************)
EXTENDS DiffTest, StepProofs

-----------------------------------------------------------------------------
(***************************************************************************)
(* Worlds of a differential test: a standalone master that nobody watches  *)
(***************************************************************************)
Clean(w) ==
    /\ Sound(w) /\ w.mode = StandaloneMaster
    /\ \A c \in Client : w.clients[c].watched_expired = {}

\* A standalone master forces deletions and hides what has expired.
LEMMA CleanModes ==
    ASSUME NEW w, Clean(w)
    PROVE  /\ ForcesDelete(w.mode) /\ HidesExpired(w.mode)
           /\ \A k \in Key : Unflagged(w, k)
  BY DEF Clean, ForcesDelete, HidesExpired, SeenFromMaster, StandaloneMaster, Unflagged

\* No deadline of a set lies between the two clocks, and a keyspace has no
\* others.  The set is that of the deadlines a schedule draws; a server that
\* got a slot wrong may have any.
SameSide(D, a, b) ==
    \A at \in D : (a > at <=> b > at) /\ (at <= a <=> at <= b)

Timed(D, slots) == \A k \in Key : slots[k].expire_at \in D \cup {NoExpire}

Aligned(D, w, v) ==
    /\ Clean(w) /\ Clean(v)
    /\ w.slots = v.slots /\ Timed(D, w.slots)
    /\ SameSide(D, w.clock, v.clock)

LEMMA TimedWith ==
    ASSUME NEW D, NEW slots \in [Key -> Slot], Timed(D, slots), NEW k \in Key,
           NEW slot, slot.expire_at \in D \cup {NoExpire}
    PROVE  Timed(D, [slots EXCEPT ![k] = slot])
  BY DEF Timed

\* A world at another time and with another keyspace
Moved(w, slots, clock, dirty) ==
    [w EXCEPT !.slots = slots, !.clock = clock, !.dirty = dirty]

\* Without flags any slots and any time make a sound world, as long as absent
\* slots are blank.
LEMMA CleanWith ==
    ASSUME NEW w, Clean(w), NEW clock \in Nat, NEW slots \in [Key -> Slot],
           NEW dirty \in Nat,
           \A k \in Key : slots[k].present \/ slots[k] = AbsentSlot
    PROVE  LET u == Moved(w, slots, clock, dirty)
           IN Clean(u) /\ u.slots = slots /\ u.clock = clock /\ u.dirty = dirty
<1> DEFINE u == Moved(w, slots, clock, dirty)
<1>1. /\ u.slots = slots /\ u.clock = clock /\ u.dirty = dirty /\ u.mode = w.mode
      /\ u.watched = w.watched /\ u.clients = w.clients
      /\ u \in World
  BY DEF Clean, Sound, World, Moved
<1> HIDE DEF u
<1>2. TableIsConsistent(u)
  BY <1>1 DEF Clean, Sound, TableIsConsistent, Watchers
<1>3. AbsentSlotsAreBlank(u)
  BY <1>1 DEF AbsentSlotsAreBlank
<1>4. FlagsAreFresh(u)
  BY <1>1 DEF Clean, FlagsAreFresh
<1> QED
  BY <1>1, <1>2, <1>3, <1>4 DEF Clean, Sound, u

\* The tail of a write on a world that nobody watches
LEMMA WriteClean ==
    ASSUME NEW w, Clean(w), NEW k \in Key, NEW slot \in Slot, NEW effect \in Effect,
           slot.present \/ slot = AbsentSlot
    PROVE  LET u == WriteSlot(w, k, slot, effect)
           IN /\ Clean(u) /\ u.clock = w.clock
              /\ u.slots = [w.slots EXCEPT ![k] = slot]
<1> DEFINE u == WriteSlot(w, k, slot, effect)
           v == [w EXCEPT !.slots[k] = slot, !.dirty = @ + 1]
           t == Touch(v, {k})
<1>1. Unflagged(w, k) /\ Sound(w)
  BY CleanModes DEF Clean
<1>2. Sound(u) /\ u.clock = w.clock /\ u.mode = w.mode
  BY <1>1, WriteSlotSound DEF Evolves
<1>3. u.slots = [w.slots EXCEPT ![k] = slot]
  BY <1>1, WriteSlotSlots
<1>4. u = [t EXCEPT !.repl = Push(@, <<effect>>)]
  BY DEF WriteSlot
<1> DEFINE slots == [w.slots EXCEPT ![k] = slot]
<1>5. v = Moved(w, slots, w.clock, w.dirty + 1)
  BY <1>1 DEF Sound, World, Moved
<1>6. Clean(v)
  <2>1. slots \in [Key -> Slot] /\ w.clock \in Nat /\ w.dirty + 1 \in Nat
    BY <1>1 DEF Sound, World
  <2>2. \A j \in Key : slots[j].present \/ slots[j] = AbsentSlot
    BY <1>1 DEF Sound, World, AbsentSlotsAreBlank
  <2> HIDE DEF slots, v
  <2> QED
    BY <1>5, <2>1, <2>2, CleanWith
<1> HIDE DEF v
<1>7. t \in World /\ \A c \in Client : t.clients[c].watched_expired
                                           \subseteq v.clients[c].watched_expired
  BY <1>6, TouchKeeps DEF Clean, Sound
<1> HIDE DEF t
<1>8. u.clients = t.clients
  BY <1>4, <1>7 DEF World
<1>9. \A c \in Client : u.clients[c].watched_expired = {}
  BY <1>6, <1>7, <1>8 DEF Clean
<1> QED
  BY <1>2, <1>3, <1>9 DEF Clean

\* Deleting expired keys of a world that nobody watches
LEMMA DeleteExpiredClean ==
    ASSUME NEW w, Clean(w), NEW ks \in SUBSET Key
    PROVE  LET u == DeleteExpiredAndPropagate(w, ks)
           IN /\ Clean(u) /\ u.clock = w.clock
              /\ u.slots = [k \in Key |-> IF k \in ks THEN AbsentSlot ELSE w.slots[k]]
<1> DEFINE order == SetToSeq(ks)
           slots == [k \in Key |-> IF k \in ks THEN AbsentSlot ELSE w.slots[k]]
           log == Push(w.repl, [i \in DOMAIN order |-> DelEffect(order[i])])
           v == [w EXCEPT !.slots = slots, !.repl = log, !.dirty = w.dirty + Cardinality(ks)]
           u == DeleteExpiredAndPropagate(w, ks)
<1>1. Sound(w)
  BY DEF Clean
<1>2. Sound(u) /\ u.clock = w.clock /\ u.mode = w.mode /\ u.slots = slots
  BY <1>1, DeleteExpiredSound
<1>3. u = Touch(v, ks)
  BY <1>1 DEF DeleteExpiredAndPropagate, Sound, World
<1>4. v.watched = w.watched /\ v.clients = w.clients
  BY <1>1 DEF Sound, World
<1>5. log \in Seq(Effect)
  <2>1. order \in [1..Cardinality(ks) -> ks] /\ Cardinality(ks) \in Nat
    BY SetToSeqType
  <2> DEFINE dels == [i \in DOMAIN order |-> DelEffect(order[i])]
  <2> HIDE DEF order
  <2>2. dels \in [1..Cardinality(ks) -> Effect]
    BY <2>1 DEF DelEffect, Effect
  <2>3. dels \in Seq(Effect)
    BY <2>1, <2>2, SeqDef
  <2> HIDE DEF dels
  <2>4. Push(w.repl, dels) \in Seq(Effect)
    BY <1>1, <2>3, PushType DEF Sound, World
  <2> QED
    BY <2>4 DEF dels
<1>6. slots \in [Key -> Slot] /\ w.dirty + Cardinality(ks) \in Nat
  BY <1>1, SetToSeqType DEF Sound, World, AbsentSlot, Slot
<1> HIDE DEF log, slots
<1>7. v \in World
  BY <1>1, <1>5, <1>6 DEF Sound, World
<1> HIDE DEF v
<1>8. TableIsConsistent(v)
  BY <1>1, <1>4 DEF Sound, TableIsConsistent, Watchers
<1>9. \A c \in Client : Touch(v, ks).clients[c].watched_expired
                          \subseteq v.clients[c].watched_expired
  BY <1>7, <1>8, TouchKeeps
<1> QED
  BY <1>2, <1>3, <1>4, <1>9 DEF Clean, slots
-----------------------------------------------------------------------------
(***************************************************************************)
(* Commands on aligned worlds                                              *)
(***************************************************************************)
\* A lookup of a standalone master: a key in sight is found, any other leaves a
\* blank slot.
LEMMA LookupClean ==
    ASSUME NEW w, Clean(w), NEW k \in Key, NEW flags \in {ReadFlags, WriteFlags}
    PROVE  LET e == Lookup(w, k, flags)
               seen == k \in VisibleKeys(w)
           IN /\ Clean(e.world) /\ e.world.clock = w.clock
              /\ seen => e.world = w /\ e.value = w.slots[k].value /\ e.value # NoValue
              /\ ~seen => /\ e.world.slots = [w.slots EXCEPT ![k] = AbsentSlot]
                          /\ e.value = NoValue
<1> DEFINE e == Lookup(w, k, flags)
           d == DeleteExpiredAndPropagate(w, {k})
<1>1. w.slots \in [Key -> Slot]
  BY DEF Clean, Sound, World
<1>2. CASE k \in VisibleKeys(w)
  <2>1. e = [world |-> w, value |-> w.slots[k].value]
    BY <1>2 DEF Lookup, ExpireIfNeeded, Found, VisibleKeys
  <2>2. w.slots[k].value # NoValue
    BY <1>2, VisibleValue DEF Clean
  <2> QED
    BY <1>2, <2>1, <2>2
<1>3. CASE ~w.slots[k].present
  <2>1. e = [world |-> w, value |-> NoValue] /\ k \notin VisibleKeys(w)
    BY <1>3 DEF Lookup, VisibleKeys
  <2>2. w.slots[k] = AbsentSlot
    BY <1>3 DEF Clean, Sound, AbsentSlotsAreBlank
  <2>3. w.slots = [w.slots EXCEPT ![k] = AbsentSlot]
    BY <1>1, <2>2
  <2> QED
    BY <2>1, <2>3
<1>4. CASE w.slots[k].present /\ KeyIsExpired(w, k)
  <2>1. e = [world |-> d, value |-> NoValue] /\ k \notin VisibleKeys(w)
    BY <1>4 DEF Lookup, ExpireIfNeeded, Found, VisibleKeys, SeenFromMaster,
                HiddenInPlace, ReadFlags, WriteFlags, Clean, StandaloneMaster
  <2>2. /\ Clean(d) /\ d.clock = w.clock
        /\ d.slots = [j \in Key |-> IF j \in {k} THEN AbsentSlot ELSE w.slots[j]]
    BY DeleteExpiredClean
  <2>3. d.slots = [w.slots EXCEPT ![k] = AbsentSlot]
    BY <1>1, <2>2
  <2> HIDE DEF d
  <2> QED
    BY <2>1, <2>2, <2>3
<1> QED
  BY <1>2, <1>3, <1>4 DEF VisibleKeys

\* Aligned worlds agree on what is expired, and so on what KEYS lists.
LEMMA AlignedVisible ==
    ASSUME NEW D \in SUBSET ExpireTimes,
           NEW w, NEW v, Aligned(D, w, v)
    PROVE  /\ VisibleKeys(w) = VisibleKeys(v)
           /\ \A at \in D :
                 CheckAlreadyExpired(w, at) <=> CheckAlreadyExpired(v, at)
<1>1. \A k \in Key : w.slots[k].expire_at \in D \cup {NoExpire}
  BY DEF Aligned, Timed
<1>2. \A k \in Key : KeyIsExpired(w, k) <=> KeyIsExpired(v, k)
  BY <1>1 DEF Aligned, Clean, SameSide, KeyIsExpired
<1> QED
  BY <1>2 DEF VisibleKeys, CheckAlreadyExpired, Aligned, Clean, SameSide

\* The two sides of a lookup
LEMMA LookupAligned ==
    ASSUME NEW D \in SUBSET ExpireTimes,
           NEW w, NEW v, Aligned(D, w, v), NEW k \in Key,
           NEW flags \in {ReadFlags, WriteFlags}
    PROVE  LET e == Lookup(w, k, flags)
               f == Lookup(v, k, flags)
           IN /\ Aligned(D, e.world, f.world)
              /\ e.world.clock = w.clock /\ f.world.clock = v.clock
              /\ e.value = f.value
              /\ e.value # NoValue => /\ e.value \in Value \cup {EmptyStr}
                                      /\ e.world = w /\ f.world = v
                                      /\ k \in VisibleKeys(w)
<1> DEFINE e == Lookup(w, k, flags)
           f == Lookup(v, k, flags)
           seen == k \in VisibleKeys(w)
<1>1. w.slots = v.slots /\ SameSide(D, w.clock, v.clock) /\ Clean(w) /\ Clean(v)
      /\ w.slots[k].value \in Value \cup {EmptyStr}
  BY DEF Aligned, Clean, Sound, World, Slot
<1>2. /\ Clean(e.world) /\ e.world.clock = w.clock
      /\ seen => e.world = w /\ e.value = w.slots[k].value /\ e.value # NoValue
      /\ ~seen => /\ e.world.slots = [w.slots EXCEPT ![k] = AbsentSlot]
                  /\ e.value = NoValue
  BY <1>1, LookupClean
<1>3. seen = (k \in VisibleKeys(v))
  BY AlignedVisible
<1>4. /\ Clean(f.world) /\ f.world.clock = v.clock
      /\ seen => f.world = v /\ f.value = v.slots[k].value
      /\ ~seen => /\ f.world.slots = [v.slots EXCEPT ![k] = AbsentSlot]
                  /\ f.value = NoValue
  BY <1>1, <1>3, LookupClean
<1> HIDE DEF e, f
<1>5. e.world.slots = f.world.slots /\ e.value = f.value
  BY <1>1, <1>2, <1>4
<1>8. Timed(D, e.world.slots)
  <2>1. w.slots \in [Key -> Slot] /\ Timed(D, w.slots)
    BY DEF Aligned, Clean, Sound, World
  <2>2. Timed(D, [w.slots EXCEPT ![k] = AbsentSlot])
    BY <2>1, TimedWith DEF AbsentSlot
  <2> QED
    BY <1>2, <2>1, <2>2
<1>6. Aligned(D, e.world, f.world)
  BY <1>1, <1>2, <1>4, <1>5, <1>8 DEF Aligned
<1>7. e.value # NoValue => seen
  BY <1>2
<1> QED
  BY <1>1, <1>2, <1>4, <1>5, <1>6, <1>7 DEF e, f

\* The two sides of a write, and of a deletion
\* What a command may write: a slot in use, its deadline in D, or the blank one
Writable(D, slot, effect) ==
    /\ slot \in Slot /\ effect \in Effect
    /\ slot.present \/ slot = AbsentSlot
    /\ slot.expire_at \in D \cup {NoExpire}

LEMMA WriteAligned ==
    ASSUME NEW D \in SUBSET ExpireTimes,
           NEW w, NEW v, Aligned(D, w, v), NEW k \in Key, NEW slot,
           NEW effect, Writable(D, slot, effect)
    PROVE  LET t == WriteSlot(w, k, slot, effect)
               u == WriteSlot(v, k, slot, effect)
           IN /\ Aligned(D, t, u)
              /\ t.clock = w.clock /\ u.clock = v.clock
<1> DEFINE t == WriteSlot(w, k, slot, effect)
           u == WriteSlot(v, k, slot, effect)
<1>1. Clean(t) /\ t.clock = w.clock /\ t.slots = [w.slots EXCEPT ![k] = slot]
  BY WriteClean DEF Aligned, Writable
<1>2. Clean(u) /\ u.clock = v.clock /\ u.slots = [v.slots EXCEPT ![k] = slot]
  BY WriteClean DEF Aligned, Writable
<1> HIDE DEF t, u
<1>3. Timed(D, [w.slots EXCEPT ![k] = slot])
  <2>1. w.slots \in [Key -> Slot] /\ Timed(D, w.slots)
    BY DEF Aligned, Clean, Sound, World
  <2>2. slot.expire_at \in D \cup {NoExpire}
    BY DEF Writable
  <2> QED
    BY <2>1, <2>2, TimedWith
<1>4. Aligned(D, t, u) /\ t.clock = w.clock /\ u.clock = v.clock
  BY <1>1, <1>2, <1>3 DEF Aligned
<1> QED
  BY <1>4 DEF t, u

LEMMA DeleteAligned ==
    ASSUME NEW D \in SUBSET ExpireTimes,
           NEW w, NEW v, Aligned(D, w, v), NEW k \in Key
    PROVE  /\ Aligned(D, DeleteSlot(w, k), DeleteSlot(v, k))
           /\ DeleteSlot(w, k).clock = w.clock /\ DeleteSlot(v, k).clock = v.clock
<1>1. AbsentSlot \in Slot /\ DelEffect(k) \in Effect /\ AbsentSlot.expire_at = NoExpire
  BY DEF AbsentSlot, Slot, DelEffect, Effect
<1>2. Writable(D, AbsentSlot, DelEffect(k))
  BY <1>1 DEF Writable
<1> QED
  BY <1>2, WriteAligned DEF DeleteSlot

\* What the two lookups leave on both sides
LEMMA LookupWriteAligned ==
    ASSUME NEW D \in SUBSET ExpireTimes,
           NEW w, NEW v, Aligned(D, w, v), NEW k \in Key
    PROVE  LET e == LookupKeyWrite(w, k)
               f == LookupKeyWrite(v, k)
           IN /\ Aligned(D, e.world, f.world)
              /\ e.world.clock = w.clock /\ f.world.clock = v.clock
              /\ e.value = f.value
              /\ e.value # NoValue => e.world = w /\ k \in VisibleKeys(w)
<1> DEFINE flags == WriteFlags
<1>1. flags \in {ReadFlags, WriteFlags}
  OBVIOUS
<1> HIDE DEF flags
<1>2. LET e == Lookup(w, k, flags)
          f == Lookup(v, k, flags)
      IN /\ Aligned(D, e.world, f.world)
         /\ e.world.clock = w.clock /\ f.world.clock = v.clock
         /\ e.value = f.value
         /\ e.value # NoValue => e.world = w /\ k \in VisibleKeys(w)
  BY <1>1, LookupAligned
<1> QED
  BY <1>2 DEF LookupKeyWrite, flags
-----------------------------------------------------------------------------
Reply == {OkReply, NilReply, TypeReply, NoTypeReply}
         \cup {IntReply(n) : n \in Int}
         \cup {StrReply(v) : v \in Value \cup {EmptyStr}}
         \cup {KeySetReply(ks) : ks \in SUBSET Key}

\* Two results of one command, on worlds w and v
StillAligned(D, r, s, w, v) ==
    /\ Aligned(D, r.world, s.world)
    /\ r.world.clock = w.clock /\ s.world.clock = v.clock

Alike(D, r, s, w, v) ==
    StillAligned(D, r, s, w, v) /\ r.reply = s.reply /\ r.reply \in Reply

LEMMA AlikeResult ==
    ASSUME NEW D \in SUBSET ExpireTimes,
           NEW w, NEW v, NEW t, NEW u, Aligned(D, t, u), t.clock = w.clock,
           u.clock = v.clock, NEW reply \in Reply
    PROVE  Alike(D, Result(t, reply), Result(u, reply), w, v)
  BY DEF Alike, StillAligned, Result

\* SET after its lookups: refused, an elapsed PXAT, or a write, on both sides
LEMMA SetFoundAligned ==
    ASSUME NEW D \in SUBSET ExpireTimes,
           NEW x, NEW y, Aligned(D, x.world, y.world), x.value = y.value,
           NEW old \in Value \cup {EmptyStr, NoValue},
           NEW cmd \in SetCmd, DeadlinesOf(cmd) \subseteq D
    PROVE  Alike(D, SetFound(x, old, cmd), SetFound(y, old, cmd), x.world, y.world)
<1> DEFINE w == x.world
           v == y.world
           k == cmd.key
           exists == x.value # NoValue
           at == NewExpire(w, k, cmd.ttl, exists)
           slot == [present |-> TRUE, value |-> cmd.val, expire_at |-> at]
           effect == SetEffect(k, cmd.val, at)
           reply == SetReply(cmd, old)
           elapsed == cmd.ttl.kind = "PxAt" /\ CheckAlreadyExpired(w, cmd.ttl.at)
           doomed == exists \/ w.slots[k].present
<1>1. k \in Key /\ cmd.val \in Value /\ cmd.ttl \in TtlArg /\ cmd.get \in BOOLEAN
  BY DEF SetCmd
<1>2. w.slots = v.slots /\ Sound(w)
  BY DEF Aligned, Clean
<1>3. at = NewExpire(v, k, cmd.ttl, exists) /\ at \in ExpireTimes \cup {NoExpire}
  BY <1>1, <1>2, NewExpireType DEF NewExpire
<1>4. slot \in Slot /\ effect \in Effect
  BY <1>1, <1>3 DEF Slot, SetEffect, Effect
<1>15. cmd.ttl.kind = "PxAt" => cmd.ttl.at \in D
  BY DEF DeadlinesOf, SetCmd
<1>16. slot.expire_at \in D \cup {NoExpire}
  <2>1. w.slots[k].expire_at \in D \cup {NoExpire}
    BY <1>1 DEF Aligned, Timed
  <2> QED
    BY <1>1, <1>15, <2>1 DEF NewExpire, TtlArg, NoTtl, KeepTtl, PxAt
<1>5. StrReply(old) \in Reply /\ reply \in Reply
  BY <1>1 DEF SetReply, Reply, StrReply
<1>6. elapsed <=> cmd.ttl.kind = "PxAt" /\ CheckAlreadyExpired(v, cmd.ttl.at)
  BY <1>15, AlignedVisible
<1>7. SetFound(x, old, cmd) =
        IF ~SetAllowed(cmd.cond, exists) THEN Result(w, StrReply(old))
        ELSE IF elapsed THEN Result(IF doomed THEN DeleteSlot(w, k) ELSE w, reply)
        ELSE Result(WriteSlot(w, k, slot, effect), reply)
  BY DEF SetFound
<1>8. SetFound(y, old, cmd) =
        IF ~SetAllowed(cmd.cond, exists) THEN Result(v, StrReply(old))
        ELSE IF elapsed THEN Result(IF doomed THEN DeleteSlot(v, k) ELSE v, reply)
        ELSE Result(WriteSlot(v, k, slot, effect), reply)
  BY <1>2, <1>3, <1>6 DEF SetFound
<1>9. slot.present
  OBVIOUS
<1> HIDE DEF w, v, k, exists, at, slot, effect, reply, elapsed, doomed
<1>10. Aligned(D, w, v)
  BY DEF w, v
<1>17. Writable(D, slot, effect)
  BY <1>4, <1>9, <1>16 DEF Writable
<1>11. CASE ~SetAllowed(cmd.cond, exists)
  BY <1>5, <1>7, <1>8, <1>10, <1>11, AlikeResult DEF w, v
<1>12. CASE SetAllowed(cmd.cond, exists) /\ elapsed /\ doomed
  <2>1. /\ Aligned(D, DeleteSlot(w, k), DeleteSlot(v, k))
        /\ DeleteSlot(w, k).clock = w.clock /\ DeleteSlot(v, k).clock = v.clock
    BY <1>1, <1>10, DeleteAligned
  <2>2. Alike(D, Result(DeleteSlot(w, k), reply), Result(DeleteSlot(v, k), reply), w, v)
    BY <1>5, <2>1, AlikeResult
  <2> QED
    BY <1>7, <1>8, <1>12, <2>2 DEF w, v
<1>13. CASE SetAllowed(cmd.cond, exists) /\ elapsed /\ ~doomed
  <2>1. Alike(D, Result(w, reply), Result(v, reply), w, v)
    BY <1>5, <1>10, AlikeResult
  <2> QED
    BY <1>7, <1>8, <1>13, <2>1 DEF w, v
<1>14. CASE SetAllowed(cmd.cond, exists) /\ ~elapsed
  <2> DEFINE t == WriteSlot(w, k, slot, effect)
             u == WriteSlot(v, k, slot, effect)
  <2>1. Aligned(D, t, u) /\ t.clock = w.clock /\ u.clock = v.clock
    BY <1>1, <1>10, <1>17, WriteAligned
  <2> HIDE DEF t, u
  <2>2. Alike(D, Result(t, reply), Result(u, reply), w, v)
    BY <1>5, <2>1, AlikeResult
  <2> QED
    BY <1>7, <1>8, <1>14, <2>2 DEF w, v, t, u
<1> QED
  BY <1>11, <1>12, <1>13, <1>14

\* SET: the GET option looks the key up once more, for reading.
LEMMA SetAligned ==
    ASSUME NEW D \in SUBSET ExpireTimes,
           NEW w, NEW v, Aligned(D, w, v), NEW cmd \in SetCmd, DeadlinesOf(cmd) \subseteq D
    PROVE  Alike(D, Exec(w, cmd), Exec(v, cmd), w, v)
<1> DEFINE k == cmd.key
           Read(u) == IF cmd.get THEN LookupKeyRead(u, k)
                      ELSE [world |-> u, value |-> NoValue]
           x == Read(w)
           y == Read(v)
           e == LookupKeyWrite(x.world, k)
           f == LookupKeyWrite(y.world, k)
<1>1. cmd.op = "Set" /\ k \in Key
  BY DEF SetCmd
<1>2. /\ Aligned(D, x.world, y.world) /\ x.value = y.value
      /\ x.world.clock = w.clock /\ y.world.clock = v.clock
      /\ x.value \in Value \cup {EmptyStr, NoValue}
  BY <1>1, LookupAligned DEF LookupKeyRead
<1>3. Exec(w, cmd) = SetFound(e, x.value, cmd) /\ Exec(v, cmd) = SetFound(f, y.value, cmd)
  BY <1>1 DEF Exec, CmdSet, SetAfterGet, LookupOp
<1> HIDE DEF x, y
<1>4. /\ Aligned(D, e.world, f.world) /\ e.value = f.value
      /\ e.world.clock = x.world.clock /\ f.world.clock = y.world.clock
  BY <1>1, <1>2, LookupWriteAligned
<1> HIDE DEF e, f
<1>5. Alike(D, SetFound(e, x.value, cmd), SetFound(f, x.value, cmd), e.world, f.world)
  BY <1>2, <1>4, SetFoundAligned
<1> QED
  BY <1>2, <1>3, <1>4, <1>5 DEF Alike, StillAligned
\* The replies of the commands that count or look up
LEMMA PlainReplies ==
    /\ OkReply \in Reply /\ NilReply \in Reply /\ TypeReply \in Reply
    /\ NoTypeReply \in Reply
    /\ \A n \in Int : IntReply(n) \in Reply
    /\ \A v \in Value \cup {EmptyStr, NoValue} : StrReply(v) \in Reply
    /\ \A ks \in SUBSET Key : KeySetReply(ks) \in Reply
  BY DEF Reply, StrReply

\* DEL: the write lookup, and the deletion of what it found
LEMMA DelAligned ==
    ASSUME NEW D \in SUBSET ExpireTimes,
           NEW w, NEW v, Aligned(D, w, v), NEW cmd \in RemoveCmd, cmd.op = "Del"
    PROVE  Alike(D, Exec(w, cmd), Exec(v, cmd), w, v)
<1> DEFINE k == cmd.key
           e == LookupKeyWrite(w, k)
           f == LookupKeyWrite(v, k)
           t == DeleteSlot(e.world, k)
           u == DeleteSlot(f.world, k)
<1>1. k \in Key
  BY DEF RemoveCmd
<1>2. /\ Aligned(D, e.world, f.world) /\ e.value = f.value
      /\ e.world.clock = w.clock /\ f.world.clock = v.clock
  BY <1>1, LookupWriteAligned
<1>3. /\ Exec(w, cmd) = IF e.value = NoValue THEN Result(e.world, IntReply(0))
                        ELSE Result(t, IntReply(1))
      /\ Exec(v, cmd) = IF f.value = NoValue THEN Result(f.world, IntReply(0))
                        ELSE Result(u, IntReply(1))
  BY DEF Exec, CmdDel, DelFound, LookupOp
<1> HIDE DEF e, f
<1>4. Aligned(D, t, u) /\ t.clock = e.world.clock /\ u.clock = f.world.clock
  BY <1>1, <1>2, DeleteAligned
<1> HIDE DEF t, u
<1>5. Alike(D, Result(e.world, IntReply(0)), Result(f.world, IntReply(0)), w, v)
  BY <1>2, PlainReplies, AlikeResult
<1>6. Alike(D, Result(t, IntReply(1)), Result(u, IntReply(1)), w, v)
  BY <1>2, <1>4, PlainReplies, AlikeResult
<1> QED
  BY <1>2, <1>3, <1>5, <1>6

\* EXPIRE and PERSIST give a key that is there another deadline.
Retimed(w, k, at, effect) ==
    WriteSlot(w, k, [w.slots[k] EXCEPT !.expire_at = at], effect)

LEMMA RetimeAligned ==
    ASSUME NEW D \in SUBSET ExpireTimes,
           NEW w, NEW v, Aligned(D, w, v), NEW k \in Key, w.slots[k].present,
           NEW at \in D \cup {NoExpire}, NEW eff \in Effect
    PROVE  LET t == Retimed(w, k, at, eff)
               u == Retimed(v, k, at, eff)
           IN Aligned(D, t, u) /\ t.clock = w.clock /\ u.clock = v.clock
<1> DEFINE put == [w.slots[k] EXCEPT !.expire_at = at]
<1>1. w.slots[k] \in Slot /\ v.slots[k] = w.slots[k]
  BY DEF Aligned, Clean, Sound, World
<1>2. /\ put \in Slot /\ put.present /\ put.expire_at = at
      /\ put.expire_at \in D \cup {NoExpire}
  BY <1>1 DEF Slot
<1>3. [v.slots[k] EXCEPT !.expire_at = at] = put
  BY <1>1
<1> HIDE DEF put
<1>5. Writable(D, put, eff)
  BY <1>2 DEF Writable
<1>4. LET t == WriteSlot(w, k, put, eff)
          u == WriteSlot(v, k, put, eff)
      IN Aligned(D, t, u) /\ t.clock = w.clock /\ u.clock = v.clock
  BY <1>5, WriteAligned
<1> QED
  BY <1>3, <1>4 DEF put, Retimed

LEMMA ExpireAligned ==
    ASSUME NEW D \in SUBSET ExpireTimes,
           NEW w, NEW v, Aligned(D, w, v),
           NEW cmd \in ExpireCmd, DeadlinesOf(cmd) \subseteq D
    PROVE  Alike(D, Exec(w, cmd), Exec(v, cmd), w, v)
<1> DEFINE k == cmd.key
           at == cmd.at
           e == LookupKeyWrite(w, k)
           f == LookupKeyWrite(v, k)
           d == DeleteSlot(e.world, k)
           c == DeleteSlot(f.world, k)
           t == Retimed(e.world, k, at, PExpireAtEffect(k, at))
           u == Retimed(f.world, k, at, PExpireAtEffect(k, at))
           stays == e.value = NoValue
                      \/ ExpireRefused(e.world.slots[k].expire_at, at, cmd.cond)
           elapsed == CheckAlreadyExpired(e.world, at)
<1>1. cmd.op = "Expire" /\ k \in Key /\ at \in ExpireTimes /\ at \in D
  BY DEF ExpireCmd, DeadlinesOf
<1>2. /\ Aligned(D, e.world, f.world) /\ e.value = f.value
      /\ e.world.clock = w.clock /\ f.world.clock = v.clock
      /\ e.value # NoValue => e.world = w /\ k \in VisibleKeys(w)
  BY <1>1, LookupWriteAligned
<1>3. e.world.slots = f.world.slots
  BY <1>2 DEF Aligned
<1>4. elapsed <=> CheckAlreadyExpired(f.world, at)
  BY <1>1, <1>2, AlignedVisible
<1>5. /\ Exec(w, cmd) = IF stays THEN Result(e.world, IntReply(0))
                        ELSE IF elapsed THEN Result(d, IntReply(1))
                        ELSE Result(t, IntReply(1))
      /\ Exec(v, cmd) = IF stays THEN Result(f.world, IntReply(0))
                        ELSE IF elapsed THEN Result(c, IntReply(1))
                        ELSE Result(u, IntReply(1))
  BY <1>1, <1>2, <1>3, <1>4 DEF Exec, CmdExpire, ExpireFound, LookupOp, Retimed
<1>6. Aligned(D, d, c) /\ d.clock = e.world.clock /\ c.clock = f.world.clock
  BY <1>1, <1>2, DeleteAligned
<1>7. e.value # NoValue =>
        Aligned(D, t, u) /\ t.clock = e.world.clock /\ u.clock = f.world.clock
  <2>1. PExpireAtEffect(k, at) \in Effect
    BY <1>1 DEF PExpireAtEffect, Effect
  <2>2. e.value # NoValue => e.world.slots[k].present
    BY <1>2 DEF VisibleKeys
  <2>3. at \in D \cup {NoExpire}
    BY <1>1
  <2> HIDE DEF e, f, at, k
  <2> QED
    BY <1>1, <1>2, <2>1, <2>2, <2>3, RetimeAligned
<1>8. ~stays => e.value # NoValue
  OBVIOUS
<1> HIDE DEF e, f, t, u, d, c, stays, elapsed
<1>9. Alike(D, Result(e.world, IntReply(0)), Result(f.world, IntReply(0)), w, v)
  BY <1>2, PlainReplies, AlikeResult
<1>10. Alike(D, Result(d, IntReply(1)), Result(c, IntReply(1)), w, v)
  BY <1>2, <1>6, PlainReplies, AlikeResult
<1>11. e.value # NoValue => Alike(D, Result(t, IntReply(1)), Result(u, IntReply(1)), w, v)
  BY <1>2, <1>7, PlainReplies, AlikeResult
<1> QED
  BY <1>5, <1>8, <1>9, <1>10, <1>11

LEMMA PersistAligned ==
    ASSUME NEW D \in SUBSET ExpireTimes,
           NEW w, NEW v, Aligned(D, w, v), NEW cmd \in RemoveCmd, cmd.op = "Persist"
    PROVE  Alike(D, Exec(w, cmd), Exec(v, cmd), w, v)
<1> DEFINE k == cmd.key
           e == LookupKeyWrite(w, k)
           f == LookupKeyWrite(v, k)
           t == Retimed(e.world, k, NoExpire, PersistEffect(k))
           u == Retimed(f.world, k, NoExpire, PersistEffect(k))
           stays == e.value = NoValue \/ e.world.slots[k].expire_at = NoExpire
<1>1. k \in Key
  BY DEF RemoveCmd
<1>2. /\ Aligned(D, e.world, f.world) /\ e.value = f.value
      /\ e.world.clock = w.clock /\ f.world.clock = v.clock
      /\ e.value # NoValue => e.world = w /\ k \in VisibleKeys(w)
  BY <1>1, LookupWriteAligned
<1>3. e.world.slots = f.world.slots
  BY <1>2 DEF Aligned
<1>4. /\ Exec(w, cmd) = IF stays THEN Result(e.world, IntReply(0))
                        ELSE Result(t, IntReply(1))
      /\ Exec(v, cmd) = IF stays THEN Result(f.world, IntReply(0))
                        ELSE Result(u, IntReply(1))
  BY <1>2, <1>3 DEF Exec, CmdPersist, PersistFound, LookupOp, Retimed
<1>5. e.value # NoValue =>
        Aligned(D, t, u) /\ t.clock = e.world.clock /\ u.clock = f.world.clock
  <2>1. PersistEffect(k) \in Effect
    BY <1>1 DEF PersistEffect, Effect
  <2>2. e.value # NoValue => e.world.slots[k].present
    BY <1>2 DEF VisibleKeys
  <2> DEFINE never == NoExpire
             gone == PersistEffect(k)
  <2>3. never \in D \cup {NoExpire}
    OBVIOUS
  <2>5. gone \in Effect
    BY <2>1
  <2> HIDE DEF e, f, k, never, gone
  <2>4. e.value # NoValue =>
          LET a == Retimed(e.world, k, never, gone)
              b == Retimed(f.world, k, never, gone)
          IN Aligned(D, a, b) /\ a.clock = e.world.clock /\ b.clock = f.world.clock
    BY <1>1, <1>2, <2>1, <2>2, <2>3, <2>5, RetimeAligned
  <2> QED
    BY <2>4 DEF never, gone
<1>6. ~stays => e.value # NoValue
  OBVIOUS
<1> HIDE DEF e, f, t, u, stays
<1>7. Alike(D, Result(e.world, IntReply(0)), Result(f.world, IntReply(0)), w, v)
  BY <1>2, PlainReplies, AlikeResult
<1>8. e.value # NoValue => Alike(D, Result(t, IntReply(1)), Result(u, IntReply(1)), w, v)
  BY <1>2, <1>5, PlainReplies, AlikeResult
<1> QED
  BY <1>4, <1>6, <1>7, <1>8
\* GET, EXISTS and TYPE answer from the value that the lookup found.
LEMMA LookupCmdAligned ==
    ASSUME NEW D \in SUBSET ExpireTimes,
           NEW w, NEW v, Aligned(D, w, v), NEW cmd \in LookupCmd, cmd.op # "Pttl"
    PROVE  Alike(D, Exec(w, cmd), Exec(v, cmd), w, v)
<1> DEFINE k == cmd.key
           e == LookupKeyRead(w, k)
           f == LookupKeyRead(v, k)
           reply == LookupReply(cmd.op, e.world, k, e.value)
<1>1. k \in Key /\ cmd.op \in {"Get", "Exists", "Type"}
  BY DEF LookupCmd, LookupOp
<1>2. /\ Aligned(D, e.world, f.world) /\ e.value = f.value
      /\ e.world.clock = w.clock /\ f.world.clock = v.clock
      /\ e.value \in Value \cup {EmptyStr, NoValue}
  BY <1>1, LookupAligned DEF LookupKeyRead
<1>3. reply = LookupReply(cmd.op, f.world, k, f.value) /\ reply \in Reply
  BY <1>1, <1>2, PlainReplies DEF LookupReply
<1>4. Exec(w, cmd) = Result(e.world, reply) /\ Exec(v, cmd) = Result(f.world, reply)
  BY <1>1, <1>3 DEF Exec, CmdLookup, Answered, LookupOp
<1> HIDE DEF e, f, reply
<1> QED
  BY <1>2, <1>3, <1>4, AlikeResult

\* PTTL answers with a number, of the same meaning on both sides: a key in sight
\* has not passed its deadline.
LEMMA PttlAligned ==
    ASSUME NEW D \in SUBSET ExpireTimes,
           NEW w, NEW v, Aligned(D, w, v), NEW cmd \in LookupCmd, cmd.op = "Pttl"
    PROVE  /\ StillAligned(D, Exec(w, cmd), Exec(v, cmd), w, v)
           /\ \E m, n \in Int : /\ Exec(w, cmd).reply = IntReply(m)
                                /\ Exec(v, cmd).reply = IntReply(n)
                                /\ Bucket(m) = Bucket(n)
<1> DEFINE k == cmd.key
           e == LookupKeyRead(w, k)
           f == LookupKeyRead(v, k)
           Left(x) == IF x.value = NoValue THEN -2
                      ELSE IF x.world.slots[k].expire_at = NoExpire THEN -1
                      ELSE x.world.slots[k].expire_at - x.world.clock
<1>1. k \in Key
  BY DEF LookupCmd
<1>2. /\ Aligned(D, e.world, f.world) /\ e.value = f.value
      /\ e.world.clock = w.clock /\ f.world.clock = v.clock
      /\ e.value # NoValue => e.world = w /\ f.world = v /\ k \in VisibleKeys(w)
  BY <1>1, LookupAligned DEF LookupKeyRead
<1>3. /\ Exec(w, cmd) = Result(e.world, IntReply(Left(e)))
      /\ Exec(v, cmd) = Result(f.world, IntReply(Left(f)))
  BY DEF Exec, CmdLookup, Answered, LookupReply, PttlReply, LookupOp
<1>4. /\ w.slots = v.slots /\ w.clock \in Nat /\ v.clock \in Nat
      /\ w.slots[k].expire_at \in ExpireTimes \cup {NoExpire}
      /\ VisibleKeys(v) = VisibleKeys(w)
      /\ w.mode = StandaloneMaster /\ v.mode = StandaloneMaster
  BY <1>1, AlignedVisible DEF Aligned, Clean, Sound, World, Slot
<1> HIDE DEF e, f
<1>5. CASE e.value = NoValue
  <2>1. Left(e) = -2 /\ Left(f) = -2
    BY <1>2, <1>5
  <2> QED
    BY <1>2, <1>3, <2>1 DEF Result, StillAligned
<1>6. CASE e.value # NoValue /\ w.slots[k].expire_at = NoExpire
  <2>1. Left(e) = -1 /\ Left(f) = -1
    BY <1>2, <1>4, <1>6
  <2> QED
    BY <1>2, <1>3, <2>1 DEF Result, StillAligned
<1>7. CASE e.value # NoValue /\ w.slots[k].expire_at # NoExpire
  <2> DEFINE at == w.slots[k].expire_at
  <2>1. Left(e) = at - w.clock /\ Left(f) = at - v.clock
    BY <1>2, <1>4, <1>7
  <2>2. ~(w.clock > at) /\ ~(v.clock > at)
    BY <1>2, <1>4, <1>7 DEF VisibleKeys, KeyIsExpired, StandaloneMaster
  <2>3. at \in Nat
    BY <1>4, <1>7, ExpireTimesAssumption
  <2> HIDE DEF at
  <2>4. /\ at - w.clock \in Int /\ at - v.clock \in Int
        /\ Bucket(at - w.clock) = 0 /\ Bucket(at - v.clock) = 0
    BY <1>4, <2>2, <2>3 DEF Bucket
  <2>5. /\ Exec(w, cmd) = Result(e.world, IntReply(at - w.clock))
        /\ Exec(v, cmd) = Result(f.world, IntReply(at - v.clock))
    BY <1>3, <2>1
  <2>6. /\ Exec(w, cmd).reply = IntReply(at - w.clock)
        /\ Exec(v, cmd).reply = IntReply(at - v.clock)
        /\ StillAligned(D, Exec(w, cmd), Exec(v, cmd), w, v)
    BY <1>2, <2>5 DEF Result, StillAligned
  <2> QED
    BY <2>4, <2>6
<1> QED
  BY <1>5, <1>6, <1>7

\* KEYS and DBSIZE only look.
LEMMA ScanAligned ==
    ASSUME NEW D \in SUBSET ExpireTimes,
           NEW w, NEW v, Aligned(D, w, v), NEW cmd \in ScanCmd
    PROVE  Alike(D, Exec(w, cmd), Exec(v, cmd), w, v)
<1> DEFINE there == {k \in Key : w.slots[k].present}
<1>1. Cardinality(there) \in Nat /\ there = {k \in Key : v.slots[k].present}
  BY KeysAssumption, FS_Subset, FS_CardinalityType DEF Aligned
<1>2. VisibleKeys(w) = VisibleKeys(v) /\ VisibleKeys(w) \in SUBSET Key
  BY AlignedVisible DEF VisibleKeys
<1>3. CASE cmd.op = "Keys"
  <2>1. /\ Exec(w, cmd) = Result(w, KeySetReply(VisibleKeys(w)))
        /\ Exec(v, cmd) = Result(v, KeySetReply(VisibleKeys(w)))
    BY <1>2, <1>3 DEF Exec, CmdKeys, LookupOp
  <2> QED
    BY <1>2, <2>1, PlainReplies, AlikeResult
<1>4. CASE cmd.op = "DbSize"
  <2>1. /\ Exec(w, cmd) = Result(w, IntReply(Cardinality(there)))
        /\ Exec(v, cmd) = Result(v, IntReply(Cardinality(there)))
    BY <1>1, <1>4 DEF Exec, CmdDbSize, LookupOp
  <2> HIDE DEF there
  <2> QED
    BY <1>1, <2>1, PlainReplies, AlikeResult
<1> QED
  BY <1>3, <1>4 DEF ScanCmd

-----------------------------------------------------------------------------
(***************************************************************************)
(* Replies on the wire                                                     *)
(***************************************************************************)
\* The keys of one KEYS reply, put in an order, are those keys.
LEMMA SetToSeqRange ==
    ASSUME NEW ks \in SUBSET Key
    PROVE  {SetToSeq(ks)[i] : i \in 1..Cardinality(ks)} = ks
<1> DEFINE n == Cardinality(ks)
           f == SetToSeq(ks)
           hit == {f[i] : i \in 1..n}
<1>1. IsFiniteSet(ks) /\ n \in Nat
  BY KeysAssumption, FS_Subset, FS_CardinalityType
<1>2. \E g \in [1..n -> ks] : IsInjective(g)
  BY <1>1, FS_CardinalityType DEF ExistsBijection, Bijection, Injection, IsInjective
<1>3. f \in [1..n -> ks] /\ IsInjective(f)
  BY <1>2 DEF SetToSeq
<1> HIDE DEF f
<1>4. hit \subseteq ks
  BY <1>3
<1>5. f \in Bijection(1..n, hit)
  BY <1>3 DEF Bijection, Injection, Surjection, IsInjective
<1>6. IsFiniteSet(1..n) /\ Cardinality(1..n) = n
  BY <1>1, FS_Interval
<1>7. Cardinality(hit) = n
  BY <1>5, <1>6, FS_Bijection DEF ExistsBijection
<1>8. hit = ks
  BY <1>1, <1>4, <1>7, FS_Subset
<1> QED
  BY <1>8 DEF f
\* Any reply but PTTL's compares as equal to itself on the wire.
LEMMA WireAgrees ==
    ASSUME NEW reply \in Reply
    PROVE  RepliesAgree(reply, OnTheWire(reply), FALSE)
<1>1. CASE reply \in {OkReply, NilReply, TypeReply, NoTypeReply}
  BY <1>1 DEF RepliesAgree, OnTheWire, OkReply, NilReply, TypeReply, NoTypeReply,
              SimpleResp, NilResp, IsNil
<1>2. CASE \E n \in Int : reply = IntReply(n)
  BY <1>2 DEF RepliesAgree, OnTheWire, IntReply, IntResp, IsInt
<1>3. CASE \E v \in Value \cup {EmptyStr} : reply = StrReply(v)
  <2>1. PICK v \in Value \cup {EmptyStr} : reply = [kind |-> "Str", val |-> v]
    BY <1>3, NoValueAssumption, EmptyStrAssumption DEF StrReply
  <2> QED
    BY <2>1 DEF RepliesAgree, OnTheWire, BulkResp, IsBulk
<1>4. CASE \E ks \in SUBSET Key : reply = KeySetReply(ks)
  <2>1. PICK ks \in SUBSET Key : reply = [kind |-> "KeySet", keys |-> ks]
    BY <1>4 DEF KeySetReply
  <2> DEFINE n == Cardinality(ks)
             f == SetToSeq(ks)
             items == [i \in 1..n |-> BulkResp(f[i])]
  <2>2. OnTheWire(reply) = ArrayResp(items)
    BY <2>1 DEF OnTheWire
  <2>3. n \in Nat /\ {f[i] : i \in 1..n} = ks
    BY SetToSeqType, SetToSeqRange
  <2> HIDE DEF n, f
  <2>4. Len(items) = n /\ DOMAIN items = 1..n
    BY <2>3
  <2>5. {items[i].bytes : i \in DOMAIN items} = ks
    BY <2>3, <2>4 DEF BulkResp
  <2> HIDE DEF items
  <2>6. SameItems(ks, items)
    BY <2>4, <2>5 DEF SameItems, n
  <2> QED
    BY <2>1, <2>2, <2>6 DEF RepliesAgree, ArrayResp
<1> QED
  BY <1>1, <1>2, <1>3, <1>4 DEF Reply

\* What the two sides of a command bring about
InStep(D, r, s, w, v, cmd) ==
    /\ StillAligned(D, r, s, w, v)
    /\ RepliesAgree(r.reply, OnTheWire(s.reply), cmd.op = "Pttl")

LEMMA AlikeInStep ==
    ASSUME NEW D \in SUBSET ExpireTimes,
           NEW r, NEW s, NEW w, NEW v, NEW cmd, Alike(D, r, s, w, v), cmd.op # "Pttl"
    PROVE  InStep(D, r, s, w, v, cmd)
<1>1. RepliesAgree(r.reply, OnTheWire(r.reply), FALSE)
  BY WireAgrees DEF Alike
<1>2. (cmd.op = "Pttl") = FALSE
  OBVIOUS
<1> QED
  BY <1>1, <1>2 DEF Alike, InStep

\* Every command that the driver draws keeps aligned worlds aligned and draws
\* replies that compare as equal.
LEMMA ExecAligned ==
    ASSUME NEW D \in SUBSET ExpireTimes,
           NEW w, NEW v, Aligned(D, w, v),
           NEW cmd \in KeyCmd \cup ScanCmd, DeadlinesOf(cmd) \subseteq D
    PROVE  InStep(D, Exec(w, cmd), Exec(v, cmd), w, v, cmd)
<1>1. CASE cmd \in SetCmd
  BY <1>1, SetAligned, AlikeInStep DEF SetCmd
<1>2. CASE cmd \in ExpireCmd
  BY <1>2, ExpireAligned, AlikeInStep DEF ExpireCmd
<1>3. CASE cmd \in RemoveCmd
  BY <1>3, DelAligned, PersistAligned, AlikeInStep DEF RemoveCmd
<1>4. CASE cmd \in LookupCmd /\ cmd.op # "Pttl"
  BY <1>4, LookupCmdAligned, AlikeInStep
<1>5. CASE cmd \in LookupCmd /\ cmd.op = "Pttl"
  <2>1. StillAligned(D, Exec(w, cmd), Exec(v, cmd), w, v)
    BY <1>5, PttlAligned
  <2>2. PICK m \in Int, n \in Int : /\ Exec(w, cmd).reply = IntReply(m)
                                    /\ Exec(v, cmd).reply = IntReply(n)
                                    /\ Bucket(m) = Bucket(n)
    BY <1>5, PttlAligned
  <2>3. OnTheWire(IntReply(n)) = IntResp(n)
    BY DEF OnTheWire, IntReply
  <2>4. RepliesAgree(IntReply(m), IntResp(n), TRUE)
    BY <2>2 DEF RepliesAgree, IntReply, IntResp, IsInt
  <2>5. (cmd.op = "Pttl") = TRUE
    BY <1>5
  <2> QED
    BY <2>1, <2>2, <2>3, <2>4, <2>5 DEF InStep
<1>6. CASE cmd \in ScanCmd
  BY <1>6, ScanAligned, AlikeInStep DEF ScanCmd
<1> QED
  BY <1>1, <1>2, <1>3, <1>4, <1>5, <1>6 DEF KeyCmd

-----------------------------------------------------------------------------
(***************************************************************************)
(* The server parses what the driver renders                               *)
(***************************************************************************)
\* The names of the commands with options, and the options
Words == {"SET", "PEXPIREAT", "NX", "XX", "GT", "LT", "KEEPTTL", "PXAT", "GET"}

Arg == {Word(w) : w \in Words} \cup {KeyArg(k) : k \in Key}
         \cup {ValArg(v) : v \in Value} \cup {NumArg(n) : n \in Nat}

LEMMA ArgsDiffer ==
    /\ \A v, w : Word(v) = Word(w) => v = w
    /\ \A k, w : KeyArg(k) # Word(w) /\ ValArg(k) # Word(w) /\ NumArg(k) # Word(w)
  BY DEF Word, KeyArg, ValArg, NumArg
LEMMA ArgTypes ==
    /\ \A w \in Words : Word(w) \in Arg
    /\ \A k \in Key : KeyArg(k) \in Arg
    /\ \A v \in Value : ValArg(v) \in Arg
    /\ \A n \in Nat : NumArg(n) \in Arg
  BY DEF Arg

\* One word, a word and its number, and no arguments at all
One(v) == <<Word(v)>>
Two(v, n) == <<Word(v), NumArg(n)>>

LEMMA OneWord ==
    ASSUME NEW v \in Words, NEW w
    PROVE  /\ One(v) \in Seq(Arg)
           /\ Given(One(v), w) <=> v = w
<1> DEFINE a == Word(v)
           s == <<a>>
<1>1. a \in Arg /\ (a = Word(w) <=> v = w)
  BY ArgTypes, ArgsDiffer
<1> HIDE DEF a
<1>2. s \in Seq(Arg) /\ DOMAIN s = {1} /\ s[1] = a
  BY <1>1
<1> HIDE DEF s
<1>3. Given(s, w) <=> v = w
  BY <1>1, <1>2 DEF Given
<1> QED
  BY <1>2, <1>3 DEF s, a, One

LEMMA WordAndNumber ==
    ASSUME NEW v \in Words, NEW n \in Nat, NEW w
    PROVE  /\ Two(v, n) \in Seq(Arg)
           /\ Len(Two(v, n)) = 2 /\ Two(v, n)[1] = Word(v) /\ Two(v, n)[2] = NumArg(n)
           /\ Given(Two(v, n), w) <=> v = w
<1> DEFINE a == Word(v)
           b == NumArg(n)
           s == <<a, b>>
<1>1. a \in Arg /\ b \in Arg /\ (a = Word(w) <=> v = w) /\ b # Word(w)
  BY ArgTypes, ArgsDiffer
<1> HIDE DEF a, b
<1>2. s \in Seq(Arg) /\ Len(s) = 2 /\ DOMAIN s = {1, 2} /\ s[1] = a /\ s[2] = b
  BY <1>1
<1> HIDE DEF s
<1>3. Given(s, w) <=> v = w
  BY <1>1, <1>2 DEF Given
<1> QED
  BY <1>2, <1>3 DEF s, a, b, Two

LEMMA NoWord == ASSUME NEW w PROVE <<>> \in Seq(Arg) /\ ~Given(<<>>, w)
  BY DEF Given

\* A word is among the arguments if it is among one part of them.
LEMMA GivenConcat ==
    ASSUME NEW a \in Seq(Arg), NEW b \in Seq(Arg), NEW w
    PROVE  /\ a \o b \in Seq(Arg)
           /\ Given(a \o b, w) <=> Given(a, w) \/ Given(b, w)
<1> DEFINE all == a \o b
<1>1. /\ all \in Seq(Arg) /\ Len(all) = Len(a) + Len(b)
      /\ Len(a) \in Nat /\ Len(b) \in Nat
      /\ DOMAIN all = 1..Len(all) /\ DOMAIN a = 1..Len(a) /\ DOMAIN b = 1..Len(b)
      /\ \A i \in 1..Len(all) : all[i] = IF i <= Len(a) THEN a[i] ELSE b[i - Len(a)]
  BY ConcatProperties, LenProperties
<1> HIDE DEF all
<1>2. Given(all, w) => Given(a, w) \/ Given(b, w)
  <2> SUFFICES ASSUME NEW i \in DOMAIN all, all[i] = Word(w)
               PROVE  Given(a, w) \/ Given(b, w)
    BY DEF Given
  <2>1. CASE i <= Len(a)
    BY <1>1, <2>1 DEF Given
  <2>2. CASE ~(i <= Len(a))
    <3>1. i - Len(a) \in DOMAIN b /\ b[i - Len(a)] = Word(w)
      BY <1>1, <2>2
    <3> QED
      BY <3>1 DEF Given
  <2> QED
    BY <2>1, <2>2
<1>3. Given(a, w) => Given(all, w)
  <2> SUFFICES ASSUME NEW i \in DOMAIN a, a[i] = Word(w)
               PROVE  Given(all, w)
    BY DEF Given
  <2>1. i \in DOMAIN all /\ all[i] = Word(w)
    BY <1>1
  <2> QED
    BY <2>1 DEF Given
<1>4. Given(b, w) => Given(all, w)
  <2> SUFFICES ASSUME NEW i \in DOMAIN b, b[i] = Word(w)
               PROVE  Given(all, w)
    BY DEF Given
  <2>1. i + Len(a) \in DOMAIN all /\ all[i + Len(a)] = Word(w)
    BY <1>1
  <2> QED
    BY <2>1 DEF Given
<1> QED
  BY <1>1, <1>2, <1>3, <1>4 DEF all

\* The first arguments stay where they are.
LEMMA ConcatStart ==
    ASSUME NEW a \in Seq(Arg), NEW b \in Seq(Arg), NEW i \in 1..Len(a)
    PROVE  (a \o b)[i] = a[i] /\ i \in 1..Len(a \o b)
  BY ConcatProperties, LenProperties

\* The number that follows a word
LEMMA FollowingFound ==
    ASSUME NEW a \in Seq(Arg), NEW b \in Seq(Arg), NEW w \in Words, NEW n \in Nat,
           ~Given(a, w), ~Given(b, w)
    PROVE  Following((a \o Two(w, n)) \o b, w) = n
<1> DEFINE two == Two(w, n)
           front == a \o two
           all == front \o b
           l == Len(a)
<1>1. two \in Seq(Arg) /\ Len(two) = 2 /\ two[1] = Word(w) /\ two[2] = NumArg(n)
  BY WordAndNumber
<1> HIDE DEF two
<1>2. /\ front \in Seq(Arg) /\ Len(front) = l + 2 /\ l \in Nat
      /\ \A i \in 1..l + 2 : front[i] = IF i <= l THEN a[i] ELSE two[i - l]
  <2>1. /\ front \in Seq(Arg) /\ Len(front) = Len(a) + Len(two)
        /\ \A i \in 1..Len(a) + Len(two) :
              front[i] = IF i <= Len(a) THEN a[i] ELSE two[i - Len(a)]
    BY <1>1, ConcatProperties
  <2>2. Len(a) \in Nat
    BY LenProperties
  <2> QED
    BY <1>1, <2>1, <2>2
<1> HIDE DEF front
<1>3. /\ all \in Seq(Arg) /\ Len(all) = l + 2 + Len(b) /\ Len(b) \in Nat
      /\ DOMAIN all = 1..Len(all)
      /\ \A i \in 1..Len(all) :
            all[i] = IF i <= l + 2 THEN front[i] ELSE b[i - (l + 2)]
  <2> front \in Seq(Arg)
    BY <1>2
  <2>1. /\ all \in Seq(Arg) /\ Len(all) = Len(front) + Len(b)
        /\ \A i \in 1..Len(front) + Len(b) :
              all[i] = IF i <= Len(front) THEN front[i] ELSE b[i - Len(front)]
    BY ConcatProperties
  <2>2. Len(b) \in Nat /\ DOMAIN all = 1..Len(all)
    BY <2>1, LenProperties
  <2> HIDE DEF all, l
  <2> QED
    BY <1>2, <2>1, <2>2
<1> HIDE DEF all, l
<1>4. all[l + 1] = Word(w) /\ l + 1 \in DOMAIN all
  <2>1. /\ l + 1 \in 1..l + 2 /\ l + 1 \in 1..Len(all) /\ l + 1 <= l + 2
        /\ ~(l + 1 <= l) /\ (l + 1) - l = 1
    BY <1>2, <1>3
  <2>2. front[l + 1] = two[1]
    BY <1>2, <2>1
  <2> QED
    BY <1>1, <1>3, <2>1, <2>2
<1>5. all[l + 2] = NumArg(n)
  <2>1. /\ l + 2 \in 1..l + 2 /\ l + 2 \in 1..Len(all) /\ l + 2 <= l + 2
        /\ ~(l + 2 <= l) /\ (l + 2) - l = 2
    BY <1>2, <1>3
  <2>2. front[l + 2] = two[2]
    BY <1>2, <2>1
  <2> QED
    BY <1>1, <1>3, <2>1, <2>2
<1>6. ASSUME NEW i \in DOMAIN all, all[i] = Word(w)
      PROVE  i = l + 1
  <2>1. CASE i <= l
    <3>1. i \in DOMAIN a /\ a[i] = Word(w)
      BY <1>2, <1>3, <1>6, <2>1, LenProperties DEF l
    <3> QED
      BY <3>1 DEF Given
  <2>2. CASE i = l + 2
    BY <1>5, <1>6, <2>2, ArgsDiffer
  <2>3. CASE i > l + 2
    <3>1. i - (l + 2) \in DOMAIN b /\ b[i - (l + 2)] = Word(w)
      BY <1>2, <1>3, <1>6, <2>3, LenProperties
    <3> QED
      BY <3>1 DEF Given
  <2> QED
    BY <1>2, <1>3, <2>1, <2>2, <2>3
<1>7. (CHOOSE i \in DOMAIN all : all[i] = Word(w)) = l + 1
  BY <1>4, <1>6
<1>8. (l + 1) + 1 = l + 2
  BY <1>2
<1>9. Following(all, w) = n
  <2>1. Following(all, w) = all[l + 2].num
    BY <1>7, <1>8 DEF Following
  <2> QED
    BY <1>5, <2>1 DEF NumArg
<1> QED
  BY <1>9 DEF all, front, two

\* What each part of a command's arguments holds
LEMMA CondGiven ==
    ASSUME NEW cond \in SetCond \cup ExpireCond, NEW w \in Words
    PROVE  /\ CondArgs(cond) \in Seq(Arg)
           /\ Given(CondArgs(cond), w) <=> \/ cond = "Nx" /\ w = "NX"
                                           \/ cond = "Xx" /\ w = "XX"
                                           \/ cond = "Gt" /\ w = "GT"
                                           \/ cond = "Lt" /\ w = "LT"
<1>1. CASE cond = "Nx"
  <2>1. CondArgs(cond) = One("NX")
    BY <1>1 DEF CondArgs, One
  <2> QED
    BY <1>1, <2>1, OneWord DEF Words
<1>2. CASE cond = "Xx"
  <2>1. CondArgs(cond) = One("XX")
    BY <1>2 DEF CondArgs, One
  <2> QED
    BY <1>2, <2>1, OneWord DEF Words
<1>3. CASE cond = "Gt"
  <2>1. CondArgs(cond) = One("GT")
    BY <1>3 DEF CondArgs, One
  <2> QED
    BY <1>3, <2>1, OneWord DEF Words
<1>4. CASE cond = "Lt"
  <2>1. CondArgs(cond) = One("LT")
    BY <1>4 DEF CondArgs, One
  <2> QED
    BY <1>4, <2>1, OneWord DEF Words
<1>5. CASE cond \in {"Always", "None"}
  <2>1. CondArgs(cond) = <<>>
    BY <1>5 DEF CondArgs
  <2> QED
    BY <1>5, <2>1, NoWord
<1> QED
  BY <1>1, <1>2, <1>3, <1>4, <1>5 DEF SetCond, ExpireCond

LEMMA TtlGiven ==
    ASSUME NEW ttl \in TtlArg, NEW w \in Words
    PROVE  /\ TtlArgs(ttl) \in Seq(Arg)
           /\ Given(TtlArgs(ttl), w) <=> \/ ttl.kind = "Keep" /\ w = "KEEPTTL"
                                         \/ ttl.kind = "PxAt" /\ w = "PXAT"
<1>1. CASE ttl.kind = "None"
  <2>1. TtlArgs(ttl) = <<>>
    BY <1>1 DEF TtlArgs
  <2> QED
    BY <1>1, <2>1, NoWord
<1>2. CASE ttl.kind = "Keep"
  <2>1. TtlArgs(ttl) = One("KEEPTTL")
    BY <1>2 DEF TtlArgs, One
  <2> QED
    BY <1>2, <2>1, OneWord DEF Words
<1>3. CASE ttl.kind = "PxAt"
  <2>1. TtlArgs(ttl) = Two("PXAT", ttl.at) /\ ttl.at \in Nat
    BY <1>3, ExpireTimesAssumption DEF TtlArgs, TtlArg, PxAt, NoTtl, KeepTtl, Two
  <2> QED
    BY <1>3, <2>1, WordAndNumber DEF Words
<1> QED
  BY <1>1, <1>2, <1>3 DEF TtlArg, PxAt, NoTtl, KeepTtl
\* A command name and what it names stand before the options.
LEMMA HeadGiven ==
    ASSUME NEW v \in Words, NEW a \in Arg, NEW b \in Arg,
           \A w : a # Word(w) /\ b # Word(w)
    PROVE  LET head == <<Word(v), a, b>>
           IN /\ head \in Seq(Arg) /\ Len(head) = 3
              /\ head[1] = Word(v) /\ head[2] = a /\ head[3] = b
              /\ \A w : Given(head, w) <=> w = v
<1> DEFINE c == Word(v)
           head == <<c, a, b>>
<1>1. c \in Arg /\ \A w : c = Word(w) <=> v = w
  BY ArgTypes, ArgsDiffer
<1> HIDE DEF c
<1>2. /\ head \in Seq(Arg) /\ Len(head) = 3 /\ DOMAIN head = {1, 2, 3}
      /\ head[1] = c /\ head[2] = a /\ head[3] = b
  BY <1>1
<1> HIDE DEF head
<1>3. \A w : Given(head, w) <=> w = v
  BY <1>1, <1>2 DEF Given
<1> QED
  BY <1>2, <1>3 DEF head, c

\* SET: its condition, its TTL and GET are found wherever they stand.
LEMMA ParsedSet ==
    ASSUME NEW cmd \in SetCmd
    PROVE  Parsed(Render(cmd)) = cmd
<1> DEFINE a == KeyArg(cmd.key)
           b == ValArg(cmd.val)
           head == <<Word("SET"), a, b>>
           C == CondArgs(cmd.cond)
           T == TtlArgs(cmd.ttl)
           G == IF cmd.get THEN <<Word("GET")>> ELSE <<>>
           front == head \o C
           middle == front \o T
           args == middle \o G
           AnyCond(w) == \/ cmd.cond = "Nx" /\ w = "NX"
                         \/ cmd.cond = "Xx" /\ w = "XX"
           AnyTtl(w) == \/ cmd.ttl.kind = "Keep" /\ w = "KEEPTTL"
                        \/ cmd.ttl.kind = "PxAt" /\ w = "PXAT"
<1>1. /\ cmd.op = "Set" /\ cmd.key \in Key /\ cmd.val \in Value /\ cmd.cond \in SetCond
      /\ cmd.ttl \in TtlArg /\ cmd.get \in BOOLEAN
      /\ cmd = [op |-> "Set", key |-> cmd.key, val |-> cmd.val, cond |-> cmd.cond,
                ttl |-> cmd.ttl, get |-> cmd.get]
  BY DEF SetCmd
<1>2. Render(cmd) = args
  BY <1>1 DEF Render, LookupOp
<1>3. /\ head \in Seq(Arg) /\ Len(head) = 3
      /\ head[1] = Word("SET") /\ head[2] = a /\ head[3] = b
      /\ \A w : Given(head, w) <=> w = "SET"
  <2>1. "SET" \in Words /\ a \in Arg /\ b \in Arg
    BY <1>1, ArgTypes DEF Words
  <2>2. \A w : a # Word(w) /\ b # Word(w)
    BY ArgsDiffer
  <2> HIDE DEF a, b
  <2> QED
    BY <2>1, <2>2, HeadGiven
<1>4. C \in Seq(Arg) /\ \A w \in Words : Given(C, w) <=> AnyCond(w)
  <2>1. \A w \in Words : C \in Seq(Arg) /\ (Given(C, w) <=> AnyCond(w))
    BY <1>1, CondGiven DEF SetCond
  <2> QED
    BY <2>1 DEF Words
<1>5. T \in Seq(Arg) /\ \A w \in Words : Given(T, w) <=> AnyTtl(w)
  <2>1. \A w \in Words : T \in Seq(Arg) /\ (Given(T, w) <=> AnyTtl(w))
    BY <1>1, TtlGiven
  <2> QED
    BY <2>1 DEF Words
<1>6. G \in Seq(Arg) /\ \A w \in Words : Given(G, w) <=> cmd.get /\ w = "GET"
  <2>1. CASE cmd.get
    <3>1. G = One("GET")
      BY <2>1 DEF One
    <3> HIDE DEF G
    <3> QED
      BY <2>1, <3>1, OneWord DEF Words
  <2>2. CASE ~cmd.get
    <3>1. G = <<>>
      BY <2>2
    <3> HIDE DEF G
    <3> QED
      BY <2>2, <3>1, NoWord
  <2> QED
    BY <2>1, <2>2
<1> HIDE DEF head, C, T, G
<1>7. front \in Seq(Arg) /\ \A w \in Words : Given(front, w) <=> w = "SET" \/ AnyCond(w)
  BY <1>3, <1>4, GivenConcat
<1> HIDE DEF front
<1>8. /\ middle \in Seq(Arg)
      /\ \A w \in Words : Given(middle, w) <=> w = "SET" \/ AnyCond(w) \/ AnyTtl(w)
  BY <1>5, <1>7, GivenConcat
<1> HIDE DEF middle
<1>9. /\ args \in Seq(Arg)
      /\ \A w \in Words : Given(args, w) <=> \/ w = "SET" \/ AnyCond(w) \/ AnyTtl(w)
                                             \/ cmd.get /\ w = "GET"
  BY <1>6, <1>8, GivenConcat
<1>10. args[1] = Word("SET") /\ args[2] = a /\ args[3] = b
  <2>1. \A i \in 1..3 : front[i] = head[i] /\ i \in 1..Len(front)
    BY <1>3, <1>4, ConcatStart DEF front
  <2>2. \A i \in 1..3 : middle[i] = front[i] /\ i \in 1..Len(middle)
    BY <1>5, <1>7, <2>1, ConcatStart DEF middle
  <2>3. \A i \in 1..3 : args[i] = middle[i]
    BY <1>6, <1>8, <2>2, ConcatStart
  <2> HIDE DEF args
  <2> QED
    BY <1>3, <2>1, <2>2, <2>3
<1>11. cmd.ttl.kind = "PxAt" => Following(args, "PXAT") = cmd.ttl.at
  <2> SUFFICES ASSUME cmd.ttl.kind = "PxAt"
               PROVE  Following(args, "PXAT") = cmd.ttl.at
    OBVIOUS
  <2>1. T = Two("PXAT", cmd.ttl.at)
    BY DEF T, TtlArgs, Two
  <2>2. cmd.ttl.at \in Nat
    BY <1>1, ExpireTimesAssumption DEF TtlArg, PxAt, NoTtl, KeepTtl
  <2>3. "PXAT" \in Words /\ ~Given(front, "PXAT") /\ ~Given(G, "PXAT")
    BY <1>6, <1>7 DEF Words
  <2>4. Following((front \o Two("PXAT", cmd.ttl.at)) \o G, "PXAT") = cmd.ttl.at
    BY <1>6, <1>7, <2>2, <2>3, FollowingFound
  <2> QED
    BY <2>1, <2>4 DEF middle
<1> HIDE DEF args
<1>12. ParsedCond(args, "Always") = cmd.cond
  BY <1>1, <1>9 DEF ParsedCond, SetCond, Words
<1>13. ParsedTtl(args) = cmd.ttl
  <2>1. Given(args, "KEEPTTL") <=> cmd.ttl.kind = "Keep"
    BY <1>9 DEF Words
  <2>2. Given(args, "PXAT") <=> cmd.ttl.kind = "PxAt"
    BY <1>9 DEF Words
  <2> QED
    BY <1>1, <1>11, <2>1, <2>2 DEF ParsedTtl, TtlArg, PxAt, NoTtl, KeepTtl
<1>14. Given(args, "GET") = cmd.get
  <2>1. Given(args, "GET") <=> cmd.get
    BY <1>9 DEF Words
  <2> QED
    BY <1>1, <2>1 DEF Given
<1>15. args[2].key = cmd.key /\ args[3].val = cmd.val
  BY <1>10 DEF KeyArg, ValArg
<1>16. args[1] # Word("PEXPIREAT") /\ args[1].word = "SET"
  BY <1>10 DEF Word
<1>17. Parsed(args) = [op |-> "Set", key |-> args[2].key, val |-> args[3].val,
                       cond |-> ParsedCond(args, "Always"), ttl |-> ParsedTtl(args),
                       get |-> Given(args, "GET")]
  BY <1>10, <1>16 DEF Parsed
<1> QED
  BY <1>1, <1>2, <1>12, <1>13, <1>14, <1>15, <1>17

\* EXPIRE, which is sent as PEXPIREAT
LEMMA ParsedExpire ==
    ASSUME NEW cmd \in ExpireCmd
    PROVE  Parsed(Render(cmd)) = cmd
<1> DEFINE a == KeyArg(cmd.key)
           b == NumArg(cmd.at)
           head == <<Word("PEXPIREAT"), a, b>>
           C == CondArgs(cmd.cond)
           args == head \o C
           AnyCond(w) == \/ cmd.cond = "Nx" /\ w = "NX"
                         \/ cmd.cond = "Xx" /\ w = "XX"
                         \/ cmd.cond = "Gt" /\ w = "GT"
                         \/ cmd.cond = "Lt" /\ w = "LT"
<1>1. /\ cmd.op = "Expire" /\ cmd.key \in Key /\ cmd.at \in Nat /\ cmd.cond \in ExpireCond
      /\ cmd = [op |-> "Expire", key |-> cmd.key, at |-> cmd.at, cond |-> cmd.cond]
  BY ExpireTimesAssumption DEF ExpireCmd
<1>2. Render(cmd) = args
  BY <1>1 DEF Render, LookupOp
<1>3. /\ head \in Seq(Arg) /\ Len(head) = 3
      /\ head[1] = Word("PEXPIREAT") /\ head[2] = a /\ head[3] = b
      /\ \A w : Given(head, w) <=> w = "PEXPIREAT"
  <2>1. "PEXPIREAT" \in Words /\ a \in Arg /\ b \in Arg
    BY <1>1, ArgTypes DEF Words
  <2>2. \A w : a # Word(w) /\ b # Word(w)
    BY ArgsDiffer
  <2> HIDE DEF a, b
  <2> QED
    BY <2>1, <2>2, HeadGiven
<1>4. C \in Seq(Arg) /\ \A w \in Words : Given(C, w) <=> AnyCond(w)
  <2>1. \A w \in Words : C \in Seq(Arg) /\ (Given(C, w) <=> AnyCond(w))
    BY <1>1, CondGiven
  <2> QED
    BY <2>1 DEF Words
<1> HIDE DEF head, C
<1>5. \A w \in Words : Given(args, w) <=> w = "PEXPIREAT" \/ Given(C, w)
  BY <1>3, <1>4, GivenConcat
<1>6. args[1] = Word("PEXPIREAT") /\ args[2] = a /\ args[3] = b
  <2>1. \A i \in 1..3 : args[i] = head[i]
    BY <1>3, <1>4, ConcatStart
  <2> HIDE DEF args
  <2> QED
    BY <1>3, <2>1
<1> HIDE DEF args
<1>7. ParsedCond(args, "None") = cmd.cond
  BY <1>1, <1>4, <1>5 DEF ParsedCond, ExpireCond, Words
<1>8. args[2].key = cmd.key /\ args[3].num = cmd.at
  BY <1>6 DEF KeyArg, NumArg
<1>9. args[1] # Word("SET") /\ args[1].word = "PEXPIREAT"
  BY <1>6 DEF Word
<1>10. Parsed(args) = [op |-> "Expire", key |-> args[2].key, at |-> args[3].num,
                       cond |-> ParsedCond(args, "None")]
  BY <1>6, <1>9 DEF Parsed
<1> QED
  BY <1>1, <1>2, <1>7, <1>8, <1>10
\* No two commands have the same name.
LEMMA NamesDiffer ==
    /\ DOMAIN Name = {"Get", "Del", "Exists", "Type", "Persist", "Pttl", "Keys", "DbSize"}
    /\ \A o, p \in DOMAIN Name : Name[o] = Name[p] => o = p
    /\ \A o \in DOMAIN Name : Name[o] \notin {"SET", "PEXPIREAT"}
    /\ \A o \in DOMAIN Name : Name[o] \in {"KEYS", "DBSIZE"} <=> o \in {"Keys", "DbSize"}
<1>1. DOMAIN Name = {"Get", "Del", "Exists", "Type", "Persist", "Pttl", "Keys", "DbSize"}
  BY DEF Name
<1>2. /\ Name["Get"] = "GET" /\ Name["Del"] = "DEL" /\ Name["Exists"] = "EXISTS"
      /\ Name["Type"] = "TYPE" /\ Name["Persist"] = "PERSIST" /\ Name["Pttl"] = "PTTL"
      /\ Name["Keys"] = "KEYS" /\ Name["DbSize"] = "DBSIZE"
  BY DEF Name
<1> QED
  BY <1>1, <1>2

\* A name is read back as the operation that it was written for.
LEMMA NamedOperation ==
    ASSUME NEW o \in DOMAIN Name
    PROVE  /\ (CHOOSE op \in DOMAIN Name : Word(Name[o]) = Word(Name[op])) = o
           /\ Word(Name[o]) # Word("SET") /\ Word(Name[o]) # Word("PEXPIREAT")
           /\ Word(Name[o]).word \in {"KEYS", "DBSIZE"} <=> o \in {"Keys", "DbSize"}
<1>1. \A op \in DOMAIN Name : Word(Name[o]) = Word(Name[op]) <=> op = o
  BY ArgsDiffer, NamesDiffer
<1>2. (CHOOSE op \in DOMAIN Name : Word(Name[o]) = Word(Name[op])) = o
  BY <1>1
<1>3. Word(Name[o]) # Word("SET") /\ Word(Name[o]) # Word("PEXPIREAT")
  BY ArgsDiffer, NamesDiffer
<1>4. Word(Name[o]).word = Name[o]
  BY DEF Word
<1> QED
  BY <1>2, <1>3, <1>4, NamesDiffer

\* A command that only names a key
LEMMA ParsedNamed ==
    ASSUME NEW cmd \in RemoveCmd \cup LookupCmd
    PROVE  Parsed(Render(cmd)) = cmd
<1> DEFINE a == Word(Name[cmd.op])
           args == <<a, KeyArg(cmd.key)>>
<1>1. /\ cmd.op \in {"Get", "Del", "Exists", "Type", "Persist", "Pttl"}
      /\ cmd = [op |-> cmd.op, key |-> cmd.key]
  BY DEF RemoveCmd, LookupCmd, LookupOp
<1>2. Render(cmd) = args
  BY <1>1 DEF Render, LookupOp
<1>3. /\ (CHOOSE op \in DOMAIN Name : a = Word(Name[op])) = cmd.op
      /\ a # Word("SET") /\ a # Word("PEXPIREAT") /\ a.word \notin {"KEYS", "DBSIZE"}
  BY <1>1, NamesDiffer, NamedOperation
<1>4. args[1] = a /\ args[2].key = cmd.key
  BY DEF KeyArg
<1> HIDE DEF args, a
<1>5. Parsed(args) = [op |-> CHOOSE op \in DOMAIN Name : args[1] = Word(Name[op]),
                      key |-> args[2].key]
  BY <1>3, <1>4 DEF Parsed
<1> QED
  BY <1>1, <1>2, <1>3, <1>4, <1>5

\* A command without arguments; KEYS takes a pattern that matches every key.
LEMMA ParsedScan ==
    ASSUME NEW cmd \in ScanCmd
    PROVE  Parsed(Render(cmd)) = cmd
<1> DEFINE a == Word(Name[cmd.op])
           args == Render(cmd)
<1>1. cmd.op \in {"Keys", "DbSize"} /\ cmd = [op |-> cmd.op]
  BY DEF ScanCmd
<1>2. args[1] = a
  BY <1>1 DEF Render, LookupOp, Name
<1>3. /\ (CHOOSE op \in DOMAIN Name : a = Word(Name[op])) = cmd.op
      /\ a # Word("SET") /\ a # Word("PEXPIREAT") /\ a.word \in {"KEYS", "DBSIZE"}
  BY <1>1, NamesDiffer, NamedOperation
<1> HIDE DEF args, a
<1>4. Parsed(args) = [op |-> CHOOSE op \in DOMAIN Name : args[1] = Word(Name[op])]
  BY <1>2, <1>3 DEF Parsed
<1> QED
  BY <1>1, <1>2, <1>3, <1>4 DEF args

\* What the driver renders, the server reads as the same command.
LEMMA ParsedRender ==
    ASSUME NEW cmd \in KeyCmd \cup ScanCmd
    PROVE  Parsed(Render(cmd)) = cmd
  BY ParsedSet, ParsedExpire, ParsedNamed, ParsedScan DEF KeyCmd
-----------------------------------------------------------------------------
(***************************************************************************)
(* The inductive invariant                                                 *)
(***************************************************************************)
Blank(w) == [w EXCEPT !.slots = [k \in Key |-> AbsentSlot]]
At(w, t) == [w EXCEPT !.clock = t]

\* The server's keyspace is of its own making between ReadTime, which counts
\* its deadlines anew, and FLUSHALL; the active cycle runs before DEBUG only.
ServerSound ==
    /\ Clean(Blank(server))
    /\ pc # "flush" /\ (pc = "panicked" => active) => Clean(server)
    /\ active => pc \in {"debug", "panicked"}

ScheduleRuns == pc \in {"step", "await", "keys", "values", "ttl"}

\* The model's clock has not moved or has crossed SOON, what is left of the
\* schedule does not take it to FAR, and the server is not far ahead.
InTime ==
    /\ pc = "flush" => Base <= server.clock /\ server.clock <= Base + MaxDrift
    /\ ScheduleRuns =>
         /\ model.clock = Base \/ Base + TickMs <= model.clock
         /\ model.clock + (Steps - done) * TickMs <= Base + Steps * TickMs
         /\ model.clock <= server.clock /\ server.clock <= model.clock + MaxDrift

\* Whenever the server executes the command in flight, it gets to the model's
\* keyspace and to a reply that compares as equal.
AnswerWillAgree ==
    \A t \in server.clock..(model.clock + MaxDrift) :
        LET r == Run(At(server, t), call.cmd)
        IN /\ r.world.slots = model.slots
           /\ RepliesAgree(call.reply, OnTheWire(r.reply), call.cmd.op = "Pttl")

CallSound ==
    pc = "await" => /\ done < Steps /\ call.cmd \in ScheduleCmd
                    /\ ~deviated => AnswerWillAgree

SameKeys ==
    pc \in {"step", "keys", "values", "ttl"} /\ ~deviated => model.slots = server.slots

\* One entry of a snapshot
Entry(w, k) == [key |-> k, val |-> w.slots[k].value, ttl |-> w.slots[k].expire_at # NoExpire]

\* A deadline has passed by some time.
PassedBy(w, k, t) == w.slots[k].expire_at # NoExpire /\ w.slots[k].expire_at < t

\* What an entry that was read by some time says of the world that KEYS found:
\* the value, and a TTL or, if there was one, that it has run out.
Told(w, t, e) ==
    /\ e.key \in VisibleKeys(w) /\ e.val = w.slots[e.key].value
    /\ e.ttl => w.slots[e.key].expire_at # NoExpire
    /\ ~e.ttl => w.slots[e.key].expire_at = NoExpire \/ PassedBy(w, e.key, t)

\* Since KEYS the server has lost what ran out, and nothing else has changed.
Lost(w, slots, t) ==
    \A k \in Key : \/ slots[k] = w.slots[k]
                   \/ slots[k] = AbsentSlot /\ PassedBy(w, k, t)

ListedSound ==
    /\ Clean(shot.listed) /\ shot.listed.clock <= server.clock
    /\ shot.dbsize = Cardinality({k \in Key : shot.listed.slots[k].present})
    /\ shot.visible = VisibleKeys(shot.listed) /\ shot.todo \subseteq shot.visible
    /\ \A e \in shot.values : Told(shot.listed, server.clock, e)
    /\ Lost(shot.listed, server.slots, server.clock)

GotSound ==
    /\ pc = "values" => shot.got = {}
    /\ pc = "ttl" => \E k \in shot.visible \ shot.todo :
                         shot.got = {[key |-> k, val |-> shot.listed.slots[k].value]}

\* Of a correct server all that has been asked for has been read, and it holds
\* what KEYS found.
ShotComplete ==
    /\ server.slots = shot.listed.slots /\ VisibleKeys(server) = shot.visible
    /\ shot.values = {Entry(server, k) :
                        k \in shot.visible \ (shot.todo \cup {g.key : g \in shot.got})}

ShotSound ==
    /\ shot = [dbsize |-> shot.dbsize, visible |-> shot.visible, todo |-> shot.todo,
               got |-> shot.got, values |-> shot.values, listed |-> shot.listed]
    /\ pc \in {"step", "await"} => shot = NoShot
    /\ pc = "keys" =>
         /\ shot.dbsize = Cardinality({k \in Key : server.slots[k].present})
         /\ shot.values = {} /\ shot.got = {}
    /\ pc \in {"values", "ttl"} =>
         /\ ListedSound /\ GotSound
         /\ ~deviated => ShotComplete

DiffIInv ==
    /\ DiffTypeOK /\ Clean(model) /\ Timed(DrawnTimes, model.slots)
    /\ ServerSound /\ InTime /\ CallSound /\ SameKeys /\ ShotSound
    /\ NoFalseAlarm /\ AgreedMeansEqual

-----------------------------------------------------------------------------
(***************************************************************************)
(* Time                                                                    *)
(***************************************************************************)
LEMMA Times ==
    /\ Base \in Nat /\ Soon \in Nat /\ Far \in Nat /\ TickMs \in Nat /\ MaxDrift \in Nat
    /\ Steps \in Nat /\ Past \in Int
    /\ Past < 0 /\ MaxDrift < Soon /\ Soon < TickMs
    /\ Steps * TickMs \in Nat /\ Steps * TickMs + MaxDrift < Far
  BY OffsetsAssumption, MarginsAssumption

\* What is left of a schedule shrinks by a tick, or by nothing, in a step.
LEMMA StepsLeft ==
    ASSUME NEW n \in 0..Steps
    PROVE  /\ (Steps - n) * TickMs \in Nat
           /\ n < Steps => /\ (Steps - (n + 1)) * TickMs \in Nat
                           /\ (Steps - n) * TickMs = (Steps - (n + 1)) * TickMs + TickMs
<1>1. Steps \in Nat /\ TickMs \in Nat /\ n \in Nat /\ n <= Steps
  BY Times
<1>2. \A a \in Nat : a * TickMs \in Nat
  BY <1>1
<1>3. Steps - n \in Nat /\ (n < Steps => Steps - (n + 1) \in Nat)
  BY <1>1
<1>4. (Steps - n) * TickMs = (Steps - (n + 1)) * TickMs + TickMs
  BY <1>1
<1> QED
  BY <1>2, <1>3, <1>4

\* No deadline separates two times within the drift of a schedule.
LEMMA DriftOnOneSide ==
    ASSUME NEW t \in Nat, NEW a \in t..(t + MaxDrift), NEW b \in t..(t + MaxDrift),
           t = Base \/ Base + TickMs <= t, t <= Base + Steps * TickMs
    PROVE  SameSide(DrawnTimes, a, b)
<1> SUFFICES ASSUME NEW at \in DrawnTimes
             PROVE  (a > at <=> b > at) /\ (at <= a <=> at <= b)
  BY DEF SameSide
<1> DEFINE all == Steps * TickMs
<1>1. all \in Nat /\ all + MaxDrift < Far /\ t <= Base + all
  BY Times
<1> HIDE DEF all
<1>2. a \in Nat /\ b \in Nat /\ t <= a /\ t <= b /\ a <= t + MaxDrift /\ b <= t + MaxDrift
  BY Times
<1>3. at \in {Base + Past, Base + Soon, Base + Far}
  BY DEF DrawnTimes
<1>4. CASE at = Base + Past
  BY <1>2, <1>4, Times
<1>5. CASE at = Base + Soon
  BY <1>2, <1>5, Times
<1>6. CASE at = Base + Far
  BY <1>1, <1>2, <1>6, Times
<1> QED
  BY <1>3, <1>4, <1>5, <1>6

\* Neither side's clock crosses a deadline unless the driver sleeps.
LEMMA ScheduleOnOneSide ==
    ASSUME DiffIInv, ScheduleRuns
    PROVE  /\ model.clock \in Nat /\ server.clock \in Nat
           /\ server.clock \in model.clock..(model.clock + MaxDrift)
           /\ \A a, b \in model.clock..(model.clock + MaxDrift) : SameSide(DrawnTimes, a, b)
<1>1. model.clock \in Nat /\ server.clock \in Nat
  <2>1. Clean(model) /\ Clean(server)
    BY DEF DiffIInv, ServerSound, ScheduleRuns
  <2> QED
    BY <2>1 DEF Clean, Sound, World
<1>2. /\ model.clock = Base \/ Base + TickMs <= model.clock
      /\ model.clock + (Steps - done) * TickMs <= Base + Steps * TickMs
      /\ model.clock <= server.clock /\ server.clock <= model.clock + MaxDrift
  BY DEF DiffIInv, InTime
<1>3. (Steps - done) * TickMs \in Nat
  BY StepsLeft DEF DiffIInv, DiffTypeOK
<1>4. model.clock <= Base + Steps * TickMs
  <2> DEFINE left == (Steps - done) * TickMs
             all == Steps * TickMs
  <2>1. left \in Nat /\ all \in Nat /\ Base \in Nat
        /\ model.clock + left <= Base + all
    BY <1>2, <1>3, Times
  <2> HIDE DEF left, all
  <2>2. model.clock <= Base + all
    BY <1>1, <2>1
  <2> QED
    BY <2>2 DEF all
<1>5. \A a, b \in model.clock..(model.clock + MaxDrift) : SameSide(DrawnTimes, a, b)
  BY <1>1, <1>2, <1>4, DriftOnOneSide
<1>6. server.clock \in model.clock..(model.clock + MaxDrift)
  BY <1>1, <1>2, Times
<1> QED
  BY <1>1, <1>5, <1>6
-----------------------------------------------------------------------------
(***************************************************************************)
(* What the steps do to clean worlds                                       *)
(***************************************************************************)
LEMMA CleanFields ==
    ASSUME NEW w, Clean(w)
    PROVE  /\ w.slots \in [Key -> Slot] /\ w.clock \in Nat /\ w.dirty \in Nat
           /\ w \in World
           /\ \A k \in Key : w.slots[k].present \/ w.slots[k] = AbsentSlot
  BY DEF Clean, Sound, World, AbsentSlotsAreBlank

LEMMA AtClean ==
    ASSUME NEW w, Clean(w), NEW t \in Nat
    PROVE  /\ Clean(At(w, t)) /\ At(w, t).slots = w.slots /\ At(w, t).clock = t
           /\ At(w, w.clock) = w
<1>1. /\ w.slots \in [Key -> Slot] /\ w.dirty \in Nat /\ w \in World
      /\ \A k \in Key : w.slots[k].present \/ w.slots[k] = AbsentSlot
  BY CleanFields
<1>2. At(w, t) = Moved(w, w.slots, t, w.dirty) /\ At(w, w.clock) = w
  BY <1>1 DEF At, Moved, World
<1> QED
  BY <1>1, <1>2, CleanWith

LEMMA BlankClean ==
    ASSUME NEW w, Clean(w)
    PROVE  Clean(Blank(w))
<1> DEFINE blank == [k \in Key |-> AbsentSlot]
<1>1. w.clock \in Nat /\ w.dirty \in Nat /\ w \in World
  BY CleanFields
<1>2. blank \in [Key -> Slot] /\ \A k \in Key : blank[k] = AbsentSlot
  BY DEF AbsentSlot, Slot
<1>3. Blank(w) = Moved(w, blank, w.clock, w.dirty)
  BY <1>1 DEF Blank, Moved, World
<1> HIDE DEF blank
<1>4. Clean(Moved(w, blank, w.clock, w.dirty))
  BY <1>1, <1>2, CleanWith
<1> QED
  BY <1>3, <1>4

LEMMA EmptyClean ==
    /\ Clean(EmptyWorld(Base)) /\ EmptyWorld(Base).clock = Base
    /\ EmptyWorld(Base).slots = [k \in Key |-> AbsentSlot]
<1> DEFINE w == EmptyWorld(Base)
           blank == [k \in Key |-> AbsentSlot]
<1>1. w \in NondetWorld(Base, StandaloneMaster)
  <2>1. blank \in [Key -> DrawnSlot]
    BY DEF DrawnSlot
  <2> QED
    BY <2>1 DEF NondetWorld, EmptyWorld
<1>2. Sound(w)
  BY <1>1, NewWorldSound, Times, StandaloneAssumption
<1>3. /\ w.mode = StandaloneMaster /\ w.clock = Base /\ w.slots = blank
      /\ w.clients = [c \in Client |-> FreshClient]
  BY DEF EmptyWorld, NewWorld
<1>4. \A c \in Client : w.clients[c].watched_expired = {}
  BY <1>3 DEF FreshClient
<1> QED
  BY <1>2, <1>3, <1>4 DEF Clean

\* Resetting the counter of changes
LEMMA UncountedClean ==
    ASSUME NEW w, Clean(w)
    PROVE  LET u == [w EXCEPT !.dirty = 0]
           IN Clean(u) /\ u.slots = w.slots /\ u.clock = w.clock
<1> DEFINE u == [w EXCEPT !.dirty = 0]
<1>1. /\ w.slots \in [Key -> Slot] /\ w.clock \in Nat /\ w \in World
      /\ \A k \in Key : w.slots[k].present \/ w.slots[k] = AbsentSlot
  BY CleanFields
<1>2. u = Moved(w, w.slots, w.clock, 0)
  BY <1>1 DEF Moved, World
<1> HIDE DEF u
<1>3. LET m == Moved(w, w.slots, w.clock, 0)
      IN Clean(m) /\ m.slots = w.slots /\ m.clock = w.clock
  BY <1>1, CleanWith
<1> QED
  BY <1>2, <1>3 DEF u

\* The two sides run a command.
LEMMA RunAligned ==
    ASSUME NEW D \in SUBSET ExpireTimes,
           NEW w, NEW v, Aligned(D, w, v),
           NEW cmd \in KeyCmd \cup ScanCmd, DeadlinesOf(cmd) \subseteq D
    PROVE  InStep(D, Run(w, cmd), Run(v, cmd), w, v, cmd)
<1> DEFINE r == Exec(w, cmd)
           s == Exec(v, cmd)
           t == [r.world EXCEPT !.dirty = 0]
           u == [s.world EXCEPT !.dirty = 0]
<1>1. InStep(D, r, s, w, v, cmd)
  BY ExecAligned
<1>2. /\ Aligned(D, r.world, s.world)
      /\ r.world.clock = w.clock /\ s.world.clock = v.clock
  BY <1>1 DEF InStep, StillAligned
<1>3. Run(w, cmd) = Result(t, r.reply) /\ Run(v, cmd) = Result(u, s.reply)
  BY DEF Run, Uncounted
<1> HIDE DEF r, s
<1>4. Clean(t) /\ t.slots = r.world.slots /\ t.clock = r.world.clock
  BY <1>2, UncountedClean DEF Aligned
<1>5. Clean(u) /\ u.slots = s.world.slots /\ u.clock = s.world.clock
  BY <1>2, UncountedClean DEF Aligned
<1> HIDE DEF t, u
<1>6. Aligned(D, t, u) /\ t.clock = w.clock /\ u.clock = v.clock
  BY <1>2, <1>4, <1>5 DEF Aligned
<1> QED
  BY <1>1, <1>3, <1>6 DEF InStep, StillAligned, Result

LEMMA RunClean ==
    ASSUME NEW w, Clean(w), NEW cmd \in KeyCmd \cup ScanCmd
    PROVE  Clean(Run(w, cmd).world) /\ Run(w, cmd).world.clock = w.clock
<1>1. Aligned(ExpireTimes, w, w)
  BY CleanFields DEF Aligned, SameSide, Timed, Slot
<1>2. DeadlinesOf(cmd) \subseteq ExpireTimes
  BY DEF DeadlinesOf, KeyCmd, SetCmd, ExpireCmd, RemoveCmd, LookupCmd, LookupOp, ScanCmd,
         TtlArg, PxAt, NoTtl, KeepTtl
<1>3. InStep(ExpireTimes, Run(w, cmd), Run(w, cmd), w, w, cmd)
  BY <1>1, <1>2, RunAligned
<1> QED
  BY <1>3 DEF InStep, StillAligned, Aligned

LEMMA RunTimed ==
    ASSUME NEW w, Clean(w), Timed(DrawnTimes, w.slots), NEW cmd \in ScheduleCmd
    PROVE  Timed(DrawnTimes, Run(w, cmd).world.slots)
<1>1. Aligned(DrawnTimes, w, w)
  BY DEF Aligned, SameSide
<1>2. /\ cmd \in KeyCmd \cup ScanCmd /\ DeadlinesOf(cmd) \subseteq DrawnTimes
      /\ DrawnTimes \in SUBSET ExpireTimes
  BY OffsetsAssumption DEF ScheduleCmd
<1>3. InStep(DrawnTimes, Run(w, cmd), Run(w, cmd), w, w, cmd)
  BY <1>1, <1>2, RunAligned
<1> QED
  BY <1>3 DEF InStep, StillAligned, Aligned

\* A server that gets a slot wrong still has a keyspace.
LEMMA DeviationClean ==
    ASSUME NEW w, Clean(w), NEW v \in Deviations(w)
    PROVE  Clean(v) /\ v.clock = w.clock
<1>1. PICK k \in Key, s \in DrawnSlot : v = [w EXCEPT !.slots[k] = s]
  BY DEF Deviations
<1> DEFINE slots == [w.slots EXCEPT ![k] = s]
<1>2. /\ w.slots \in [Key -> Slot] /\ w.clock \in Nat /\ w.dirty \in Nat /\ w \in World
      /\ \A j \in Key : w.slots[j].present \/ w.slots[j] = AbsentSlot
  BY CleanFields
<1>3. s \in Slot /\ (s.present \/ s = AbsentSlot)
  <2>1. CASE s = AbsentSlot
    BY <2>1 DEF AbsentSlot, Slot
  <2>2. CASE s \in [present : {TRUE}, value : Value, expire_at : ExpireTimes \cup {NoExpire}]
    BY <2>2 DEF Slot
  <2> QED
    BY <2>1, <2>2 DEF DrawnSlot
<1>4. slots \in [Key -> Slot]
  BY <1>2, <1>3
<1>5. \A j \in Key : slots[j].present \/ slots[j] = AbsentSlot
  BY <1>2, <1>3
<1>6. v = Moved(w, slots, w.clock, w.dirty)
  BY <1>1, <1>2 DEF Moved, World
<1>7. w.clock \in Nat /\ w.dirty \in Nat
  BY <1>2
<1> HIDE DEF slots
<1>8. LET m == Moved(w, slots, w.clock, w.dirty)
      IN Clean(m) /\ m.slots = slots /\ m.clock = w.clock
  BY <1>4, <1>5, <1>7, CleanWith
<1> QED
  BY <1>6, <1>8

\* The active cycle of the server
LEMMA CycleClean ==
    ASSUME NEW w, Clean(w)
    PROVE  Clean([ActiveExpireCycle(w) EXCEPT !.dirty = 0])
<1> DEFINE due == {k \in Key : w.slots[k].present /\ ActiveCycleWouldExpire(w, k)}
<1>1. ActiveExpireCycle(w) = DeleteExpiredAndPropagate(w, due)
  BY DEF ActiveExpireCycle, Clean, StandaloneMaster
<1>2. Clean(DeleteExpiredAndPropagate(w, due))
  BY DeleteExpiredClean
<1> QED
  BY <1>1, <1>2, UncountedClean
-----------------------------------------------------------------------------
(***************************************************************************)
(* One lemma per action                                                    *)
(***************************************************************************)
LEMMA DiffInitInv == DiffInit => DiffIInv
<1> SUFFICES ASSUME DiffInit
             PROVE  DiffIInv
  OBVIOUS
<1>1. PICK s \in [Key -> {AbsentSlot}] : server = NewWorld(s, Base, StandaloneMaster)
  BY DEF DiffInit
<1>2. s = [k \in Key |-> AbsentSlot]
  OBVIOUS
<1>3. server = EmptyWorld(Base)
  BY <1>1, <1>2 DEF EmptyWorld
<1>4. Clean(server) /\ Clean(model) /\ Clean(Blank(server)) /\ model \in World
  BY <1>3, EmptyClean, BlankClean, CleanFields DEF DiffInit
<1>8. Timed(DrawnTimes, model.slots)
  BY EmptyClean DEF DiffInit, Timed, AbsentSlot
<1>5. DiffTypeOK
  <2>1. 0 \in 0..Steps
    BY Times
  <2> QED
    BY <1>4, <2>1 DEF DiffInit, DiffTypeOK, NoShot
<1>6. ServerSound /\ InTime /\ CallSound /\ SameKeys
  BY <1>4 DEF DiffInit, ServerSound, InTime, CallSound, SameKeys, ScheduleRuns
<1>7. ShotSound /\ NoFalseAlarm /\ AgreedMeansEqual
  BY DEF DiffInit, ShotSound, NoShot, NoFalseAlarm, AgreedMeansEqual
<1> QED
  BY <1>4, <1>5, <1>6, <1>7, <1>8 DEF DiffIInv

\* DEBUG: only a server that still expires on its own stops the driver.
LEMMA DisableKeeps == ASSUME DiffIInv, DisableActiveExpire PROVE DiffIInv'
<1>1. /\ pc = "debug" /\ pc' \in {"time", "panicked"} /\ active' \in BOOLEAN
      /\ active' => pc' = "panicked"
      /\ UNCHANGED <<model, server, call, done, shot, verdict, deviated>>
  BY DEF DisableActiveExpire, DiffIInv, DiffTypeOK
<1>2. Clean(server) /\ Clean(Blank(server))
  BY <1>1 DEF DiffIInv, ServerSound
<1>3. DiffTypeOK' /\ Clean(model)' /\ Timed(DrawnTimes, model.slots)' /\ NoFalseAlarm'
  BY <1>1 DEF DiffIInv, DiffTypeOK, NoFalseAlarm
<1>4. ServerSound'
  BY <1>1, <1>2 DEF ServerSound
<1>5. InTime' /\ CallSound' /\ SameKeys' /\ ShotSound' /\ AgreedMeansEqual'
  BY <1>1 DEF DiffIInv, InTime, CallSound, SameKeys, ScheduleRuns, ShotSound,
              AgreedMeansEqual
<1> QED
  BY <1>3, <1>4, <1>5 DEF DiffIInv

\* TIME: the deadlines are counted anew; FLUSHALL forgets them.
LEMMA ReadTimeKeeps == ASSUME DiffIInv, ReadTime PROVE DiffIInv'
<1> DEFINE shifted == [k \in Key |-> Shifted(server.slots[k], server.clock - Base)]
<1>1. /\ pc = "time" /\ pc' = "flush" /\ ~active
      /\ server' = [server EXCEPT !.clock = Base, !.slots = shifted]
      /\ verdict' = "none" /\ deviated' = FALSE
      /\ UNCHANGED <<model, active, call, done, shot>>
  BY DEF ReadTime, DiffIInv, ServerSound
<1> HIDE DEF shifted
<1>2. Clean(server)
  BY <1>1 DEF DiffIInv, ServerSound
<1>3. Clean(Blank(server')) /\ server'.clock = Base
  <2>1. Clean(At(Blank(server), Base))
    BY <1>2, BlankClean, AtClean, Times
  <2>2. server \in World
    BY <1>2, CleanFields
  <2>3. Blank(server') = At(Blank(server), Base) /\ server'.clock = Base
    BY <1>1, <2>2 DEF Blank, At, World
  <2> QED
    BY <2>1, <2>3
<1>4. DiffTypeOK' /\ Clean(model)' /\ Timed(DrawnTimes, model.slots)' /\ NoFalseAlarm'
  BY <1>1 DEF DiffIInv, DiffTypeOK, NoFalseAlarm
<1>5. ServerSound'
  BY <1>1, <1>3 DEF ServerSound
<1>6. InTime'
  BY <1>1, <1>3, Times DEF InTime, ScheduleRuns
<1>7. CallSound' /\ SameKeys' /\ ShotSound' /\ AgreedMeansEqual'
  BY <1>1 DEF DiffIInv, CallSound, SameKeys, ShotSound, AgreedMeansEqual
<1> QED
  BY <1>4, <1>5, <1>6, <1>7 DEF DiffIInv

LEMMA FlushKeeps == ASSUME DiffIInv, FlushAll PROVE DiffIInv'
<1> DEFINE blank == [k \in Key |-> AbsentSlot]
<1>1. /\ pc = "flush" /\ pc' = "step" /\ done' = 0 /\ shot' = NoShot
      /\ server' = Blank(server) /\ model' = EmptyWorld(Base)
      /\ UNCHANGED <<active, call, verdict, deviated>>
  BY DEF FlushAll, Blank
<1>2. Clean(Blank(server))
  BY DEF DiffIInv, ServerSound
<1>3. /\ Clean(server') /\ Clean(Blank(server')) /\ ~active
  BY <1>1, <1>2, BlankClean DEF DiffIInv, ServerSound
<1>4. Clean(model') /\ model'.clock = Base /\ model'.slots = blank /\ model' \in World
  BY <1>1, EmptyClean, CleanFields
<1>10. Timed(DrawnTimes, model'.slots)
  BY <1>4 DEF Timed, AbsentSlot
<1>5. server'.slots = blank /\ server'.clock = server.clock
  BY <1>1, <1>3, CleanFields DEF Blank, World
<1>6. DiffTypeOK'
  <2>1. 0 \in 0..Steps
    BY Times
  <2> QED
    BY <1>1, <1>4, <2>1 DEF DiffIInv, DiffTypeOK, NoShot
<1>7. ServerSound'
  BY <1>1, <1>3 DEF ServerSound
<1>8. InTime'
  <2>1. Base <= server.clock /\ server.clock <= Base + MaxDrift
    BY <1>1 DEF DiffIInv, InTime
  <2>2. Base + (Steps - 0) * TickMs <= Base + Steps * TickMs
    <3>1. Steps - 0 = Steps /\ Base \in Nat /\ Steps * TickMs \in Nat
      BY Times
    <3> QED
      BY <3>1
  <2> QED
    BY <1>1, <1>4, <1>5, <2>1, <2>2 DEF InTime, ScheduleRuns
<1>9. CallSound' /\ SameKeys' /\ ShotSound' /\ NoFalseAlarm' /\ AgreedMeansEqual'
  BY <1>1, <1>4, <1>5 DEF DiffIInv, CallSound, SameKeys, ShotSound, NoShot, NoFalseAlarm,
                          AgreedMeansEqual
<1> QED
  BY <1>4, <1>6, <1>7, <1>8, <1>9, <1>10 DEF DiffIInv

\* What has been told of the listed world, and what has been lost of it, stays
\* so as time passes.
LEMMA ToldLater ==
    ASSUME NEW w, Clean(w), NEW t \in Nat, NEW u \in Nat, t <= u
    PROVE  /\ \A e : Told(w, t, e) => Told(w, u, e)
           /\ \A ss : Lost(w, ss, t) => Lost(w, ss, u)
<1>1. \A k \in Key : PassedBy(w, k, t) => PassedBy(w, k, u)
  <2> SUFFICES ASSUME NEW k \in Key, PassedBy(w, k, t)
               PROVE  PassedBy(w, k, u)
    OBVIOUS
  <2>1. w.slots[k].expire_at \in Nat
    BY CleanFields, ExpireTimesAssumption DEF PassedBy, Slot
  <2> QED
    BY <2>1 DEF PassedBy
<1> QED
  BY <1>1 DEF Told, Lost, VisibleKeys

\* Time passes on the server: it stays on one side of every deadline.
LEMMA ElapseKeeps == ASSUME DiffIInv, Elapse PROVE DiffIInv'
<1> DEFINE later == server.clock + 1
<1>1. /\ pc \notin {"debug", "time", "decided", "panicked"}
      /\ server.clock < ModelTime + MaxDrift
      /\ server' = [server EXCEPT !.clock = later]
      /\ UNCHANGED <<pc, model, active, call, done, shot, verdict, deviated>>
  <2>1. server' = [server EXCEPT !.clock = @ + 1]
    BY DEF Elapse
  <2>2. server' = [server EXCEPT !.clock = later]
    BY <2>1
  <2> QED
    BY <2>2 DEF Elapse
<1>2. server' = At(server, later) /\ ~active
  BY <1>1 DEF At, DiffIInv, ServerSound
<1>3. /\ Clean(Blank(server)) /\ Blank(server).clock = server.clock
      /\ server.clock \in Nat /\ later \in Nat
      /\ server'.clock = later /\ server'.slots = server.slots
  <2>1. Clean(Blank(server))
    BY DEF DiffIInv, ServerSound
  <2>2. Blank(server) \in World
    BY <2>1, CleanFields
  <2>3. Blank(server).clock = server.clock /\ DOMAIN server = DOMAIN Blank(server)
    BY DEF Blank
  <2>4. Blank(server).clock \in Nat
    BY <2>2 DEF World
  <2>5. server'.clock = later /\ server'.slots = server.slots
    <3>1. "clock" \in DOMAIN server
      BY <2>2, <2>3 DEF World
    <3> HIDE DEF later
    <3> QED
      BY <1>1, <3>1
  <2> QED
    BY <2>1, <2>3, <2>4, <2>5
<1> HIDE DEF later
<1>4. ServerSound'
  <2>1. Clean(At(Blank(server), later))
    BY <1>3, AtClean
  <2>2. Blank(server') = At(Blank(server), later)
    BY <1>1 DEF Blank, At
  <2>3. Clean(server) => Clean(server')
    BY <1>2, <1>3, AtClean
  <2> QED
    BY <1>1, <1>2, <2>1, <2>2, <2>3 DEF DiffIInv, ServerSound
<1>5. DiffTypeOK' /\ Clean(model)' /\ Timed(DrawnTimes, model.slots)' /\ NoFalseAlarm'
      /\ SameKeys'
  BY <1>1, <1>3 DEF DiffIInv, DiffTypeOK, NoFalseAlarm, SameKeys
<1>6. InTime'
  <2>1. CASE pc = "flush"
    BY <1>1, <1>3, <2>1, Times DEF later, InTime, ModelTime, DiffIInv, ScheduleRuns
  <2>2. CASE pc # "flush"
    <3>1. model.clock \in Nat
      BY CleanFields DEF DiffIInv
    <3>2. ScheduleRuns =>
            /\ model.clock = Base \/ Base + TickMs <= model.clock
            /\ model.clock + (Steps - done) * TickMs <= Base + Steps * TickMs
            /\ model.clock <= server.clock /\ server.clock < model.clock + MaxDrift
      BY <1>1, <2>2 DEF DiffIInv, InTime, ModelTime
    <3>3. ScheduleRuns =>
            model.clock <= later /\ later <= model.clock + MaxDrift
      BY <1>3, <3>1, <3>2, Times DEF later
    <3> QED
      BY <1>1, <1>3, <2>2, <3>2, <3>3 DEF InTime, ScheduleRuns
  <2> QED
    BY <2>1, <2>2
<1>7. CallSound'
  <2> SUFFICES ASSUME pc = "await", ~deviated, AnswerWillAgree
               PROVE  AnswerWillAgree'
    BY <1>1 DEF DiffIInv, CallSound
  <2>1. \A t : At(server', t) = At(server, t)
    BY <1>1 DEF At
  <2>2. \A t \in later..(model.clock + MaxDrift) :
          t \in server.clock..(model.clock + MaxDrift)
    <3>1. model.clock \in Nat
      BY CleanFields DEF DiffIInv
    <3> QED
      BY <1>3, <3>1, Times DEF later
  <2> QED
    BY <1>1, <1>3, <2>1, <2>2 DEF AnswerWillAgree
<1>8. ShotSound'
  <2>1. CASE pc \in {"values", "ttl"}
    <3>1. Clean(server) /\ Clean(server')
      BY <1>1, <1>2, <1>3, <2>1, AtClean DEF DiffIInv, ServerSound
    <3>2. ListedSound /\ GotSound
      BY <2>1 DEF DiffIInv, ShotSound
    <3>3. ListedSound'
      <4>1. /\ Clean(shot.listed) /\ shot.listed.clock \in Nat
            /\ server.clock <= later
        BY <1>3, <3>2, CleanFields DEF ListedSound, later
      <4>2. /\ \A e : Told(shot.listed, server.clock, e) => Told(shot.listed, later, e)
            /\ \A ss : Lost(shot.listed, ss, server.clock) => Lost(shot.listed, ss, later)
        BY <1>3, <4>1, ToldLater
      <4>3. shot.listed.clock <= later
        BY <1>3, <3>2, <4>1 DEF ListedSound
      <4> QED
        BY <1>1, <1>3, <3>2, <4>2, <4>3 DEF ListedSound
    <3>4. GotSound'
      BY <1>1, <3>2 DEF GotSound
    <3>5. ~deviated => ShotComplete'
      <4> SUFFICES ASSUME ~deviated PROVE ShotComplete'
        OBVIOUS
      <4>1. /\ model.clock \in Nat
            /\ server.clock \in model.clock..(model.clock + MaxDrift)
            /\ \A a, b \in model.clock..(model.clock + MaxDrift) : SameSide(DrawnTimes, a, b)
        BY <2>1, ScheduleOnOneSide DEF ScheduleRuns
      <4>2. later \in model.clock..(model.clock + MaxDrift)
        BY <1>1, <1>3, <2>1, <4>1, Times DEF later, ModelTime
      <4>3. Timed(DrawnTimes, server.slots) /\ ShotComplete
        BY <2>1 DEF DiffIInv, SameKeys, ShotSound
      <4>4. Aligned(DrawnTimes, server, server')
        BY <1>3, <3>1, <4>1, <4>2, <4>3 DEF Aligned
      <4>5. VisibleKeys(server') = VisibleKeys(server)
        BY <4>4, AlignedVisible, OffsetsAssumption
      <4>6. \A k : Entry(server', k) = Entry(server, k)
        BY <1>3 DEF Entry
      <4> QED
        BY <1>1, <1>3, <4>3, <4>5, <4>6 DEF ShotComplete
    <3> QED
      BY <1>1, <2>1, <3>3, <3>4, <3>5 DEF DiffIInv, ShotSound
  <2>2. CASE pc \notin {"values", "ttl"}
    BY <1>1, <1>3, <2>2 DEF DiffIInv, ShotSound
  <2> QED
    BY <2>1, <2>2
<1>9. AgreedMeansEqual'
  BY <1>1 DEF AgreedMeansEqual
<1> QED
  BY <1>4, <1>5, <1>6, <1>7, <1>8, <1>9 DEF DiffIInv

\* The active cycle works before the driver turns it off.
LEMMA CycleKeeps == ASSUME DiffIInv, ServerCycle PROVE DiffIInv'
<1>1. /\ active /\ server' = [ActiveExpireCycle(server) EXCEPT !.dirty = 0]
      /\ pc \in {"debug", "panicked"}
      /\ UNCHANGED <<pc, model, active, call, done, shot, verdict, deviated>>
  BY DEF ServerCycle, DiffIInv, ServerSound
<1>2. Clean(server)
  BY <1>1 DEF DiffIInv, ServerSound
<1>3. Clean(server') /\ Clean(Blank(server'))
  BY <1>1, <1>2, CycleClean, BlankClean
<1>4. ServerSound'
  BY <1>1, <1>3 DEF ServerSound
<1>5. DiffTypeOK' /\ Clean(model)' /\ Timed(DrawnTimes, model.slots)' /\ NoFalseAlarm'
  BY <1>1 DEF DiffIInv, DiffTypeOK, NoFalseAlarm
<1>6. InTime' /\ CallSound' /\ SameKeys' /\ ShotSound' /\ AgreedMeansEqual'
  BY <1>1 DEF DiffIInv, InTime, CallSound, SameKeys, ScheduleRuns, ShotSound,
              AgreedMeansEqual
<1> QED
  BY <1>4, <1>5, <1>6 DEF DiffIInv

\* A failing socket, and the next seed, leave the two sides alone.
LEMMA LeavingKeeps == ASSUME DiffIInv, SocketFails \/ NextSchedule PROVE DiffIInv'
<1>1. /\ \/ pc # "panicked" /\ pc' = "panicked"
         \/ pc = "decided" /\ pc' = "time"
      /\ UNCHANGED <<model, server, active, call, done, shot, verdict, deviated>>
  BY DEF SocketFails, NextSchedule, WaitsForServer
<1>2. ServerSound'
  BY <1>1 DEF DiffIInv, ServerSound
<1>3. DiffTypeOK' /\ Clean(model)' /\ Timed(DrawnTimes, model.slots)' /\ NoFalseAlarm'
  BY <1>1 DEF DiffIInv, DiffTypeOK, NoFalseAlarm
<1>4. InTime' /\ CallSound' /\ SameKeys' /\ ShotSound' /\ AgreedMeansEqual'
  BY <1>1 DEF DiffIInv, InTime, CallSound, SameKeys, ScheduleRuns, ShotSound,
              AgreedMeansEqual
<1> QED
  BY <1>2, <1>3, <1>4 DEF DiffIInv

\* A step of the schedule is counted.
LEMMA StepCounted == ASSUME NEW n \in 0..Steps, n < Steps PROVE n + 1 \in 0..Steps
<1>1. Steps \in Nat
  BY Times
<1> QED
  BY <1>1

\* The driver sleeps: both clocks move by a tick.
LEMMA TickKeeps == ASSUME DiffIInv, Tick PROVE DiffIInv'
<1> DEFINE m == model.clock + TickMs
           s == server.clock + TickMs
<1>1. /\ pc = "step" /\ done < Steps /\ done' = done + 1
      /\ model' = At(model, m) /\ server' = At(server, s)
      /\ UNCHANGED <<pc, active, call, shot, verdict, deviated>>
  BY DEF Tick, At
<1>2. /\ Clean(model) /\ Clean(server) /\ ~active
      /\ model.clock \in Nat /\ server.clock \in Nat /\ m \in Nat /\ s \in Nat
  BY <1>1, CleanFields, Times DEF DiffIInv, ServerSound
<1>3. /\ Clean(model') /\ model'.clock = m /\ model'.slots = model.slots
      /\ Clean(server') /\ server'.clock = s /\ server'.slots = server.slots
      /\ Clean(Blank(server')) /\ model' \in World
  BY <1>1, <1>2, AtClean, BlankClean, CleanFields
<1>4. done \in 0..Steps /\ done' \in 0..Steps
  BY <1>1, StepCounted DEF DiffIInv, DiffTypeOK
<1>5. DiffTypeOK' /\ NoFalseAlarm' /\ AgreedMeansEqual'
  BY <1>1, <1>3, <1>4 DEF DiffIInv, DiffTypeOK, NoFalseAlarm, AgreedMeansEqual
<1>6. ServerSound'
  BY <1>1, <1>2, <1>3 DEF ServerSound
<1>7. InTime'
  <2> DEFINE left == (Steps - done) * TickMs
             rest == (Steps - (done + 1)) * TickMs
             all == Steps * TickMs
  <2>1. left \in Nat /\ rest \in Nat /\ left = rest + TickMs /\ all \in Nat
        /\ Base \in Nat /\ TickMs \in Nat /\ MaxDrift \in Nat
    BY <1>1, <1>4, StepsLeft, Times
  <2>2. /\ model.clock = Base \/ Base + TickMs <= model.clock
        /\ model.clock + left <= Base + all
        /\ model.clock <= server.clock /\ server.clock <= model.clock + MaxDrift
    BY <1>1 DEF DiffIInv, InTime, ScheduleRuns
  <2> HIDE DEF left, rest, all
  <2>3. /\ Base + TickMs <= m /\ m + rest <= Base + all
        /\ m <= s /\ s <= m + MaxDrift
    BY <1>2, <2>1, <2>2
  <2>4. (Steps - done') * TickMs = rest
    BY <1>1 DEF rest
  <2> HIDE DEF m, s
  <2> QED
    BY <1>1, <1>3, <2>3, <2>4 DEF InTime, ScheduleRuns, all
<1>8. CallSound' /\ SameKeys' /\ ShotSound'
  BY <1>1, <1>3 DEF DiffIInv, CallSound, SameKeys, ShotSound
<1>9. Timed(DrawnTimes, model'.slots)
  BY <1>3 DEF DiffIInv
<1> QED
  BY <1>3, <1>5, <1>6, <1>7, <1>8, <1>9 DEF DiffIInv

\* The model executes a command: the server will follow, whenever that is.
LEMMA IssueKeeps ==
    ASSUME DiffIInv, NEW cmd \in ScheduleCmd, Issue(cmd)
    PROVE  DiffIInv'
<1> DEFINE r == Run(model, cmd)
<1>1. /\ pc = "step" /\ pc' = "await" /\ done < Steps
      /\ model' = r.world /\ call' = [cmd |-> cmd, reply |-> r.reply]
      /\ UNCHANGED <<server, active, done, shot, verdict, deviated>>
  BY DEF Issue
<1>2. Clean(model) /\ Clean(server) /\ Clean(Blank(server)) /\ ~active
  BY <1>1 DEF DiffIInv, ServerSound
<1>10. /\ cmd \in KeyCmd \cup ScanCmd /\ DeadlinesOf(cmd) \subseteq DrawnTimes
       /\ DrawnTimes \in SUBSET ExpireTimes /\ Timed(DrawnTimes, model.slots)
  BY OffsetsAssumption DEF ScheduleCmd, DiffIInv
<1>3. Clean(model') /\ model'.clock = model.clock /\ model' \in World
  BY <1>1, <1>2, <1>10, RunClean, CleanFields
<1>11. Timed(DrawnTimes, model'.slots)
  BY <1>1, <1>2, <1>10, RunTimed
<1>4. call'.cmd = cmd /\ call'.reply = r.reply
  BY <1>1
<1>5. ASSUME ~deviated, NEW t \in server.clock..(model.clock + MaxDrift)
      PROVE  LET s == Run(At(server, t), cmd)
             IN /\ s.world.slots = r.world.slots
                /\ RepliesAgree(r.reply, OnTheWire(s.reply), cmd.op = "Pttl")
  <2>1. /\ server.clock \in model.clock..(model.clock + MaxDrift)
        /\ \A a, b \in model.clock..(model.clock + MaxDrift) : SameSide(DrawnTimes, a, b)
        /\ model.clock \in Nat /\ server.clock \in Nat
    BY <1>1, ScheduleOnOneSide DEF ScheduleRuns
  <2>2. /\ t \in Nat /\ t \in model.clock..(model.clock + MaxDrift)
        /\ model.clock \in model.clock..(model.clock + MaxDrift)
    BY <2>1, Times
  <2>3. SameSide(DrawnTimes, model.clock, t)
    BY <2>1, <2>2
  <2>4. model.slots = server.slots
    BY <1>1, <1>5 DEF DiffIInv, SameKeys
  <2>5. Aligned(DrawnTimes, model, At(server, t))
    BY <1>2, <1>10, <2>2, <2>3, <2>4, AtClean DEF Aligned
  <2>6. InStep(DrawnTimes, r, Run(At(server, t), cmd), model, At(server, t), cmd)
    BY <1>10, <2>5, RunAligned
  <2> QED
    BY <2>6 DEF InStep, StillAligned, Aligned
<1> HIDE DEF r
<1>6. CallSound'
  <2>1. ~deviated => AnswerWillAgree'
    BY <1>1, <1>3, <1>4, <1>5 DEF AnswerWillAgree
  <2> QED
    BY <1>1, <1>4, <2>1 DEF CallSound
<1>7. DiffTypeOK' /\ NoFalseAlarm' /\ AgreedMeansEqual'
  BY <1>1, <1>3 DEF DiffIInv, DiffTypeOK, NoFalseAlarm, AgreedMeansEqual
<1>8. ServerSound'
  BY <1>1, <1>2 DEF ServerSound
<1>9. InTime' /\ SameKeys' /\ ShotSound'
  BY <1>1, <1>3 DEF DiffIInv, InTime, ScheduleRuns, SameKeys, ShotSound
<1> QED
  BY <1>3, <1>6, <1>7, <1>8, <1>9, <1>11 DEF DiffIInv

\* The reply arrives: only a server that has a bug can be told apart.
LEMMA AnswerKeeps == ASSUME DiffIInv, Answer PROVE DiffIInv'
<1> DEFINE cmd == call.cmd
           r == Run(server, cmd)
           agrees == RepliesAgree(call.reply, OnTheWire(r.reply), cmd.op = "Pttl")
<1>1. pc = "await" /\ cmd \in KeyCmd \cup ScanCmd /\ done < Steps
  BY DEF Answer, DiffIInv, CallSound, ScheduleCmd
<1>2. Receive(r)
  BY <1>1, ParsedRender DEF Answer
<1>3. /\ \/ server' = r.world /\ deviated' = deviated
         \/ ~deviated /\ server' \in Deviations(r.world) /\ deviated'
      /\ agrees => pc' = "step" /\ done' = done + 1 /\ verdict' = verdict
      /\ ~agrees => pc' = "decided" /\ verdict' = "reply mismatch" /\ done' = done
      /\ deviated' \in BOOLEAN
      /\ UNCHANGED <<model, active, shot>>
  BY <1>2 DEF Receive, DiffIInv, DiffTypeOK
<1>4. Clean(server) /\ ~active
  BY <1>1 DEF DiffIInv, ServerSound
<1>5. Clean(r.world) /\ r.world.clock = server.clock
  BY <1>1, <1>4, RunClean
<1>6. ~deviated => r.world.slots = model.slots /\ agrees
  <2> SUFFICES ASSUME ~deviated
               PROVE  r.world.slots = model.slots /\ agrees
    OBVIOUS
  <2>1. AnswerWillAgree
    BY <1>1 DEF DiffIInv, CallSound
  <2>2. server.clock \in server.clock..(model.clock + MaxDrift)
    <3>1. /\ model.clock \in Nat /\ server.clock \in Nat
          /\ server.clock \in model.clock..(model.clock + MaxDrift)
      BY <1>1, ScheduleOnOneSide DEF ScheduleRuns
    <3> QED
      BY <3>1, Times
  <2>3. At(server, server.clock) = server
    BY <1>4, AtClean, CleanFields
  <2> QED
    BY <2>1, <2>2, <2>3 DEF AnswerWillAgree
<1> HIDE DEF r, agrees
<1>7. Clean(server') /\ server'.clock = server.clock
  BY <1>3, <1>5, DeviationClean
<1>8. Clean(Blank(server'))
  BY <1>7, BlankClean
<1>9. done \in 0..Steps /\ done' \in 0..Steps
  <2>1. done \in 0..Steps /\ done + 1 \in 0..Steps
    BY <1>1, StepCounted DEF DiffIInv, DiffTypeOK
  <2>2. done' = done + 1 \/ done' = done
    BY <1>3
  <2> QED
    BY <2>1, <2>2
<1>10. DiffTypeOK' /\ Clean(model)' /\ Timed(DrawnTimes, model.slots)'
  BY <1>3, <1>9 DEF DiffIInv, DiffTypeOK
<1>11. ServerSound'
  BY <1>3, <1>4, <1>7, <1>8 DEF ServerSound
<1>12. InTime'
  <2> DEFINE left == (Steps - done) * TickMs
             rest == (Steps - (done + 1)) * TickMs
             all == Steps * TickMs
  <2>1. left \in Nat /\ rest \in Nat /\ left = rest + TickMs /\ all \in Nat
        /\ Base \in Nat /\ TickMs \in Nat /\ model.clock \in Nat
    BY <1>1, <1>9, StepsLeft, Times, CleanFields DEF DiffIInv
  <2>2. /\ model.clock = Base \/ Base + TickMs <= model.clock
        /\ model.clock + left <= Base + all
        /\ model.clock <= server.clock /\ server.clock <= model.clock + MaxDrift
    BY <1>1 DEF DiffIInv, InTime, ScheduleRuns
  <2> HIDE DEF left, rest, all
  <2>3. model.clock + rest <= Base + all
    BY <2>1, <2>2
  <2>4. pc' = "step" => (Steps - done') * TickMs = rest
    BY <1>3 DEF rest
  <2> QED
    BY <1>3, <1>7, <2>2, <2>3, <2>4 DEF InTime, ScheduleRuns, all
<1>13. CallSound' /\ ShotSound' /\ AgreedMeansEqual'
  BY <1>1, <1>3 DEF DiffIInv, CallSound, ShotSound, AgreedMeansEqual
<1>14. ~deviated' => /\ ~deviated /\ server' = r.world /\ agrees
                     /\ pc' = "step" /\ verdict' = verdict
  <2>1. CASE server' = r.world /\ deviated' = deviated
    <3>1. CASE deviated
      BY <2>1, <3>1
    <3>2. CASE ~deviated
      BY <1>3, <1>6, <2>1, <3>2
    <3> QED
      BY <3>1, <3>2
  <2>2. CASE deviated'
    BY <2>2
  <2> QED
    BY <1>3, <2>1, <2>2
<1>15. SameKeys'
  <2>1. ~deviated' => model'.slots = server'.slots
    BY <1>3, <1>6, <1>14
  <2> QED
    BY <2>1 DEF SameKeys
<1>16. NoFalseAlarm'
  <2>1. ~deviated' => verdict' \in {"none", "agreed"}
    BY <1>14 DEF DiffIInv, NoFalseAlarm
  <2> QED
    BY <2>1 DEF NoFalseAlarm
<1> QED
  BY <1>10, <1>11, <1>12, <1>13, <1>15, <1>16 DEF DiffIInv
-----------------------------------------------------------------------------
(***************************************************************************)
(* Reading a snapshot                                                      *)
(***************************************************************************)
\* What the three reads of a snapshot ask for on a world that nobody watches
LEMMA ScanReplies ==
    ASSUME NEW w
    PROVE  /\ Run(w, [op |-> "DbSize"]).reply.n
                = Cardinality({k \in Key : w.slots[k].present})
           /\ Run(w, [op |-> "Keys"]).reply.keys = VisibleKeys(w)
<1>1. Exec(w, [op |-> "DbSize"]) = CmdDbSize(w) /\ Exec(w, [op |-> "Keys"]) = CmdKeys(w)
  BY DEF Exec, LookupOp
<1> QED
  BY <1>1 DEF Run, Uncounted, Result, CmdDbSize, CmdKeys, IntReply, KeySetReply

\* A GET or a PTTL finds a key in sight and leaves it alone; any other key has
\* a blank slot from then on.
LEMMA LookupRun ==
    ASSUME NEW here, Clean(here), NEW cmd, cmd.op \in {"Get", "Pttl"}, cmd.key \in Key
    PROVE  /\ Clean(Run(here, cmd).world) /\ Run(here, cmd).world.clock = here.clock
           /\ cmd.key \in VisibleKeys(here) => Run(here, cmd).world.slots = here.slots
           /\ cmd.key \notin VisibleKeys(here) =>
                Run(here, cmd).world.slots = [here.slots EXCEPT ![cmd.key] = AbsentSlot]
<1> DEFINE key == cmd.key
           op == cmd.op
           read == LookupKeyRead(here, key)
           x == [read.world EXCEPT !.dirty = 0]
           found == key \in VisibleKeys(here)
<1>1. /\ Clean(read.world) /\ read.world.clock = here.clock
      /\ found => read.world = here
      /\ ~found => read.world.slots = [here.slots EXCEPT ![key] = AbsentSlot]
  BY LookupClean DEF LookupKeyRead
<1>2. Exec(here, cmd) = Answered(read, op, key)
  BY DEF Exec, LookupOp, CmdLookup
<1>3. Run(here, cmd) = Result(x, LookupReply(op, read.world, key, read.value))
  BY <1>2 DEF Answered, Run, Uncounted, Result
<1>4. Clean(x) /\ x.slots = read.world.slots /\ x.clock = read.world.clock
  BY <1>1, UncountedClean
<1> HIDE DEF x, read, found, key, op
<1>5. LET ans == Run(here, cmd)
      IN /\ Clean(ans.world) /\ ans.world.slots = read.world.slots
         /\ ans.world.clock = read.world.clock
  BY <1>3, <1>4 DEF Result
<1> QED
  BY <1>1, <1>5 DEF found, key, op, read

\* What it answers
LEMMA LookupAnswer ==
    ASSUME NEW here, Clean(here), NEW cmd, cmd.op \in {"Get", "Pttl"}, cmd.key \in Key
    PROVE  /\ cmd.key \in VisibleKeys(here) =>
                /\ here.slots[cmd.key].value # NoValue
                /\ Run(here, cmd).reply
                     = LookupReply(cmd.op, here, cmd.key, here.slots[cmd.key].value)
           /\ cmd.key \notin VisibleKeys(here) =>
                Run(here, cmd).reply
                  = LookupReply(cmd.op, LookupKeyRead(here, cmd.key).world, cmd.key, NoValue)
<1> DEFINE key == cmd.key
           op == cmd.op
           read == LookupKeyRead(here, key)
           found == key \in VisibleKeys(here)
<1>1. /\ found => read.world = here /\ read.value = here.slots[key].value
                  /\ read.value # NoValue
      /\ ~found => read.value = NoValue
  BY LookupClean DEF LookupKeyRead
<1>2. Exec(here, cmd) = Answered(read, op, key)
  BY DEF Exec, LookupOp, CmdLookup
<1>3. Run(here, cmd).reply = LookupReply(op, read.world, key, read.value)
  BY <1>2 DEF Answered, Run, Uncounted, Result
<1> HIDE DEF read, found, key, op
<1> QED
  BY <1>1, <1>3 DEF found, key, op, read

\* GET answers with the value of a key in sight, and only of such a key.
LEMMA GetReply ==
    ASSUME NEW w, Clean(w), NEW k \in Key
    PROVE  LET r == Run(w, [op |-> "Get", key |-> k])
               seen == k \in VisibleKeys(w)
           IN /\ seen => r.reply # NilReply /\ r.reply.val = w.slots[k].value
              /\ ~seen => r.reply = NilReply
<1> DEFINE ans == Run(w, [op |-> "Get", key |-> k])
           found == k \in VisibleKeys(w)
           val == w.slots[k].value
<1>1. /\ found => val # NoValue /\ ans.reply = LookupReply("Get", w, k, val)
      /\ ~found => ans.reply = LookupReply("Get", LookupKeyRead(w, k).world, k, NoValue)
  <2> DEFINE asked == [op |-> "Get", key |-> k]
  <2>1. asked.op = "Get" /\ asked.key = k
    OBVIOUS
  <2> HIDE DEF asked
  <2>4. Clean(w) /\ asked.op \in {"Get", "Pttl"} /\ asked.key \in Key
    BY <2>1
  <2>2. /\ asked.key \in VisibleKeys(w) =>
             /\ w.slots[asked.key].value # NoValue
             /\ Run(w, asked).reply
                  = LookupReply(asked.op, w, asked.key, w.slots[asked.key].value)
        /\ asked.key \notin VisibleKeys(w) =>
             Run(w, asked).reply
               = LookupReply(asked.op, LookupKeyRead(w, asked.key).world, asked.key, NoValue)
    BY <2>4, LookupAnswer
  <2> DEFINE q == Run(w, asked)
  <2> HIDE DEF q
  <2>3. /\ found => val # NoValue /\ q.reply = LookupReply("Get", w, k, val)
        /\ ~found => q.reply = LookupReply("Get", LookupKeyRead(w, k).world, k, NoValue)
    BY <2>1, <2>2 DEF q
  <2> QED
    BY <2>3 DEF q, asked
<1>2. \A x, v : LookupReply("Get", x, k, v) = StrReply(v)
  BY DEF LookupReply
<1> HIDE DEF ans, found, val
<1>3. /\ found => ans.reply # NilReply /\ ans.reply.val = val
      /\ ~found => ans.reply = NilReply
  BY <1>1, <1>2 DEF StrReply, NilReply
<1> QED
  BY <1>3 DEF ans, found, val

\* PTTL answers with a time left for a key in sight that has a TTL, and only for
\* such a key.
LEMMA PttlReplySign ==
    ASSUME NEW w, Clean(w), NEW k \in Key
    PROVE  LET r == Run(w, [op |-> "Pttl", key |-> k])
               seen == k \in VisibleKeys(w)
               timed == w.slots[k].expire_at # NoExpire
           IN (r.reply.n >= 0) <=> (seen /\ timed)
<1> DEFINE ans == Run(w, [op |-> "Pttl", key |-> k])
           found == k \in VisibleKeys(w)
           at == w.slots[k].expire_at
           val == w.slots[k].value
<1>1. /\ found => val # NoValue /\ ans.reply = LookupReply("Pttl", w, k, val)
      /\ ~found => ans.reply = LookupReply("Pttl", LookupKeyRead(w, k).world, k, NoValue)
  <2> DEFINE asked == [op |-> "Pttl", key |-> k]
  <2>1. asked.op = "Pttl" /\ asked.key = k
    OBVIOUS
  <2> HIDE DEF asked
  <2>4. Clean(w) /\ asked.op \in {"Get", "Pttl"} /\ asked.key \in Key
    BY <2>1
  <2>2. /\ asked.key \in VisibleKeys(w) =>
             /\ w.slots[asked.key].value # NoValue
             /\ Run(w, asked).reply
                  = LookupReply(asked.op, w, asked.key, w.slots[asked.key].value)
        /\ asked.key \notin VisibleKeys(w) =>
             Run(w, asked).reply
               = LookupReply(asked.op, LookupKeyRead(w, asked.key).world, asked.key, NoValue)
    BY <2>4, LookupAnswer
  <2> DEFINE q == Run(w, asked)
  <2> HIDE DEF q
  <2>3. /\ found => val # NoValue /\ q.reply = LookupReply("Pttl", w, k, val)
        /\ ~found => q.reply = LookupReply("Pttl", LookupKeyRead(w, k).world, k, NoValue)
    BY <2>1, <2>2 DEF q
  <2> QED
    BY <2>3 DEF q, asked
<1>2. \A x, v : LookupReply("Pttl", x, k, v) = PttlReply(x, k, v)
  BY DEF LookupReply
<1>3. w.clock \in Nat /\ at \in ExpireTimes \cup {NoExpire} /\ w.mode = StandaloneMaster
  BY CleanFields DEF Clean, Slot
<1>4. found /\ at # NoExpire => at \in Nat /\ ~(w.clock > at)
  <2>1. ~w.mode.allow_access_expired
    BY <1>3 DEF StandaloneMaster
  <2>2. found /\ at # NoExpire => ~(w.clock > at)
    BY <2>1 DEF VisibleKeys, KeyIsExpired
  <2> HIDE DEF at
  <2>3. at # NoExpire => at \in Nat
    BY <1>3, ExpireTimesAssumption
  <2> QED
    BY <2>2, <2>3
<1>5. ~found => ans.reply.n = -2
  BY <1>1, <1>2 DEF PttlReply, IntReply
<1>6. found => ans.reply.n = IF at = NoExpire THEN -1 ELSE at - w.clock
  BY <1>1, <1>2 DEF PttlReply, IntReply
<1> HIDE DEF ans, found, at, val
<1> DEFINE n == ans.reply.n
<1>7. ~found => ~(n >= 0)
  <2>1. ~found => n = -2
    BY <1>5
  <2> HIDE DEF n
  <2> QED
    BY <2>1
<1>8. found /\ at = NoExpire => ~(n >= 0)
  <2>1. found /\ at = NoExpire => n = -1
    BY <1>6
  <2> HIDE DEF n
  <2> QED
    BY <2>1
<1>9. found /\ at # NoExpire => n >= 0
  <2> DEFINE c == w.clock
  <2>1. found /\ at # NoExpire => n = at - c
    BY <1>6
  <2>2. c \in Nat /\ (found /\ at # NoExpire => at \in Nat /\ ~(c > at))
    BY <1>3, <1>4
  <2> HIDE DEF n, c
  <2> QED
    BY <2>1, <2>2
<1>10. (n >= 0) <=> (found /\ at # NoExpire)
  BY <1>7, <1>8, <1>9
<1> QED
  BY <1>10 DEF ans, found, at

\* A listed key that is still in sight has the slot that KEYS found, any other
\* has run out.
LEMMA StillListed ==
    ASSUME ListedSound, Clean(server), NEW k \in shot.visible
    PROVE  /\ k \in Key
           /\ k \in VisibleKeys(server) => server.slots[k] = shot.listed.slots[k]
           /\ k \notin VisibleKeys(server) => PassedBy(shot.listed, k, server.clock)
<1>1. /\ k \in VisibleKeys(shot.listed) /\ k \in Key /\ shot.listed.slots[k].present
      /\ Lost(shot.listed, server.slots, server.clock)
  BY DEF ListedSound, VisibleKeys
<1>2. CASE server.slots[k] = shot.listed.slots[k]
  <2>1. k \notin VisibleKeys(server) => KeyIsExpired(server, k)
    BY <1>1, <1>2 DEF VisibleKeys
  <2>2. server.clock \in Nat /\ shot.listed.slots[k].expire_at \in ExpireTimes \cup {NoExpire}
    BY <1>1, CleanFields DEF ListedSound, Slot
  <2>3. KeyIsExpired(server, k) => PassedBy(shot.listed, k, server.clock)
    <3> DEFINE at == shot.listed.slots[k].expire_at
    <3>1. KeyIsExpired(server, k) => at # NoExpire /\ server.clock > at
      BY <1>2 DEF KeyIsExpired
    <3>2. at # NoExpire => at \in Nat
      BY <2>2, ExpireTimesAssumption
    <3>3. PassedBy(shot.listed, k, server.clock) <=> at # NoExpire /\ at < server.clock
      BY DEF PassedBy
    <3> HIDE DEF at
    <3> QED
      BY <2>2, <3>1, <3>2, <3>3
  <2> QED
    BY <1>1, <1>2, <2>1, <2>3
<1>3. CASE server.slots[k] = AbsentSlot /\ PassedBy(shot.listed, k, server.clock)
  BY <1>1, <1>3 DEF VisibleKeys, AbsentSlot
<1> QED
  BY <1>1, <1>2, <1>3 DEF Lost

\* The slots that a GET or a PTTL of a listed key leaves
LEMMA ReadingLoses ==
    ASSUME ListedSound, Clean(server), NEW k \in shot.visible, NEW op \in {"Get", "Pttl"}
    PROVE  LET u == Run(server, [op |-> op, key |-> k]).world
           IN /\ Clean(u) /\ u.clock = server.clock
              /\ Lost(shot.listed, u.slots, server.clock)
              /\ k \in VisibleKeys(server) => u.slots = server.slots
<1> DEFINE u == Run(server, [op |-> op, key |-> k]).world
<1>1. /\ k \in Key /\ Lost(shot.listed, server.slots, server.clock)
      /\ server.slots \in [Key -> Slot]
      /\ k \notin VisibleKeys(server) => PassedBy(shot.listed, k, server.clock)
  BY StillListed, CleanFields DEF ListedSound
<1>2. /\ Clean(u) /\ u.clock = server.clock
      /\ k \in VisibleKeys(server) => u.slots = server.slots
      /\ k \notin VisibleKeys(server) => u.slots = [server.slots EXCEPT ![k] = AbsentSlot]
  <2> DEFINE asked == [op |-> op, key |-> k]
  <2>1. asked.op = op /\ asked.key = k
    OBVIOUS
  <2> HIDE DEF asked
  <2>2. LET q == Run(server, asked).world
        IN /\ Clean(q) /\ q.clock = server.clock
           /\ k \in VisibleKeys(server) => q.slots = server.slots
           /\ k \notin VisibleKeys(server) =>
                 q.slots = [server.slots EXCEPT ![k] = AbsentSlot]
    BY <1>1, <2>1, LookupRun
  <2> QED
    BY <2>2 DEF asked
<1> HIDE DEF u
<1>3. Lost(shot.listed, u.slots, server.clock)
  BY <1>1, <1>2 DEF Lost
<1> QED
  BY <1>2, <1>3 DEF u

\* Two worlds with one keyspace have the same entries, and the same keys in
\* sight if no deadline separates their clocks.
LEMMA SnapshotOfAligned ==
    ASSUME NEW w, NEW v, Aligned(DrawnTimes, w, v)
    PROVE  ModelSnapshot(w) = ModelSnapshot(v)
<1>1. w.slots = v.slots /\ VisibleKeys(w) = VisibleKeys(v)
  BY AlignedVisible, OffsetsAssumption DEF Aligned
<1> QED
  BY <1>1 DEF ModelSnapshot

\* What no read of a snapshot disturbs
LEMMA ReadingKeeps ==
    ASSUME DiffIInv, pc \in {"step", "keys", "values", "ttl"},
           pc' \in {"keys", "values", "ttl"},
           model' = model, active' = active, done' = done, verdict' = verdict,
           deviated' = deviated, call' = call,
           Clean(server'), server'.clock = server.clock,
           ~deviated => server'.slots = server.slots,
           ShotSound', shot'.visible \subseteq Key, shot'.todo \subseteq Key
    PROVE  DiffIInv'
<1>1. ~active /\ Clean(Blank(server'))
  BY BlankClean DEF DiffIInv, ServerSound
<1>2. ServerSound'
  BY <1>1 DEF ServerSound
<1>3. DiffTypeOK' /\ Clean(model)' /\ Timed(DrawnTimes, model.slots)' /\ NoFalseAlarm'
      /\ AgreedMeansEqual'
  BY DEF DiffIInv, DiffTypeOK, NoFalseAlarm, AgreedMeansEqual
<1>4. InTime' /\ CallSound' /\ SameKeys'
  BY DEF DiffIInv, InTime, ScheduleRuns, CallSound, SameKeys
<1> QED
  BY <1>2, <1>3, <1>4 DEF DiffIInv

\* DBSIZE is asked for.
LEMMA ReadDbSizeKeeps == ASSUME DiffIInv, ReadDbSize PROVE DiffIInv'
<1> DEFINE n == Run(server, [op |-> "DbSize"]).reply.n
<1>1. /\ pc = "step" /\ pc' = "keys" /\ shot' = [shot EXCEPT !.dbsize = n]
      /\ UNCHANGED <<model, server, active, call, done, verdict, deviated>>
  BY DEF ReadDbSize
<1>2. n = Cardinality({k \in Key : server.slots[k].present})
  BY ScanReplies
<1>3. shot = NoShot /\ Clean(server)
  BY <1>1 DEF DiffIInv, ShotSound, ServerSound
<1> HIDE DEF n
<1>4. shot' = [dbsize |-> n, visible |-> {}, todo |-> {}, got |-> {}, values |-> {},
               listed |-> EmptyWorld(Base)]
  BY <1>1, <1>3 DEF NoShot
<1>5. /\ shot'.dbsize = n /\ shot'.visible = {} /\ shot'.todo = {}
      /\ shot'.values = {} /\ shot'.got = {}
      /\ shot' = [dbsize |-> shot'.dbsize, visible |-> shot'.visible,
                  todo |-> shot'.todo, got |-> shot'.got, values |-> shot'.values,
                  listed |-> shot'.listed]
  BY <1>4
<1>6. shot'.dbsize = Cardinality({k \in Key : server'.slots[k].present})
  BY <1>1, <1>2, <1>5
<1>7. ShotSound'
  BY <1>1, <1>5, <1>6 DEF ShotSound
<1> QED
  BY <1>1, <1>3, <1>5, <1>7, ReadingKeeps

\* KEYS is asked for: nothing has been read of the keys it lists.
LEMMA ReadKeysKeeps == ASSUME DiffIInv, ReadKeys PROVE DiffIInv'
<1> DEFINE ks == VisibleKeys(server)
<1>1. /\ pc = "keys" /\ pc' = "values"
      /\ shot' = [shot EXCEPT !.visible = ks, !.todo = ks, !.listed = server]
      /\ UNCHANGED <<model, server, active, call, done, verdict, deviated>>
  BY ScanReplies DEF ReadKeys
<1>2. /\ shot = [dbsize |-> shot.dbsize, visible |-> shot.visible, todo |-> shot.todo,
                 got |-> shot.got, values |-> shot.values, listed |-> shot.listed]
      /\ shot.values = {} /\ shot.got = {} /\ Clean(server)
      /\ shot.dbsize = Cardinality({k \in Key : server.slots[k].present})
  BY <1>1 DEF DiffIInv, ShotSound, ServerSound
<1>3. ks \subseteq Key /\ ks = VisibleKeys(server)
  BY DEF VisibleKeys
<1> HIDE DEF ks
<1>4. shot' = [dbsize |-> shot.dbsize, visible |-> ks, todo |-> ks, got |-> {},
               values |-> {}, listed |-> server]
  BY <1>1, <1>2
<1>5. /\ shot'.dbsize = shot.dbsize /\ shot'.visible = ks /\ shot'.todo = ks
      /\ shot'.got = {} /\ shot'.values = {} /\ shot'.listed = server
      /\ shot' = [dbsize |-> shot'.dbsize, visible |-> shot'.visible,
                  todo |-> shot'.todo, got |-> shot'.got, values |-> shot'.values,
                  listed |-> shot'.listed]
  BY <1>4
<1>6. ListedSound'
  <2>1. server.clock \in Nat
    BY <1>2, CleanFields
  <2>2. server.clock <= server.clock
    BY <2>1
  <2> QED
    BY <1>1, <1>2, <1>3, <1>5, <2>2 DEF ListedSound, Lost
<1>7. GotSound'
  BY <1>1, <1>5 DEF GotSound
<1>8. ShotComplete'
  BY <1>1, <1>3, <1>5 DEF ShotComplete
<1>9. ShotSound'
  BY <1>1, <1>5, <1>6, <1>7, <1>8 DEF ShotSound
<1> QED
  BY <1>1, <1>2, <1>3, <1>5, <1>9, ReadingKeeps

\* The value of one key is asked for: the key is passed over only if it has run
\* out since KEYS.
LEMMA GetRead ==
    ASSUME DiffIInv, NEW k \in Key, ReadGet(k)
    PROVE  /\ pc = "values" /\ k \in shot.todo /\ k \in shot.visible
           /\ Clean(server) /\ ListedSound /\ shot.got = {}
           /\ Clean(server') /\ server'.clock = server.clock
           /\ Lost(shot.listed, server'.slots, server.clock)
           /\ k \in VisibleKeys(server) =>
                 /\ pc' = "ttl" /\ server'.slots = server.slots
                 /\ shot' = [shot EXCEPT !.todo = @ \ {k}, !.got =
                               {[key |-> k, val |-> shot.listed.slots[k].value]}]
           /\ k \notin VisibleKeys(server) =>
                 pc' = "values" /\ shot' = [shot EXCEPT !.todo = @ \ {k}, !.got = {}]
           /\ UNCHANGED <<model, active, call, done, verdict, deviated>>
<1> DEFINE r == Run(server, [op |-> "Get", key |-> k])
<1>1. /\ pc = "values" /\ k \in shot.todo
      /\ server' = r.world /\ GotValue(k, r.reply)
      /\ UNCHANGED <<model, active, call, done, verdict, deviated>>
  BY DEF ReadGet
<1>2. Clean(server) /\ ListedSound /\ shot.got = {} /\ k \in shot.visible
  BY <1>1 DEF DiffIInv, ServerSound, ShotSound, GotSound, ListedSound
<1>3. /\ Clean(r.world) /\ r.world.clock = server.clock
      /\ Lost(shot.listed, r.world.slots, server.clock)
      /\ k \in VisibleKeys(server) => r.world.slots = server.slots
  BY <1>2, ReadingLoses
<1>4. /\ k \in VisibleKeys(server) => /\ r.reply # NilReply
                                      /\ r.reply.val = server.slots[k].value
      /\ k \notin VisibleKeys(server) => r.reply = NilReply
  BY <1>2, GetReply
<1>5. k \in VisibleKeys(server) => server.slots[k] = shot.listed.slots[k]
  BY <1>2, StillListed
<1> HIDE DEF r
<1> QED
  BY <1>1, <1>2, <1>3, <1>4, <1>5 DEF GotValue

LEMMA ReadGetKeeps == ASSUME DiffIInv, NEW k \in Key, ReadGet(k) PROVE DiffIInv'
<1> DEFINE left == shot.todo \ {k}
           got == {[key |-> k, val |-> shot.listed.slots[k].value]}
           seen == k \in VisibleKeys(server)
<1>1. /\ pc = "values" /\ k \in shot.todo /\ k \in shot.visible
      /\ Clean(server) /\ ListedSound /\ shot.got = {}
      /\ Clean(server') /\ server'.clock = server.clock
      /\ Lost(shot.listed, server'.slots, server.clock)
      /\ seen => /\ pc' = "ttl" /\ server'.slots = server.slots
                 /\ shot' = [shot EXCEPT !.todo = left, !.got = got]
      /\ ~seen => pc' = "values" /\ shot' = [shot EXCEPT !.todo = left, !.got = {}]
      /\ UNCHANGED <<model, active, call, done, verdict, deviated>>
  BY GetRead
<1>2. /\ shot = [dbsize |-> shot.dbsize, visible |-> shot.visible, todo |-> shot.todo,
                 got |-> shot.got, values |-> shot.values, listed |-> shot.listed]
      /\ ~deviated => ShotComplete
  BY <1>1 DEF DiffIInv, ShotSound
<1>3. shot.visible \subseteq Key /\ left \subseteq shot.visible /\ k \notin left
  BY <1>1 DEF ListedSound, VisibleKeys
<1>4. \A g : g = got => {x.key : x \in g} = {k}
  OBVIOUS
<1> HIDE DEF left, got
<1>5. /\ shot'.dbsize = shot.dbsize /\ shot'.visible = shot.visible /\ shot'.todo = left
      /\ shot'.values = shot.values /\ shot'.listed = shot.listed
      /\ shot'.got = IF seen THEN got ELSE {}
      /\ shot' = [dbsize |-> shot'.dbsize, visible |-> shot'.visible,
                  todo |-> shot'.todo, got |-> shot'.got, values |-> shot'.values,
                  listed |-> shot'.listed]
  <2>1. CASE seen
    <3>1. shot' = [dbsize |-> shot.dbsize, visible |-> shot.visible, todo |-> left,
                   got |-> got, values |-> shot.values, listed |-> shot.listed]
      BY <1>1, <1>2, <2>1
    <3> QED
      BY <2>1, <3>1
  <2>2. CASE ~seen
    <3>1. shot' = [dbsize |-> shot.dbsize, visible |-> shot.visible, todo |-> left,
                   got |-> {}, values |-> shot.values, listed |-> shot.listed]
      BY <1>1, <1>2, <2>2
    <3> QED
      BY <2>2, <3>1
  <2> QED
    BY <2>1, <2>2
<1>6. ~deviated => seen
  BY <1>1, <1>2 DEF ShotComplete
<1> HIDE DEF seen
<1>7. ListedSound'
  BY <1>1, <1>3, <1>5 DEF ListedSound
<1>8. GotSound'
  BY <1>1, <1>3, <1>5 DEF GotSound, got
<1>9. ~deviated => ShotComplete'
  <2> SUFFICES ASSUME ~deviated PROVE ShotComplete'
    OBVIOUS
  <2>1. ShotComplete /\ server'.slots = server.slots /\ shot'.got = got
    BY <1>1, <1>2, <1>5, <1>6
  <2>2. VisibleKeys(server') = VisibleKeys(server)
    BY <1>1, <2>1 DEF VisibleKeys, KeyIsExpired, Clean
  <2>3. \A j : Entry(server', j) = Entry(server, j)
    BY <2>1 DEF Entry
  <2>4. {g.key : g \in shot'.got} = {k} /\ {g.key : g \in shot.got} = {}
    BY <1>1, <1>4, <2>1
  <2>5. shot.visible \ (left \cup {k}) = shot.visible \ (shot.todo \cup {})
    BY <1>1 DEF left
  <2> QED
    BY <1>5, <2>1, <2>2, <2>3, <2>4, <2>5 DEF ShotComplete
<1>10. ShotSound'
  BY <1>1, <1>5, <1>7, <1>8, <1>9 DEF ShotSound
<1> QED
  BY <1>1, <1>3, <1>5, <1>6, <1>10, ReadingKeeps DEF seen

\* The TTL of the key whose value has arrived is asked for: the answer is no for
\* a key that has run out meanwhile.
LEMMA TtlRead ==
    ASSUME DiffIInv, ReadTtl
    PROVE  \E k \in shot.visible \ shot.todo, ttl \in BOOLEAN :
             /\ pc = "ttl" /\ pc' = "values" /\ Clean(server) /\ ListedSound
             /\ shot.got = {[key |-> k, val |-> shot.listed.slots[k].value]}
             /\ Clean(server') /\ server'.clock = server.clock
             /\ Lost(shot.listed, server'.slots, server.clock)
             /\ k \in VisibleKeys(server) =>
                   /\ server'.slots = server.slots
                   /\ ttl = (shot.listed.slots[k].expire_at # NoExpire)
             /\ k \notin VisibleKeys(server) =>
                   ttl = FALSE /\ PassedBy(shot.listed, k, server.clock)
             /\ shot' = [shot EXCEPT !.got = {}, !.values = @ \cup
                  {[key |-> k, val |-> shot.listed.slots[k].value, ttl |-> ttl]}]
             /\ UNCHANGED <<model, active, call, done, verdict, deviated>>
<1>1. pc = "ttl" /\ ListedSound /\ GotSound /\ Clean(server)
  BY DEF ReadTtl, DiffIInv, ServerSound, ShotSound
<1>2. PICK k \in shot.visible \ shot.todo :
             shot.got = {[key |-> k, val |-> shot.listed.slots[k].value]}
  BY <1>1 DEF GotSound
<1> DEFINE r == Run(server, [op |-> "Pttl", key |-> k])
           ttl == r.reply.n >= 0
           val == shot.listed.slots[k].value
<1>3. /\ pc' = "values" /\ server' = r.world
      /\ shot' = [shot EXCEPT !.got = {},
                    !.values = @ \cup {[key |-> k, val |-> val, ttl |-> ttl]}]
      /\ UNCHANGED <<model, active, call, done, verdict, deviated>>
  <2>1. PICK got \in shot.got :
          /\ server' = Run(server, [op |-> "Pttl", key |-> got.key]).world
          /\ shot' = [shot EXCEPT !.got = {},
               !.values = @ \cup {[key |-> got.key, val |-> got.val,
                    ttl |-> Run(server, [op |-> "Pttl", key |-> got.key]).reply.n >= 0]}]
    BY DEF ReadTtl
  <2>2. got.key = k /\ got.val = val
    BY <1>2
  <2> QED
    BY <2>1, <2>2 DEF ReadTtl
<1>4. /\ Clean(r.world) /\ r.world.clock = server.clock
      /\ Lost(shot.listed, r.world.slots, server.clock)
      /\ k \in VisibleKeys(server) => r.world.slots = server.slots
  BY <1>1, ReadingLoses
<1>5. /\ k \in Key
      /\ k \in VisibleKeys(server) => server.slots[k] = shot.listed.slots[k]
      /\ k \notin VisibleKeys(server) => PassedBy(shot.listed, k, server.clock)
  BY <1>1, StillListed
<1>6. ttl = (k \in VisibleKeys(server) /\ server.slots[k].expire_at # NoExpire)
  BY <1>1, <1>5, PttlReplySign
<1>7. ttl \in BOOLEAN
  BY <1>6
<1> HIDE DEF r, ttl, val
<1>8. /\ k \in VisibleKeys(server) => ttl = (shot.listed.slots[k].expire_at # NoExpire)
      /\ k \notin VisibleKeys(server) => ttl = FALSE
  BY <1>5, <1>6
<1> QED
  BY <1>1, <1>2, <1>3, <1>4, <1>5, <1>7, <1>8 DEF val

LEMMA ReadTtlKeeps == ASSUME DiffIInv, ReadTtl PROVE DiffIInv'
<1>1. PICK k \in shot.visible \ shot.todo, ttl \in BOOLEAN :
        /\ pc = "ttl" /\ pc' = "values" /\ Clean(server) /\ ListedSound
        /\ shot.got = {[key |-> k, val |-> shot.listed.slots[k].value]}
        /\ Clean(server') /\ server'.clock = server.clock
        /\ Lost(shot.listed, server'.slots, server.clock)
        /\ k \in VisibleKeys(server) =>
              /\ server'.slots = server.slots
              /\ ttl = (shot.listed.slots[k].expire_at # NoExpire)
        /\ k \notin VisibleKeys(server) =>
              ttl = FALSE /\ PassedBy(shot.listed, k, server.clock)
        /\ shot' = [shot EXCEPT !.got = {}, !.values = @ \cup
             {[key |-> k, val |-> shot.listed.slots[k].value, ttl |-> ttl]}]
        /\ UNCHANGED <<model, active, call, done, verdict, deviated>>
  BY TtlRead
<1> DEFINE e == [key |-> k, val |-> shot.listed.slots[k].value, ttl |-> ttl]
           values == shot.values \cup {e}
<1>2. /\ shot = [dbsize |-> shot.dbsize, visible |-> shot.visible, todo |-> shot.todo,
                 got |-> shot.got, values |-> shot.values, listed |-> shot.listed]
      /\ ~deviated => ShotComplete
  BY <1>1 DEF DiffIInv, ShotSound
<1>3. shot' = [shot EXCEPT !.got = {}, !.values = values]
  BY <1>1
<1>4. Told(shot.listed, server.clock, e)
  <2>1. k \in VisibleKeys(shot.listed)
    BY <1>1 DEF ListedSound
  <2>2. e.key = k /\ e.val = shot.listed.slots[k].value /\ e.ttl = ttl
    OBVIOUS
  <2>3. /\ ttl => shot.listed.slots[k].expire_at # NoExpire
        /\ ~ttl => \/ shot.listed.slots[k].expire_at = NoExpire
                   \/ PassedBy(shot.listed, k, server.clock)
    BY <1>1
  <2> HIDE DEF e
  <2> QED
    BY <2>1, <2>2, <2>3 DEF Told
<1> HIDE DEF e
<1>5. /\ shot'.dbsize = shot.dbsize /\ shot'.visible = shot.visible
      /\ shot'.todo = shot.todo /\ shot'.got = {}
      /\ shot'.values = values /\ shot'.listed = shot.listed
      /\ shot' = [dbsize |-> shot'.dbsize, visible |-> shot'.visible,
                  todo |-> shot'.todo, got |-> shot'.got, values |-> shot'.values,
                  listed |-> shot'.listed]
  <2> HIDE DEF values
  <2>1. shot' = [dbsize |-> shot.dbsize, visible |-> shot.visible, todo |-> shot.todo,
                 got |-> {}, values |-> values, listed |-> shot.listed]
    BY <1>2, <1>3
  <2> QED
    BY <2>1
<1>6. ListedSound'
  <2>1. \A x \in values : Told(shot.listed, server.clock, x)
    BY <1>1, <1>4 DEF ListedSound
  <2> HIDE DEF values
  <2> QED
    BY <1>1, <1>5, <2>1 DEF ListedSound
<1>7. GotSound'
  BY <1>1, <1>5 DEF GotSound
<1>8. ~deviated => ShotComplete' /\ server'.slots = server.slots
  <2> SUFFICES ASSUME ~deviated
               PROVE  ShotComplete' /\ server'.slots = server.slots
    OBVIOUS
  <2>1. ShotComplete /\ k \in VisibleKeys(server)
    BY <1>1, <1>2 DEF ShotComplete
  <2>2. /\ server'.slots = server.slots
        /\ ttl = (shot.listed.slots[k].expire_at # NoExpire)
    BY <1>1, <2>1
  <2>3. VisibleKeys(server') = VisibleKeys(server)
    BY <1>1, <2>2 DEF VisibleKeys, KeyIsExpired, Clean
  <2>4. \A j : Entry(server', j) = Entry(server, j)
    BY <2>2 DEF Entry
  <2>5. e = Entry(server, k)
    BY <2>1, <2>2 DEF Entry, e, ShotComplete
  <2>6. {g.key : g \in shot.got} = {k} /\ {g.key : g \in shot'.got} = {}
    BY <1>1, <1>5
  <2>7. shot.visible \ (shot.todo \cup {})
          = (shot.visible \ (shot.todo \cup {k})) \cup {k}
    BY <1>1
  <2>8. values = {Entry(server, j) : j \in shot.visible \ (shot.todo \cup {})}
    <3>1. {Entry(server, j) : j \in (shot.visible \ (shot.todo \cup {k})) \cup {k}}
            = {Entry(server, j) : j \in shot.visible \ (shot.todo \cup {k})}
                \cup {Entry(server, k)}
      OBVIOUS
    <3>2. shot.values = {Entry(server, j) : j \in shot.visible \ (shot.todo \cup {k})}
      BY <2>1, <2>6 DEF ShotComplete
    <3> QED
      BY <2>5, <2>7, <3>1, <3>2
  <2> HIDE DEF values
  <2> QED
    BY <1>5, <2>1, <2>2, <2>3, <2>4, <2>6, <2>8 DEF ShotComplete
<1> HIDE DEF values
<1>9. ShotSound'
  BY <1>1, <1>5, <1>6, <1>7, <1>8 DEF ShotSound
<1>10. shot.visible \subseteq Key /\ shot.todo \subseteq Key
  BY DEF DiffIInv, DiffTypeOK
<1> QED
  BY <1>1, <1>5, <1>8, <1>9, <1>10, ReadingKeeps

\* Once every key of a correct server has been read, what was read is its
\* snapshot, and the model's.
LEMMA CorrectShot ==
    ASSUME DiffIInv, pc = "values", shot.todo = {}, ~deviated
    PROVE  SnapshotsAgree(ModelSnapshot(model), shot)
<1>1. /\ shot.visible = VisibleKeys(server)
      /\ shot.values = {Entry(server, k) : k \in VisibleKeys(server)}
      /\ shot.dbsize = Cardinality({k \in Key : server.slots[k].present})
  <2>1. ListedSound /\ GotSound /\ ShotComplete
    BY DEF DiffIInv, ShotSound
  <2>2. shot.visible \ (shot.todo \cup {g.key : g \in shot.got}) = shot.visible
    BY <2>1 DEF GotSound
  <2> QED
    BY <2>1, <2>2 DEF ListedSound, ShotComplete
<1>2. Clean(server) /\ Clean(model) /\ model.slots = server.slots
      /\ Timed(DrawnTimes, model.slots)
  BY DEF DiffIInv, ServerSound, SameKeys
<1>3. /\ model.clock \in Nat
      /\ server.clock \in model.clock..(model.clock + MaxDrift)
      /\ \A a, b \in model.clock..(model.clock + MaxDrift) : SameSide(DrawnTimes, a, b)
  BY ScheduleOnOneSide DEF ScheduleRuns
<1>4. model.clock \in model.clock..(model.clock + MaxDrift)
  BY <1>3, Times
<1>5. Aligned(DrawnTimes, model, server)
  BY <1>2, <1>3, <1>4 DEF Aligned
<1>6. ModelSnapshot(model) = ModelSnapshot(server)
  BY <1>5, SnapshotOfAligned
<1> QED
  BY <1>1, <1>6 DEF SnapshotsAgree, ModelSnapshot, Entry

\* What was read compares as equal only if the listed world, without the TTLs
\* that ran out unseen, has the model's snapshot.
LEMMA AgreedShot ==
    ASSUME ListedSound, SnapshotsAgree(ModelSnapshot(model), shot)
    PROVE  ModelSnapshot(WithoutTtl(shot.listed, RanOut(shot.listed)))
             = ModelSnapshot(model)
<1> DEFINE w == shot.listed
           ks == RanOut(w)
           u == WithoutTtl(w, ks)
           slots == [k \in Key |-> IF k \in ks
                                   THEN [w.slots[k] EXCEPT !.expire_at = NoExpire]
                                   ELSE w.slots[k]]
<1>1. Clean(w) /\ w \in World /\ w.slots \in [Key -> Slot]
  BY CleanFields DEF ListedSound
<1>2. ks \subseteq VisibleKeys(w) /\ VisibleKeys(w) \subseteq Key
  BY DEF RanOut, VisibleKeys
<1>3. u.slots = slots /\ u.clock = w.clock /\ u.mode = w.mode
  BY <1>1 DEF WithoutTtl, World
<1>4. \A k \in Key : /\ slots[k].present = w.slots[k].present
                     /\ slots[k].value = w.slots[k].value
                     /\ slots[k].expire_at = IF k \in ks THEN NoExpire
                                             ELSE w.slots[k].expire_at
  BY <1>1 DEF Slot
<1> HIDE DEF u, slots, ks
<1>5. VisibleKeys(u) = VisibleKeys(w)
  BY <1>2, <1>3, <1>4 DEF VisibleKeys, KeyIsExpired
<1>6. {k \in Key : u.slots[k].present} = {k \in Key : w.slots[k].present}
  BY <1>3, <1>4
<1> DEFINE ms == ModelSnapshot(model)
           entries == {Entry(model, k) : k \in VisibleKeys(model)}
<1>7. /\ ms = [dbsize |-> ms.dbsize, visible |-> ms.visible, values |-> ms.values]
      /\ ms.visible = VisibleKeys(model) /\ ms.values = entries
  BY DEF ModelSnapshot, Entry
<1>8. /\ ms.dbsize = Cardinality({k \in Key : w.slots[k].present})
      /\ ms.visible = VisibleKeys(w) /\ ms.values = shot.values
      /\ \A e \in shot.values : Told(w, server.clock, e)
  BY DEF SnapshotsAgree, ListedSound
<1> HIDE DEF ms
<1>9. ASSUME NEW k \in VisibleKeys(w)
      PROVE  Entry(u, k) = Entry(model, k)
  <2> DEFINE e == Entry(model, k)
  <2>1. e \in shot.values
    BY <1>7, <1>8
  <2>2. Told(w, server.clock, e)
    BY <1>8, <2>1
  <2>3. e.key = k /\ e.val = model.slots[k].value
        /\ e.ttl = (model.slots[k].expire_at # NoExpire)
    BY DEF Entry
  <2> HIDE DEF e
  <2>4. /\ model.slots[k].value = w.slots[k].value
        /\ model.slots[k].expire_at # NoExpire => w.slots[k].expire_at # NoExpire
        /\ model.slots[k].expire_at = NoExpire =>
              w.slots[k].expire_at = NoExpire \/ PassedBy(w, k, server.clock)
    BY <2>2, <2>3 DEF Told
  <2>5. (u.slots[k].expire_at # NoExpire) = (model.slots[k].expire_at # NoExpire)
    <3>1. u.slots[k].expire_at = IF k \in ks THEN NoExpire ELSE w.slots[k].expire_at
      BY <1>2, <1>3, <1>4
    <3>2. k \in ks <=> /\ model.slots[k].expire_at = NoExpire
                       /\ w.slots[k].expire_at # NoExpire
                       /\ w.slots[k].expire_at < server.clock
      BY DEF ks, RanOut
    <3> QED
      BY <2>4, <3>1, <3>2 DEF PassedBy
  <2>6. u.slots[k].value = model.slots[k].value
    BY <1>2, <1>3, <1>4, <2>4
  <2> QED
    BY <2>5, <2>6 DEF Entry
<1>10. {Entry(u, k) : k \in VisibleKeys(u)} = entries
  BY <1>5, <1>7, <1>8, <1>9
<1>11. ModelSnapshot(u) = [dbsize |-> ms.dbsize, visible |-> ms.visible,
                           values |-> ms.values]
  <2>1. ModelSnapshot(u) = [dbsize |-> Cardinality({k \in Key : u.slots[k].present}),
                            visible |-> VisibleKeys(u),
                            values |-> {Entry(u, k) : k \in VisibleKeys(u)}]
    BY DEF ModelSnapshot, Entry
  <2> QED
    BY <1>5, <1>6, <1>7, <1>8, <1>10, <2>1
<1> QED
  BY <1>7, <1>11 DEF ms, u, ks

\* The comparison: it accuses no correct server, and lets off only a server
\* that held the model's snapshot, but for the TTLs that ran out unseen.
LEMMA CompareKeeps == ASSUME DiffIInv, Compare PROVE DiffIInv'
<1> DEFINE same == SnapshotsAgree(ModelSnapshot(model), shot)
<1>1. /\ pc = "values" /\ shot.todo = {} /\ pc' = "decided"
      /\ same => verdict' = "agreed"
      /\ ~same => verdict' = "snapshot mismatch"
      /\ UNCHANGED <<model, server, active, call, done, shot, deviated>>
  BY DEF Compare
<1>2. same => ModelSnapshot(WithoutTtl(shot.listed, RanOut(shot.listed)))
                = ModelSnapshot(model)
  BY <1>1, AgreedShot DEF DiffIInv, ShotSound
<1>3. ~deviated => same
  BY <1>1, CorrectShot
<1> HIDE DEF same
<1>4. NoFalseAlarm'
  BY <1>1, <1>3 DEF NoFalseAlarm
<1>5. AgreedMeansEqual'
  BY <1>1, <1>2 DEF AgreedMeansEqual, RanOut
<1>6. DiffTypeOK' /\ Clean(model)' /\ Timed(DrawnTimes, model.slots)'
  BY <1>1 DEF DiffIInv, DiffTypeOK
<1>7. ServerSound' /\ InTime' /\ CallSound' /\ SameKeys' /\ ShotSound'
  BY <1>1 DEF DiffIInv, ServerSound, InTime, CallSound, SameKeys, ScheduleRuns, ShotSound
<1> QED
  BY <1>4, <1>5, <1>6, <1>7 DEF DiffIInv
-----------------------------------------------------------------------------
(***************************************************************************)
(* The theorems                                                            *)
(***************************************************************************)
LEMMA DiffNextInv == DiffIInv /\ [DiffNext]_diffVars => DiffIInv'
<1> SUFFICES ASSUME DiffIInv, [DiffNext]_diffVars PROVE DiffIInv'
  OBVIOUS
<1>1. CASE DisableActiveExpire
  BY <1>1, DisableKeeps
<1>2. CASE ReadTime
  BY <1>2, ReadTimeKeeps
<1>3. CASE FlushAll
  BY <1>3, FlushKeeps
<1>4. CASE Tick
  BY <1>4, TickKeeps
<1>5. CASE DoIssue
  BY <1>5, IssueKeeps DEF DoIssue
<1>6. CASE Answer
  BY <1>6, AnswerKeeps
<1>7. CASE ReadDbSize
  BY <1>7, ReadDbSizeKeeps
<1>8. CASE ReadKeys
  BY <1>8, ReadKeysKeeps
<1>9. CASE DoReadGet \/ ReadTtl
  BY <1>9, ReadGetKeeps, ReadTtlKeeps DEF DoReadGet
<1>10. CASE Compare
  BY <1>10, CompareKeeps
<1>11. CASE NextSchedule \/ SocketFails
  BY <1>11, LeavingKeeps
<1>12. CASE Elapse
  BY <1>12, ElapseKeeps
<1>13. CASE ServerCycle
  BY <1>13, CycleKeeps
<1>14. CASE UNCHANGED diffVars
  <2>1. DiffTypeOK' /\ Clean(model)' /\ Timed(DrawnTimes, model.slots)' /\ ServerSound'
        /\ InTime' /\ CallSound'
    BY <1>14 DEF diffVars, DiffIInv, DiffTypeOK, ServerSound, InTime, ScheduleRuns,
                 CallSound, AnswerWillAgree
  <2>2. SameKeys' /\ ShotSound' /\ NoFalseAlarm' /\ AgreedMeansEqual'
    BY <1>14 DEF diffVars, DiffIInv, SameKeys, ShotSound, ListedSound, GotSound,
                 ShotComplete, NoFalseAlarm, AgreedMeansEqual, RanOut
  <2> QED
    BY <2>1, <2>2 DEF DiffIInv
<1> QED
  BY <1>1, <1>2, <1>3, <1>4, <1>5, <1>6, <1>7, <1>8, <1>9, <1>10, <1>11, <1>12,
     <1>13, <1>14 DEF DiffNext, Proceed

LEMMA DiffSpecInv == DiffSpec => []DiffIInv
  BY DiffInitInv, DiffNextInv, PTL DEF DiffSpec

\* The driver's state is always well formed: it never counts a step past the
\* end of the schedule (run_schedule's loop), and the model stays a world.
THEOREM DriverTyped == DiffSpec => []DiffTypeOK
<1>1. DiffIInv => DiffTypeOK
  BY DEF DiffIInv
<1> QED
  BY <1>1, DiffSpecInv, PTL

\* Between two commands the model and a correct server hold the same keyspace,
\* however far within MaxDrift the server's clock has run ahead, whatever the
\* schedule was and in whatever order time passed and replies came: what the
\* step-by-step comparison of run_schedule rests on.
THEOREM SidesInLockStep == DiffSpec => []LockStep
<1>1. DiffIInv => LockStep
  BY DEF DiffIInv, SameKeys, LockStep
<1> QED
  BY <1>1, DiffSpecInv, PTL

\* run_schedule accuses no correct server: under the margins of PAST, SOON, FAR
\* and TICK_MS, with PTTL compared by bucket and the active cycle disabled, no
\* reply and no snapshot ever differs.
THEOREM NoCorrectServerAccused == DiffSpec => []NoFalseAlarm
<1>1. DiffIInv => NoFalseAlarm
  BY DEF DiffIInv
<1> QED
  BY <1>1, DiffSpecInv, PTL

\* A server, correct or not and with whatever deadlines, is let off with
\* "agreed" only if it held the model's snapshot when KEYS was asked for; the
\* one thing that is not seen, since every GET and PTTL is a round trip of its
\* own, is a TTL on a key that the model keeps for ever which runs out before
\* PTTL is answered.
THEOREM AgreementIsEquality == DiffSpec => []AgreedMeansEqual
<1>1. DiffIInv => AgreedMeansEqual
  BY DEF DiffIInv
<1> QED
  BY <1>1, DiffSpecInv, PTL

\* Reading the snapshot of a correct server (server_snapshot) does not change
\* what it measures: the GETs and PTTLs after KEYS delete no key, since none of
\* the keys listed can expire before it has been read.
THEOREM ReadingChangesNothing == DiffSpec => SnapshotObserves
<1>1. ASSUME DiffIInv, [DiffNext]_diffVars, pc \in {"keys", "values", "ttl"}, ~deviated
      PROVE  server'.slots = server.slots
  <2>1. CASE Elapse
    <3>1. Clean(server) /\ server' = At(server, server.clock + 1)
      BY <1>1, <2>1 DEF Elapse, DiffIInv, ServerSound, At
    <3>2. server.clock + 1 \in Nat
      BY <3>1, CleanFields
    <3> QED
      BY <3>1, <3>2, AtClean
  <2>2. CASE ServerCycle
    BY <1>1, <2>2 DEF ServerCycle, DiffIInv, ServerSound
  <2>3. pc \in {"values", "ttl"} => ShotComplete
    BY <1>1 DEF DiffIInv, ShotSound
  <2>4. CASE DoReadGet
    <3>1. PICK k \in Key : ReadGet(k)
      BY <2>4 DEF DoReadGet
    <3> QED
      BY <1>1, <2>3, <3>1, GetRead DEF ShotComplete
  <2>5. CASE ReadTtl
    BY <1>1, <2>3, <2>5, TtlRead DEF ShotComplete
  <2>6. CASE UNCHANGED server
    BY <2>6
  <2>7. ~(DisableActiveExpire \/ ReadTime \/ FlushAll \/ Tick \/ Answer)
    BY <1>1 DEF DisableActiveExpire, ReadTime, FlushAll, Tick, Answer
  <2>8. ReadDbSize \/ ReadKeys \/ Compare \/ NextSchedule \/ SocketFails \/ DoIssue
          => UNCHANGED server
    BY DEF ReadDbSize, ReadKeys, Compare, NextSchedule, SocketFails, DoIssue, Issue
  <2>9. UNCHANGED diffVars => UNCHANGED server
    BY DEF diffVars
  <2> QED
    BY <1>1, <2>1, <2>2, <2>4, <2>5, <2>6, <2>7, <2>8, <2>9 DEF DiffNext, Proceed
<1>2. DiffIInv /\ [DiffNext]_diffVars
        => [(pc \in {"keys", "values", "ttl"} /\ ~deviated
               => UNCHANGED (server.slots))]_diffVars
  BY <1>1
<1> QED
  BY <1>2, DiffSpecInv, PTL DEF DiffSpec, SnapshotObserves
=============================================================================
