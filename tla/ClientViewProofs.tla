-------------------------- MODULE ClientViewProofs -------------------------
(***************************************************************************)
(* What a client can rely on, proved for every value of the constants.     *)
(*                                                                         *)
(* Replies: each step of the model, seen through what is visible of the    *)
(* keyspace and through its replies, is a step of the map with deadlines   *)
(* of LogicalStore, or no step of it at all (module StoreRefinement).      *)
(* Watches: as long as a watch stands, no change to its key has slipped by *)
(* (module Cas).  The invariant both need is that of StepProofs: the world *)
(* is sound and no unit is open.                                           *)
(***************************************************************************)
EXTENDS StoreRefinement, Cas, StepProofs

-----------------------------------------------------------------------------
(***************************************************************************)
(* Replies                                                                 *)
(*                                                                         *)
(* Seen(w) is what the map holds while the model is in world w.  The two   *)
(* facts that carry the proof are that a lookup returns what is seen and   *)
(* changes nothing of it, whatever it deletes or hides, and that a write   *)
(* changes what is seen of one key, to what can be seen of the new slot.   *)
(***************************************************************************)
Nothing == [value |-> NoValue, at |-> NoExpire]

\* What can be seen of a slot
Glimpse(slot, now) ==
    IF slot.present /\ ~(slot.expire_at # NoExpire /\ now > slot.expire_at)
    THEN [value |-> slot.value, at |-> slot.expire_at]
    ELSE Nothing

Seen(w) == [k \in Key |-> Glimpse(w.slots[k], w.clock)]

\* A world between the calls of one command
Steady(w) == Sound(w) /\ HidesExpired(w.mode)

-----------------------------------------------------------------------------
(***************************************************************************)
(* The words that both specifications use                                  *)
(***************************************************************************)
LEMMA SameCommands ==
    /\ Logical!SetCmd = SetCmd /\ Logical!ExpireCmd = ExpireCmd
    /\ Logical!RemoveCmd = RemoveCmd /\ Logical!LookupCmd = LookupCmd
    /\ Logical!ScanCmd = ScanCmd /\ Logical!WatchCmd = WatchCmd
    /\ Logical!UnwatchCmd = UnwatchCmd
<1>1. Logical!TtlArg = TtlArg /\ Logical!SetCond = SetCond
      /\ Logical!ExpireCond = ExpireCond /\ Logical!LookupOp = LookupOp
  BY DEF Logical!TtlArg, TtlArg, Logical!SetCond, SetCond, Logical!ExpireCond, ExpireCond,
     Logical!LookupOp, LookupOp, Logical!NoTtl, NoTtl, Logical!KeepTtl, KeepTtl,
     Logical!PxAt, PxAt, Logical!NoExpire, NoExpire
<1> QED
  BY <1>1 DEF Logical!SetCmd, SetCmd, Logical!ExpireCmd, ExpireCmd, Logical!RemoveCmd,
     RemoveCmd, Logical!LookupCmd, LookupCmd, Logical!ScanCmd, ScanCmd, Logical!WatchCmd,
     WatchCmd, Logical!UnwatchCmd, UnwatchCmd

LEMMA SameReplies ==
    /\ Logical!OkReply = OkReply /\ Logical!NilReply = NilReply
    /\ Logical!TypeReply = TypeReply /\ Logical!NoTypeReply = NoTypeReply
    /\ \A n : Logical!IntReply(n) = IntReply(n)
    /\ \A v : Logical!StrReply(v) = StrReply(v)
    /\ \A ks : Logical!KeySetReply(ks) = KeySetReply(ks)
    /\ Logical!NoExpire = NoExpire /\ Logical!Absent = Nothing
    /\ Logical!KeepTtl = KeepTtl
  BY DEF Logical!OkReply, OkReply, Logical!NilReply, NilReply, Logical!TypeReply,
     TypeReply, Logical!NoTypeReply, NoTypeReply, Logical!IntReply, IntReply,
     Logical!StrReply, StrReply, Logical!KeySetReply, KeySetReply, Logical!NoExpire,
     NoExpire, Logical!Absent, Nothing, Logical!KeepTtl, KeepTtl

LEMMA SameCardinality == \A S : Logical!Cardinality(S) = Cardinality(S)
  BY DEF Logical!Cardinality, Cardinality

-----------------------------------------------------------------------------
(***************************************************************************)
(* What is seen                                                            *)
(***************************************************************************)
\* A deadline is a time or none.
LEMMA SlotTypes ==
    ASSUME NEW w, Sound(w), NEW k \in Key
    PROVE  /\ w.slots[k] \in Slot /\ w.slots[k].present \in BOOLEAN
           /\ w.slots[k].expire_at \in ExpireTimes \cup {NoExpire}
           /\ w.slots[k].value # NoValue
           /\ w.clock \in Nat /\ ~(w.clock < NoExpire)
  BY NoValueAssumption, EmptyStrAssumption DEF Sound, World, Slot, NoExpire

\* A key is seen when it is visible, and then as its slot has it.
LEMMA SeenIs ==
    ASSUME NEW w, Steady(w), NEW k \in Key
    PROVE  /\ Seen(w)[k] = Glimpse(w.slots[k], w.clock)
           /\ Seen(w)[k] # Nothing <=> k \in VisibleKeys(w)
           /\ k \in VisibleKeys(w) =>
                Seen(w)[k] = [value |-> w.slots[k].value, at |-> w.slots[k].expire_at]
           /\ Seen(w)[k].value # NoValue <=> k \in VisibleKeys(w)
<1>1. w.slots[k].value # NoValue
  BY SlotTypes DEF Steady
<1>2. ~w.mode.allow_access_expired
  BY DEF Steady, HidesExpired
<1>3. Seen(w)[k] = Glimpse(w.slots[k], w.clock)
  BY DEF Seen
<1>4. k \in VisibleKeys(w) <=>
         w.slots[k].present
           /\ ~(w.slots[k].expire_at # NoExpire /\ w.clock > w.slots[k].expire_at)
  BY <1>2 DEF VisibleKeys, KeyIsExpired
<1> QED
  BY <1>1, <1>3, <1>4 DEF Glimpse, Nothing

\* The refinement mapping is what is seen of the world.
LEMMA SnapshotIsSeen ==
    ASSUME Steady(world) PROVE SnapshotVisible = Seen(world)
<1>1. \A k \in Key :
         Seen(world)[k] = IF k \in VisibleKeys(world)
                          THEN [value |-> world.slots[k].value, at |-> world.slots[k].expire_at]
                          ELSE Nothing
  BY SeenIs
<1> QED
  BY <1>1 DEF SnapshotVisible, Seen, Nothing

\* So it is after a step.
LEMMA SnapshotIsSeenNext ==
    ASSUME Steady(world') PROVE SnapshotVisible' = Seen(world')
<1>1. \A k \in Key :
         Seen(world')[k] = IF k \in VisibleKeys(world')
                           THEN [value |-> world'.slots[k].value,
                                 at |-> world'.slots[k].expire_at]
                           ELSE Nothing
  BY SeenIs
<1> QED
  BY <1>1 DEF SnapshotVisible, Seen, Nothing, VisibleKeys, KeyIsExpired

\* Worlds with the same slots and clock look the same.
LEMMA SeenSame ==
    ASSUME NEW w, NEW u, u.slots = w.slots, u.clock = w.clock
    PROVE  Seen(u) = Seen(w)
  BY DEF Seen

\* A lookup returns what is seen and changes nothing of it.
LEMMA LookupSees ==
    ASSUME NEW w, Steady(w), NEW k \in Key, NEW flags \in {ReadFlags, WriteFlags}
    PROVE  LET e == Lookup(w, k, flags)
           IN /\ e.value = Seen(w)[k].value
              /\ Steady(e.world) /\ Seen(e.world) = Seen(w)
              /\ e.world.clock = w.clock /\ e.world.mode = w.mode
              /\ e.value # NoValue => e.world = w
<1> DEFINE e == Lookup(w, k, flags)
           u == e.world
<1>1. /\ e.value = IF k \in VisibleKeys(w) THEN w.slots[k].value ELSE NoValue
      /\ Sound(u) /\ u.clock = w.clock /\ u.mode = w.mode
      /\ k \in VisibleKeys(w) => u = w
      /\ u.slots = w.slots \/ u.slots = [w.slots EXCEPT ![k] = AbsentSlot]
  BY LookupFinds DEF Steady
<1> HIDE DEF e
<1>2. e.value = Seen(w)[k].value
  <2>1. CASE k \in VisibleKeys(w)
    <3>1. Seen(w)[k] = [value |-> w.slots[k].value, at |-> w.slots[k].expire_at]
      BY <2>1, SeenIs
    <3>2. e.value = w.slots[k].value
      BY <1>1, <2>1
    <3> QED
      BY <3>1, <3>2
  <2>2. CASE k \notin VisibleKeys(w)
    <3>1. Seen(w)[k].value = NoValue
      BY <2>2, SeenIs
    <3>2. e.value = NoValue
      BY <1>1, <2>2
    <3> QED
      BY <3>1, <3>2
  <2> QED
    BY <2>1, <2>2
<1>3. Steady(u)
  BY <1>1 DEF Steady
<1>4. Seen(u) = Seen(w)
  <2>1. CASE u.slots = w.slots
    BY <1>1, <2>1, SeenSame
  <2>2. CASE u # w /\ u.slots = [w.slots EXCEPT ![k] = AbsentSlot]
    <3>1. w.slots \in [Key -> Slot]
      BY DEF Steady, Sound, World
    <3>2. Seen(w)[k] = Nothing
      BY <1>1, <2>2, SeenIs
    <3>3. Glimpse(AbsentSlot, w.clock) = Nothing
      BY DEF Glimpse, AbsentSlot
    <3>4. \A j \in Key : Glimpse(u.slots[j], u.clock) = Glimpse(w.slots[j], w.clock)
      BY <1>1, <2>2, <3>1, <3>2, <3>3 DEF Seen
    <3> QED
      BY <3>4 DEF Seen
  <2> QED
    BY <1>1, <2>1, <2>2
<1>5. e.value # NoValue => u = w
  BY <1>1
<1> QED
  BY <1>1, <1>2, <1>3, <1>4, <1>5 DEF e

\* A write changes what is seen of one key.
LEMMA WriteSeen ==
    ASSUME NEW w, Steady(w), NEW k \in Key, NEW slot \in Slot, NEW effect
    PROVE  Seen(WriteSlot(w, k, slot, effect))
             = [Seen(w) EXCEPT ![k] = Glimpse(slot, w.clock)]
<1> DEFINE u == WriteSlot(w, k, slot, effect)
<1>1. u.slots = [w.slots EXCEPT ![k] = slot] /\ u.clock = w.clock
  BY WriteSlotSlots DEF Steady
<1> HIDE DEF u
<1>2. w.slots \in [Key -> Slot]
  BY DEF Steady, Sound, World
<1>3. \A j \in Key : Glimpse(u.slots[j], u.clock)
                       = IF j = k THEN Glimpse(slot, w.clock)
                         ELSE Glimpse(w.slots[j], w.clock)
  BY <1>1, <1>2
<1>4. Seen(u) = [Seen(w) EXCEPT ![k] = Glimpse(slot, w.clock)]
  BY <1>3 DEF Seen
<1> QED
  BY <1>4 DEF u

LEMMA DeleteSeen ==
    ASSUME NEW w, Steady(w), NEW k \in Key
    PROVE  Seen(DeleteSlot(w, k)) = [Seen(w) EXCEPT ![k] = Nothing]
<1>1. AbsentSlot \in Slot /\ Glimpse(AbsentSlot, w.clock) = Nothing
  BY DEF AbsentSlot, Slot, Glimpse
<1> QED
  BY <1>1, WriteSeen DEF DeleteSlot

-----------------------------------------------------------------------------
(***************************************************************************)
(* The commands                                                            *)
(***************************************************************************)
\* From world w to world u the map changed only in key k, to what may be seen of
\* the entry it was given.
Assigned(w, u, k, entry) ==
    \E e : /\ \/ e = entry /\ ~(entry.at # NoExpire /\ entry.at < w.clock)
              \/ e = Nothing /\ entry.at # NoExpire /\ entry.at <= w.clock
           /\ Seen(u) = [Seen(w) EXCEPT ![k] = e]

\* What is seen of a written slot is the entry, or nothing once it has elapsed.
LEMMA WriteAssigns ==
    ASSUME NEW w, Steady(w), NEW k \in Key, NEW v \in Value \cup {EmptyStr},
           NEW at \in ExpireTimes \cup {NoExpire}, NEW slot,
           slot = [present |-> TRUE, value |-> v, expire_at |-> at], NEW effect
    PROVE  Assigned(w, WriteSlot(w, k, slot, effect), k, [value |-> v, at |-> at])
<1> DEFINE entry == [value |-> v, at |-> at]
<1>1. slot \in Slot
  BY DEF Slot
<1>2. Seen(WriteSlot(w, k, slot, effect)) = [Seen(w) EXCEPT ![k] = Glimpse(slot, w.clock)]
  BY <1>1, WriteSeen
<1>3. Glimpse(slot, w.clock)
        = IF at # NoExpire /\ w.clock > at THEN Nothing ELSE entry
  BY DEF Glimpse
<1>4. entry.at = at /\ entry.value = v
  OBVIOUS
<1> HIDE DEF entry
<1>5. w.clock \in Nat /\ at \in Int
  BY ExpireTimesAssumption DEF Steady, Sound, World, NoExpire
<1>6. CASE at # NoExpire /\ w.clock > at
  <2>1. at <= w.clock
    BY <1>5, <1>6
  <2> QED
    BY <1>2, <1>3, <1>4, <1>6, <2>1 DEF Assigned, entry
<1>7. CASE ~(at # NoExpire /\ w.clock > at)
  <2>1. ~(at # NoExpire /\ at < w.clock)
    BY <1>5, <1>7
  <2> QED
    BY <1>2, <1>3, <1>4, <1>7, <2>1 DEF Assigned, entry
<1> QED
  BY <1>6, <1>7

\* A write lookup, and what it finds of a key that is seen
LEMMA WriteLookupSees ==
    ASSUME NEW w, Steady(w), NEW k \in Key
    PROVE  LET write == LookupKeyWrite(w, k)
               old == Seen(w)[k]
           IN /\ write.value = old.value /\ (write.value # NoValue <=> old # Nothing)
              /\ Steady(write.world) /\ Seen(write.world) = Seen(w)
              /\ write.world.clock = w.clock /\ write.world.mode = w.mode
              /\ write.value # NoValue =>
                   /\ write.world.slots[k].present
                   /\ write.world.slots[k].value = old.value
                   /\ write.world.slots[k].expire_at = old.at
              /\ write.value = NoValue => old = Nothing
<1> DEFINE write == LookupKeyWrite(w, k)
<1>1. /\ write.value = Seen(w)[k].value
      /\ Steady(write.world) /\ Seen(write.world) = Seen(w)
      /\ write.world.clock = w.clock /\ write.world.mode = w.mode
      /\ write.value # NoValue => write.world = w
  BY LookupSees DEF LookupKeyWrite
<1> HIDE DEF write
<1>2. write.value # NoValue <=> k \in VisibleKeys(w)
  BY <1>1, SeenIs
<1>3. k \in VisibleKeys(w) =>
        /\ w.slots[k].present
        /\ Seen(w)[k] = [value |-> w.slots[k].value, at |-> w.slots[k].expire_at]
  BY SeenIs DEF VisibleKeys
<1>4. Seen(w)[k] # Nothing <=> k \in VisibleKeys(w)
  BY SeenIs
<1> QED
  BY <1>1, <1>2, <1>3, <1>4 DEF write

\* SET, with the map's own reading of NX, XX and KEEPTTL
MapWants(cmd, old) ==
    \/ cmd.cond = "Always"
    \/ cmd.cond = "Nx" /\ old = Nothing
    \/ cmd.cond = "Xx" /\ old # Nothing

MapEntry(cmd, old) ==
    [value |-> cmd.val, at |-> IF cmd.ttl = KeepTtl THEN old.at ELSE cmd.ttl.at]

LEMMA SetSeen ==
    ASSUME NEW w, Steady(w), NEW cmd \in SetCmd
    PROVE  LET r == CmdSet(w, cmd)
               old == Seen(w)[cmd.key]
           IN \/ /\ MapWants(cmd, old)
                 /\ r.reply = IF cmd.get THEN StrReply(old.value) ELSE OkReply
                 /\ Assigned(w, r.world, cmd.key, MapEntry(cmd, old))
              \/ /\ ~MapWants(cmd, old)
                 /\ r.reply = IF cmd.get THEN StrReply(old.value) ELSE NilReply
                 /\ Seen(r.world) = Seen(w)
<1> DEFINE k == cmd.key
           old == Seen(w)[k]
           read == IF cmd.get THEN LookupKeyRead(w, k)
                   ELSE [world |-> w, value |-> NoValue]
           write == LookupKeyWrite(read.world, k)
           u == write.world
           exists == write.value # NoValue
           at == NewExpire(u, k, cmd.ttl, exists)
           entry == MapEntry(cmd, old)
           slot == [present |-> TRUE, value |-> cmd.val, expire_at |-> at]
           r == CmdSet(w, cmd)
           drop == IF exists \/ u.slots[k].present THEN DeleteSlot(u, k) ELSE u
           elapsed == cmd.ttl.kind = "PxAt" /\ CheckAlreadyExpired(u, cmd.ttl.at)
<1>1. k \in Key /\ cmd.val \in Value /\ cmd.ttl \in TtlArg /\ cmd.cond \in SetCond
      /\ cmd.get \in BOOLEAN
  BY DEF SetCmd
<1>2. /\ Steady(read.world) /\ Seen(read.world) = Seen(w) /\ read.world.clock = w.clock
      /\ read.value = IF cmd.get THEN old.value ELSE NoValue
  <2>1. CASE cmd.get
    <3>1. read = Lookup(w, k, ReadFlags)
      BY <2>1 DEF LookupKeyRead
    <3> HIDE DEF read
    <3> QED
      BY <1>1, <2>1, <3>1, LookupSees
  <2>2. CASE ~cmd.get
    BY <2>2
  <2> QED
    BY <2>1, <2>2
<1>3. r = IF ~SetAllowed(cmd.cond, exists)
          THEN Result(u, StrReply(read.value))
          ELSE IF elapsed THEN Result(drop, SetReply(cmd, read.value))
          ELSE Result(WriteSlot(u, k, slot, SetEffect(k, cmd.val, at)),
                      SetReply(cmd, read.value))
  BY DEF CmdSet, SetAfterGet, SetFound
<1> HIDE DEF read
<1>4. /\ Steady(u) /\ Seen(u) = Seen(w) /\ u.clock = w.clock
      /\ exists <=> old # Nothing
      /\ exists => u.slots[k].expire_at = old.at
  BY <1>1, <1>2, WriteLookupSees
<1> HIDE DEF write, exists
<1>5. SetAllowed(cmd.cond, exists) <=> MapWants(cmd, old)
  BY <1>1, <1>4 DEF SetAllowed, MapWants, SetCond
<1>6. entry.value = cmd.val /\ entry = [value |-> cmd.val, at |-> at]
  <2>1. CASE cmd.ttl = KeepTtl
    <3>1. at = IF exists THEN u.slots[k].expire_at ELSE NoExpire
      BY <2>1 DEF NewExpire, KeepTtl
    <3>2. old = Nothing => old.at = NoExpire
      BY DEF Nothing
    <3>3. at = old.at
      BY <1>4, <3>1, <3>2
    <3> QED
      BY <2>1, <3>3 DEF MapEntry
  <2>2. CASE cmd.ttl # KeepTtl
    <3>1. at = cmd.ttl.at
      BY <1>1, <2>2 DEF NewExpire, TtlArg, NoTtl, KeepTtl, PxAt
    <3> QED
      BY <2>2, <3>1 DEF MapEntry
  <2> QED
    BY <2>1, <2>2
<1>7. at \in ExpireTimes \cup {NoExpire}
  BY <1>1, <1>4, NewExpireType DEF Steady
<1>8. elapsed => entry.at # NoExpire /\ entry.at <= w.clock
  <2> SUFFICES ASSUME elapsed PROVE entry.at # NoExpire /\ entry.at <= w.clock
    OBVIOUS
  <2>1. cmd.ttl \in PxAt
    BY <1>1 DEF TtlArg, NoTtl, KeepTtl
  <2>2. entry.at = cmd.ttl.at /\ cmd.ttl.at \in ExpireTimes /\ cmd.ttl.at <= w.clock
    BY <1>4, <2>1 DEF PxAt, KeepTtl, MapEntry, CheckAlreadyExpired
  <2> QED
    BY <2>2, ExpireTimesAssumption DEF NoExpire
<1>9. Assigned(w, WriteSlot(u, k, slot, SetEffect(k, cmd.val, at)), k, entry)
  <2> HIDE DEF at, entry
  <2>1. Assigned(u, WriteSlot(u, k, slot, SetEffect(k, cmd.val, at)), k,
                 [value |-> cmd.val, at |-> at])
    BY <1>1, <1>4, <1>7, WriteAssigns
  <2> QED
    BY <1>4, <1>6, <2>1 DEF Assigned
<1>10. elapsed => Assigned(w, drop, k, entry)
  <2> SUFFICES ASSUME elapsed PROVE Assigned(w, drop, k, entry)
    OBVIOUS
  <2>1. Seen(drop) = [Seen(w) EXCEPT ![k] = Nothing]
    <3>1. CASE exists \/ u.slots[k].present
      BY <1>1, <1>4, <3>1, DeleteSeen
    <3>2. CASE ~(exists \/ u.slots[k].present)
      <4>1. old = Nothing /\ drop = u
        BY <1>4, <3>2
      <4>2. Seen(w) = [Seen(w) EXCEPT ![k] = Nothing]
        BY <1>1, <4>1 DEF Seen
      <4> QED
        BY <1>4, <4>1, <4>2
    <3> QED
      BY <3>1, <3>2
  <2> HIDE DEF drop, entry, elapsed
  <2> QED
    BY <1>8, <2>1 DEF Assigned
<1>11. SetReply(cmd, read.value) = IF cmd.get THEN StrReply(old.value) ELSE OkReply
  BY <1>2 DEF SetReply
<1>12. StrReply(read.value) = IF cmd.get THEN StrReply(old.value) ELSE NilReply
  BY <1>2 DEF StrReply
<1> HIDE DEF at, entry, slot, drop, elapsed, u
<1>13. CASE ~MapWants(cmd, old)
  <2>1. r.world = u /\ r.reply = StrReply(read.value)
    BY <1>3, <1>5, <1>13 DEF Result
  <2> QED
    BY <1>4, <1>12, <1>13, <2>1
<1>14. CASE MapWants(cmd, old)
  <2>1. r.reply = SetReply(cmd, read.value) /\ Assigned(w, r.world, k, entry)
    BY <1>3, <1>5, <1>9, <1>10, <1>14 DEF Result
  <2> QED
    BY <1>11, <1>14, <2>1 DEF entry
<1> QED
  BY <1>13, <1>14

\* DEL
LEMMA DelSeen ==
    ASSUME NEW w, Steady(w), NEW k \in Key
    PROVE  LET r == CmdDel(w, k)
           IN /\ r.reply = IntReply(IF Seen(w)[k] # Nothing THEN 1 ELSE 0)
              /\ Seen(r.world) = [Seen(w) EXCEPT ![k] = Nothing]
<1> DEFINE write == LookupKeyWrite(w, k)
           u == write.world
           r == CmdDel(w, k)
<1>1. /\ Steady(u) /\ Seen(u) = Seen(w)
      /\ write.value # NoValue <=> Seen(w)[k] # Nothing
  BY WriteLookupSees
<1>2. r = IF write.value = NoValue THEN Result(u, IntReply(0))
          ELSE Result(DeleteSlot(u, k), IntReply(1))
  BY DEF CmdDel, DelFound
<1> HIDE DEF write, r
<1>3. CASE write.value = NoValue
  <2>1. r.world = u /\ r.reply = IntReply(0)
    BY <1>2, <1>3 DEF Result
  <2>2. Seen(w)[k] = Nothing
    BY <1>1, <1>3
  <2>3. Seen(w) = [Seen(w) EXCEPT ![k] = Nothing]
    BY <2>2 DEF Seen
  <2> QED
    BY <1>1, <2>1, <2>2, <2>3 DEF r
<1>4. CASE write.value # NoValue
  <2>1. r.world = DeleteSlot(u, k) /\ r.reply = IntReply(1)
    BY <1>2, <1>4 DEF Result
  <2>2. Seen(DeleteSlot(u, k)) = [Seen(u) EXCEPT ![k] = Nothing]
    BY <1>1, DeleteSeen
  <2> QED
    BY <1>1, <1>4, <2>1, <2>2 DEF r
<1> QED
  BY <1>3, <1>4

\* The slot that EXPIRE and PERSIST write has another deadline and the old value.
LEMMA RetimedSlot ==
    ASSUME NEW u, Steady(u), NEW k \in Key, u.slots[k].present,
           NEW at \in ExpireTimes \cup {NoExpire}
    PROVE  [u.slots[k] EXCEPT !.expire_at = at]
             = [present |-> TRUE, value |-> u.slots[k].value, expire_at |-> at]
<1> DEFINE slot == u.slots[k]
<1>1. slot \in Slot /\ slot.present = TRUE
  BY SlotTypes DEF Steady
<1> HIDE DEF slot
<1>2. [slot EXCEPT !.expire_at = at]
        = [present |-> TRUE, value |-> slot.value, expire_at |-> at]
  <2>1. [slot EXCEPT !.expire_at = at] \in Slot
    BY <1>1 DEF Slot
  <2>2. /\ [slot EXCEPT !.expire_at = at].present = TRUE
        /\ [slot EXCEPT !.expire_at = at].value = slot.value
        /\ [slot EXCEPT !.expire_at = at].expire_at = at
    BY <1>1 DEF Slot
  <2> DEFINE other == [slot EXCEPT !.expire_at = at]
  <2> HIDE DEF other
  <2>3. other = [present |-> other.present, value |-> other.value,
                 expire_at |-> other.expire_at]
    BY <2>1 DEF Slot, other
  <2> QED
    BY <2>2, <2>3 DEF other
<1> QED
  BY <1>2 DEF slot

\* A deadline is a number, no deadline another one.
LEMMA DeadlineIsInt ==
    ASSUME NEW at \in ExpireTimes \cup {NoExpire}
    PROVE  at \in Int
  BY ExpireTimesAssumption DEF NoExpire

\* The condition of EXPIRE, said with what is refused and with what is let through
LEMMA RefusedOrBeats ==
    ASSUME NEW at \in Int, NEW old \in Int, NEW cond \in ExpireCond
    PROVE  ExpireRefused(old, at, cond) <=> ~Logical!Beats(at, cond, old)
<1>1. cond \in {"None", "Nx", "Xx", "Gt", "Lt"} /\ Logical!NoExpire = NoExpire
  BY SameReplies DEF ExpireCond
<1>2. CASE cond = "None"
  BY <1>2 DEF ExpireRefused, Logical!Beats
<1>3. CASE cond = "Nx"
  BY <1>1, <1>3 DEF ExpireRefused, Logical!Beats
<1>4. CASE cond = "Xx"
  BY <1>1, <1>4 DEF ExpireRefused, Logical!Beats
<1>5. CASE cond = "Gt"
  BY <1>1, <1>5 DEF ExpireRefused, Logical!Beats
<1>6. CASE cond = "Lt"
  BY <1>1, <1>6 DEF ExpireRefused, Logical!Beats
<1> QED
  BY <1>1, <1>2, <1>3, <1>4, <1>5, <1>6

\* EXPIRE: the condition looks at the deadline that is seen.
LEMMA ExpireSeen ==
    ASSUME NEW w, Steady(w), NEW k \in Key, NEW at \in ExpireTimes, NEW cond \in ExpireCond
    PROVE  LET r == CmdExpire(w, k, at, cond)
               old == Seen(w)[k]
               moves == old # Nothing /\ Logical!Beats(at, cond, old.at)
           IN /\ r.reply = IntReply(IF moves THEN 1 ELSE 0)
              /\ IF moves THEN Assigned(w, r.world, k, [value |-> old.value, at |-> at])
                 ELSE Seen(r.world) = Seen(w)
<1> DEFINE write == LookupKeyWrite(w, k)
           u == write.world
           r == CmdExpire(w, k, at, cond)
           old == Seen(w)[k]
           moves == old # Nothing /\ Logical!Beats(at, cond, old.at)
           slot == [u.slots[k] EXCEPT !.expire_at = at]
           entry == [value |-> old.value, at |-> at]
<1>1. /\ Steady(u) /\ Seen(u) = Seen(w) /\ u.clock = w.clock
      /\ write.value # NoValue <=> old # Nothing
      /\ write.value # NoValue =>
           /\ u.slots[k].present /\ u.slots[k].value = old.value
           /\ u.slots[k].expire_at = old.at
  BY WriteLookupSees
<1>2. r = IF write.value = NoValue \/ ExpireRefused(u.slots[k].expire_at, at, cond)
          THEN Result(u, IntReply(0))
          ELSE IF CheckAlreadyExpired(u, at) THEN Result(DeleteSlot(u, k), IntReply(1))
          ELSE Result(WriteSlot(u, k, slot, PExpireAtEffect(k, at)), IntReply(1))
  BY DEF CmdExpire, ExpireFound
<1> HIDE DEF write, r
<1>3. write.value # NoValue =>
        (ExpireRefused(old.at, at, cond) <=> ~Logical!Beats(at, cond, old.at))
  <2> SUFFICES ASSUME write.value # NoValue
               PROVE  ExpireRefused(old.at, at, cond) <=> ~Logical!Beats(at, cond, old.at)
    OBVIOUS
  <2>1. old.at \in ExpireTimes \cup {NoExpire}
    BY <1>1, SlotTypes DEF Steady
  <2> HIDE DEF old, moves, slot, entry
  <2>2. old.at \in Int /\ at \in Int
    BY <2>1, DeadlineIsInt
  <2> QED
    BY <2>2, RefusedOrBeats
<1>4. moves <=> ~(write.value = NoValue \/ ExpireRefused(u.slots[k].expire_at, at, cond))
  BY <1>1, <1>3
<1>5. moves => Assigned(w, WriteSlot(u, k, slot, PExpireAtEffect(k, at)), k, entry)
  <2> SUFFICES ASSUME moves
               PROVE  Assigned(w, WriteSlot(u, k, slot, PExpireAtEffect(k, at)), k, entry)
    OBVIOUS
  <2>1. /\ u.slots[k].present /\ u.slots[k].value = old.value
        /\ u.slots[k].value \in Value \cup {EmptyStr}
    BY <1>1, SlotTypes DEF Steady, Slot
  <2>2. slot = [present |-> TRUE, value |-> old.value, expire_at |-> at]
    BY <1>1, <2>1, RetimedSlot
  <2> HIDE DEF slot, entry, moves, old, u
  <2>3. Assigned(u, WriteSlot(u, k, slot, PExpireAtEffect(k, at)), k,
                 [value |-> old.value, at |-> at])
    BY <1>1, <2>1, <2>2, WriteAssigns
  <2> QED
    BY <1>1, <2>3 DEF Assigned, entry
<1>6. moves /\ CheckAlreadyExpired(u, at) => Assigned(w, DeleteSlot(u, k), k, entry)
  <2> SUFFICES ASSUME CheckAlreadyExpired(u, at)
               PROVE  Assigned(w, DeleteSlot(u, k), k, entry)
    OBVIOUS
  <2>1. Seen(DeleteSlot(u, k)) = [Seen(w) EXCEPT ![k] = Nothing]
    BY <1>1, DeleteSeen
  <2>2. entry.at # NoExpire /\ entry.at <= w.clock
    BY <1>1, ExpireTimesAssumption DEF CheckAlreadyExpired, NoExpire
  <2> HIDE DEF entry
  <2> QED
    BY <2>1, <2>2 DEF Assigned
<1> HIDE DEF slot, u, moves, old, entry
<1>7. CASE ~moves
  <2>1. r.world = u /\ r.reply = IntReply(0)
    BY <1>2, <1>4, <1>7 DEF Result
  <2> QED
    BY <1>1, <1>7, <2>1 DEF moves, old, r
<1>8. CASE moves
  <2>1. Assigned(w, r.world, k, entry) /\ r.reply = IntReply(1)
    BY <1>2, <1>4, <1>5, <1>6, <1>8 DEF Result
  <2> QED
    BY <1>8, <2>1 DEF moves, old, r, entry
<1> QED
  BY <1>7, <1>8

\* PERSIST
LEMMA PersistSeen ==
    ASSUME NEW w, Steady(w), NEW k \in Key
    PROVE  LET r == CmdPersist(w, k)
               old == Seen(w)[k]
               moves == old # Nothing /\ old.at # NoExpire
           IN /\ r.reply = IntReply(IF moves THEN 1 ELSE 0)
              /\ Seen(r.world) = [Seen(w) EXCEPT ![k] = [value |-> old.value, at |-> NoExpire]]
<1> DEFINE write == LookupKeyWrite(w, k)
           u == write.world
           r == CmdPersist(w, k)
           old == Seen(w)[k]
           moves == old # Nothing /\ old.at # NoExpire
           slot == [u.slots[k] EXCEPT !.expire_at = NoExpire]
           kept == WriteSlot(u, k, slot, PersistEffect(k))
           entry == [value |-> old.value, at |-> NoExpire]
<1>1. /\ Steady(u) /\ Seen(u) = Seen(w) /\ u.clock = w.clock
      /\ write.value # NoValue <=> old # Nothing
      /\ write.value # NoValue =>
           /\ u.slots[k].present /\ u.slots[k].value = old.value
           /\ u.slots[k].expire_at = old.at
  BY WriteLookupSees
<1>2. r = IF write.value = NoValue \/ u.slots[k].expire_at = NoExpire
          THEN Result(u, IntReply(0))
          ELSE Result(kept, IntReply(1))
  BY DEF CmdPersist, PersistFound
<1> HIDE DEF write, r
<1>3. moves => Seen(kept) = [Seen(w) EXCEPT ![k] = entry]
  <2> SUFFICES ASSUME moves PROVE Seen(kept) = [Seen(w) EXCEPT ![k] = entry]
    OBVIOUS
  <2>1. /\ u.slots[k].present /\ u.slots[k].value = old.value
        /\ u.slots[k].value \in Value \cup {EmptyStr}
    BY <1>1, SlotTypes DEF Steady, Slot
  <2>2. slot = [present |-> TRUE, value |-> old.value, expire_at |-> NoExpire]
    BY <1>1, <2>1, RetimedSlot
  <2>3. slot \in Slot /\ Glimpse(slot, u.clock) = entry
    BY <2>1, <2>2 DEF Slot, Glimpse
  <2> HIDE DEF slot, entry
  <2> QED
    BY <1>1, <2>3, WriteSeen
<1>4. ~moves => Seen(w) = [Seen(w) EXCEPT ![k] = entry]
  <2> SUFFICES ASSUME ~moves PROVE Seen(w)[k] = entry
    BY DEF Seen
  <2>1. CASE old = Nothing
    BY <2>1 DEF Nothing
  <2>2. CASE old # Nothing
    <3>1. old = [value |-> w.slots[k].value, at |-> w.slots[k].expire_at]
      BY <2>2, SeenIs
    <3>2. old.at = NoExpire
      BY <2>2
    <3> QED
      BY <3>1, <3>2
  <2> QED
    BY <2>1, <2>2
<1> HIDE DEF slot, kept, entry
<1>5. CASE ~moves
  <2>1. r.world = u /\ r.reply = IntReply(0)
    BY <1>1, <1>2, <1>5 DEF Result
  <2> QED
    BY <1>1, <1>4, <1>5, <2>1 DEF r, entry
<1>6. CASE moves
  <2>1. r.world = kept /\ r.reply = IntReply(1)
    BY <1>1, <1>2, <1>6 DEF Result
  <2> QED
    BY <1>3, <1>6, <2>1 DEF r, entry
<1> QED
  BY <1>5, <1>6

\* GET, EXISTS, TYPE and PTTL answer with what is seen.
MapReply(op, old, now) ==
    CASE op = "Get" -> StrReply(old.value)
      [] op = "Exists" -> IntReply(IF old = Nothing THEN 0 ELSE 1)
      [] op = "Type" -> IF old = Nothing THEN NoTypeReply ELSE TypeReply
      [] op = "Pttl" -> IntReply(IF old = Nothing THEN -2
                                 ELSE IF old.at = NoExpire THEN -1
                                 ELSE old.at - now)

LEMMA LookSeen ==
    ASSUME NEW w, Steady(w), NEW k \in Key, NEW op \in LookupOp
    PROVE  LET r == CmdLookup(w, op, k)
               old == Seen(w)[k]
           IN /\ Seen(r.world) = Seen(w)
              /\ r.reply = MapReply(op, old, w.clock)
<1> DEFINE read == LookupKeyRead(w, k)
           old == Seen(w)[k]
           r == CmdLookup(w, op, k)
<1>1. /\ read.value = old.value /\ Seen(read.world) = Seen(w)
      /\ read.value # NoValue => read.world = w
  BY LookupSees DEF LookupKeyRead
<1>2. r.world = read.world /\ r.reply = LookupReply(op, read.world, k, read.value)
  BY DEF CmdLookup, Answered, Result
<1> HIDE DEF read, r
<1>3. /\ read.value # NoValue <=> old # Nothing
      /\ old # Nothing => old.at = w.slots[k].expire_at
  <2>1. /\ old # Nothing <=> k \in VisibleKeys(w)
        /\ old.value # NoValue <=> k \in VisibleKeys(w)
        /\ k \in VisibleKeys(w) =>
             old = [value |-> w.slots[k].value, at |-> w.slots[k].expire_at]
    BY SeenIs
  <2> HIDE DEF old
  <2> QED
    BY <1>1, <2>1
<1>4. old # Nothing => read.world = w
  BY <1>1, <1>3
<1> HIDE DEF old
<1>5. LookupReply(op, read.world, k, read.value) = MapReply(op, old, w.clock)
  <2>1. CASE old = Nothing
    BY <1>1, <1>3, <2>1 DEF LookupReply, PttlReply, LookupOp, MapReply
  <2>2. CASE old # Nothing
    BY <1>1, <1>3, <1>4, <2>2 DEF LookupReply, PttlReply, LookupOp, MapReply
  <2> QED
    BY <2>1, <2>2
<1> QED
  BY <1>1, <1>2, <1>5 DEF r, old

\* WATCH and UNWATCH touch no slot.
LEMMA WatchSeen ==
    ASSUME NEW w, Steady(w), NEW cmd \in WatchCmd \cup UnwatchCmd
    PROVE  LET r == Exec(w, cmd)
           IN Seen(r.world) = Seen(w) /\ r.reply = OkReply
<1>1. CASE cmd \in WatchCmd
  <2>1. cmd.op = "Watch" /\ cmd.client \in Client /\ cmd.key \in Key
    BY <1>1 DEF WatchCmd
  <2>2. Exec(w, cmd).world = WatchKey(w, cmd.client, cmd.key)
        /\ Exec(w, cmd).reply = OkReply
    BY <2>1 DEF Exec, Result, LookupOp
  <2>3. LET u == WatchKey(w, cmd.client, cmd.key)
        IN u.slots = w.slots /\ u.clock = w.clock
    BY DEF WatchKey, Steady, Sound, World
  <2> QED
    BY <2>2, <2>3, SeenSame
<1>2. CASE cmd \in UnwatchCmd
  <2>1. cmd.op = "Unwatch" /\ cmd.client \in Client
    BY <1>2 DEF UnwatchCmd
  <2>2. Exec(w, cmd).world = UnwatchAll(w, {cmd.client})
        /\ Exec(w, cmd).reply = OkReply
    BY <2>1 DEF Exec, Result, LookupOp
  <2>3. LET u == UnwatchAll(w, {cmd.client})
        IN u.slots = w.slots /\ u.clock = w.clock
    BY <2>1, UnwatchAllKeeps DEF Steady, Sound
  <2> QED
    BY <2>2, <2>3, SeenSame
<1> QED
  BY <1>1, <1>2

-----------------------------------------------------------------------------
(***************************************************************************)
(* The steps.  The frame of a request: an execution unit is opened, which  *)
(* nobody sees, the command runs, and the unit is closed.                  *)
(***************************************************************************)
LEMMA RunSeen ==
    ASSUME NEW w, Steady(w), NEW cmd \in Command
    PROVE  LET v == EnterExecutionUnit(w)
               r == RunCmd(w, cmd)
           IN /\ Steady(v) /\ Seen(v) = Seen(w) /\ v.clock = w.clock
              /\ Seen(r.world) = Seen(Exec(v, cmd).world)
              /\ r.world.clock = w.clock /\ r.world.mode = w.mode
              /\ r.reply = Exec(v, cmd).reply
<1> DEFINE v == EnterExecutionUnit(w)
           r == RunCmd(w, cmd)
           done == Exec(v, cmd)
<1>1. /\ Sound(v) /\ v.slots = w.slots /\ v.clock = w.clock /\ v.mode = w.mode
  BY EnterKeeps DEF Steady
<1>2. /\ r.world.slots = done.world.slots /\ r.world.clock = done.world.clock
      /\ r.world.mode = done.world.mode /\ r.reply = done.reply
  BY RunCmdIs DEF Steady
<1> HIDE DEF v, r
<1>3. done.world.clock = v.clock /\ done.world.mode = v.mode
  BY <1>1, ExecSound DEF SameUnit
<1> HIDE DEF done
<1>4. Steady(v) /\ Seen(v) = Seen(w)
  BY <1>1, SeenSame DEF Steady
<1> QED
  BY <1>1, <1>2, <1>3, <1>4, SeenSame DEF v, r, done

\* The command and the reply that the map is told of
Told(cmd, r) == world' = r.world /\ last' = [cmd |-> cmd, reply |-> r.reply]

\* A step of the model with a command, in terms of what is seen
LEMMA RequestSeen ==
    ASSUME Steady(world), NEW cmd \in Command, Told(cmd, RunCmd(world, cmd)),
           Steady(world')
    PROVE  LET w == EnterExecutionUnit(world)
               r == Exec(w, cmd)
           IN /\ Steady(w) /\ Seen(w) = SnapshotVisible /\ w.clock = world.clock
              /\ SnapshotVisible' = Seen(r.world) /\ world'.clock = world.clock
              /\ Logical!Answer(cmd, r.reply)
<1>1. SnapshotVisible = Seen(world)
  BY SnapshotIsSeen
<1>2. SnapshotVisible' = Seen(world')
  BY SnapshotIsSeenNext
<1>3. world' = RunCmd(world, cmd).world
      /\ last' = [cmd |-> cmd, reply |-> RunCmd(world, cmd).reply]
  BY DEF Told
<1> QED
  BY <1>1, <1>2, <1>3, RunSeen DEF Logical!Answer

\* What a write is seen to assign is one of the outcomes the map allows.
LEMMA AssignedIsAssign ==
    ASSUME NEW w, NEW u, NEW k \in Key, NEW entry, Assigned(w, u, k, entry),
           w.clock = world.clock, Seen(w) = SnapshotVisible, SnapshotVisible' = Seen(u)
    PROVE  Logical!Assign(k, entry)
<1>1. PICK e : /\ \/ e = entry /\ ~(entry.at # NoExpire /\ entry.at < w.clock)
                  \/ e = Nothing /\ entry.at # NoExpire /\ entry.at <= w.clock
               /\ Seen(u) = [Seen(w) EXCEPT ![k] = e]
  BY DEF Assigned
<1>2. e \in Logical!Outcomes(entry)
  BY <1>1, SameReplies DEF Logical!Outcomes, Logical!Elapsed, Logical!Due
<1>3. SnapshotVisible' = [SnapshotVisible EXCEPT ![k] = e]
  BY <1>1
<1> HIDE DEF SnapshotVisible
<1> QED
  BY <1>2, <1>3 DEF Logical!Assign

\* What is seen of a key is an entry of the map or nothing.
LEMMA SeenRecord ==
    ASSUME NEW w, Steady(w), NEW k \in Key, NEW at
    PROVE  [Seen(w)[k] EXCEPT !.at = at] = [value |-> Seen(w)[k].value, at |-> at]
<1>1. \/ Seen(w)[k] = [value |-> w.slots[k].value, at |-> w.slots[k].expire_at]
      \/ Seen(w)[k] = [value |-> NoValue, at |-> NoExpire]
  BY SeenIs DEF Nothing
<1>2. ASSUME NEW v, NEW t, Seen(w)[k] = [value |-> v, at |-> t]
      PROVE  [Seen(w)[k] EXCEPT !.at = at] = [value |-> Seen(w)[k].value, at |-> at]
  BY <1>2
<1> QED
  BY <1>1, <1>2

LEMMA SetImplements ==
    ASSUME Steady(world), Steady(world'), NEW cmd \in SetCmd,
           Told(cmd, RunCmd(world, cmd))
    PROVE  Logical!Put(cmd)
<1> DEFINE w == EnterExecutionUnit(world)
           r == Exec(w, cmd)
           old == Seen(w)[cmd.key]
<1>1. /\ Steady(w) /\ Seen(w) = SnapshotVisible /\ w.clock = world.clock
      /\ SnapshotVisible' = Seen(r.world) /\ Logical!Answer(cmd, r.reply)
  BY RequestSeen DEF Command, KeyCmd
<1>2. r = CmdSet(w, cmd) /\ cmd.key \in Key
  BY DEF SetCmd, Exec, LookupOp
<1> HIDE DEF w, r
<1>3. \/ /\ MapWants(cmd, old)
         /\ r.reply = IF cmd.get THEN StrReply(old.value) ELSE OkReply
         /\ Assigned(w, r.world, cmd.key, MapEntry(cmd, old))
      \/ /\ ~MapWants(cmd, old)
         /\ r.reply = IF cmd.get THEN StrReply(old.value) ELSE NilReply
         /\ Seen(r.world) = Seen(w)
  BY <1>1, <1>2, SetSeen
<1>4. old = SnapshotVisible[cmd.key]
  BY <1>1
<1> HIDE DEF SnapshotVisible, old
<1>5. Logical!Wanted(cmd) <=> MapWants(cmd, old)
  BY <1>4, SameReplies DEF Logical!Wanted, MapWants, Logical!Exists
<1>6. CASE MapWants(cmd, old)
  <2>1. Logical!Assign(cmd.key, MapEntry(cmd, old))
    BY <1>1, <1>2, <1>3, <1>6, AssignedIsAssign
  <2> QED
    BY <1>1, <1>3, <1>4, <1>5, <1>6, <2>1, SameReplies DEF Logical!Put, MapEntry
<1>7. CASE ~MapWants(cmd, old)
  BY <1>1, <1>3, <1>4, <1>5, <1>7, SameReplies DEF Logical!Put
<1> QED
  BY <1>6, <1>7

LEMMA ExpireImplements ==
    ASSUME Steady(world), Steady(world'), NEW cmd \in ExpireCmd,
           Told(cmd, RunCmd(world, cmd))
    PROVE  Logical!Retime(cmd)
<1> DEFINE w == EnterExecutionUnit(world)
           r == Exec(w, cmd)
           old == Seen(w)[cmd.key]
           moves == old # Nothing /\ Logical!Beats(cmd.at, cmd.cond, old.at)
           entry == [value |-> old.value, at |-> cmd.at]
<1>1. /\ Steady(w) /\ Seen(w) = SnapshotVisible /\ w.clock = world.clock
      /\ SnapshotVisible' = Seen(r.world) /\ Logical!Answer(cmd, r.reply)
  BY RequestSeen DEF Command, KeyCmd
<1>2. /\ cmd.key \in Key /\ cmd.at \in ExpireTimes /\ cmd.cond \in ExpireCond
      /\ r = CmdExpire(w, cmd.key, cmd.at, cmd.cond)
  BY DEF ExpireCmd, Exec, LookupOp
<1> HIDE DEF w, r
<1>3. /\ r.reply = IntReply(IF moves THEN 1 ELSE 0)
      /\ IF moves THEN Assigned(w, r.world, cmd.key, entry) ELSE Seen(r.world) = Seen(w)
  BY <1>1, <1>2, ExpireSeen
<1>4. old = SnapshotVisible[cmd.key] /\ [old EXCEPT !.at = cmd.at] = entry
  BY <1>1, <1>2, SeenRecord
<1> HIDE DEF SnapshotVisible, old, entry
<1>5. Logical!Exists(cmd.key) <=> old # Nothing
  BY <1>4, SameReplies DEF Logical!Exists
<1>6. CASE moves
  <2>1. Logical!Assign(cmd.key, entry)
    BY <1>1, <1>2, <1>3, <1>6, AssignedIsAssign
  <2> QED
    BY <1>1, <1>3, <1>4, <1>5, <1>6, <2>1, SameReplies DEF Logical!Retime
<1>7. CASE ~moves
  BY <1>1, <1>3, <1>4, <1>5, <1>7, SameReplies DEF Logical!Retime
<1> QED
  BY <1>6, <1>7

LEMMA RemoveImplements ==
    ASSUME Steady(world), Steady(world'), NEW cmd \in RemoveCmd,
           Told(cmd, RunCmd(world, cmd))
    PROVE  \/ cmd.op = "Del" /\ Logical!Drop(cmd)
           \/ cmd.op = "Persist" /\ Logical!Keep(cmd)
<1> DEFINE w == EnterExecutionUnit(world)
           r == Exec(w, cmd)
           old == Seen(w)[cmd.key]
<1>1. /\ Steady(w) /\ Seen(w) = SnapshotVisible /\ w.clock = world.clock
      /\ SnapshotVisible' = Seen(r.world) /\ Logical!Answer(cmd, r.reply)
  BY RequestSeen DEF Command, KeyCmd
<1>2. cmd.key \in Key /\ cmd.op \in {"Del", "Persist"}
  BY DEF RemoveCmd
<1>3. /\ cmd.op = "Del" => r = CmdDel(w, cmd.key)
      /\ cmd.op = "Persist" => r = CmdPersist(w, cmd.key)
  BY DEF Exec, LookupOp
<1> HIDE DEF w, r
<1>4. /\ old = SnapshotVisible[cmd.key]
      /\ [old EXCEPT !.at = NoExpire] = [value |-> old.value, at |-> NoExpire]
  BY <1>1, <1>2, SeenRecord
<1>5. CASE cmd.op = "Del"
  <2>1. /\ r.reply = IntReply(IF old # Nothing THEN 1 ELSE 0)
        /\ Seen(r.world) = [Seen(w) EXCEPT ![cmd.key] = Nothing]
    BY <1>1, <1>2, <1>3, <1>5, DelSeen
  <2> HIDE DEF SnapshotVisible, old
  <2> QED
    BY <1>1, <1>4, <1>5, <2>1, SameReplies DEF Logical!Drop, Logical!Exists
<1>6. CASE cmd.op = "Persist"
  <2> DEFINE moves == old # Nothing /\ old.at # NoExpire
  <2>1. /\ r.reply = IntReply(IF moves THEN 1 ELSE 0)
        /\ Seen(r.world) =
             [Seen(w) EXCEPT ![cmd.key] = [value |-> old.value, at |-> NoExpire]]
    BY <1>1, <1>2, <1>3, <1>6, PersistSeen
  <2>2. Seen(w) \in [Key -> {Seen(w)[k] : k \in Key}]
    BY DEF Seen
  <2> HIDE DEF SnapshotVisible, old
  <2>3. SnapshotVisible' = [SnapshotVisible EXCEPT ![cmd.key] = [old EXCEPT !.at = NoExpire]]
    BY <1>1, <1>4, <2>1
  <2>4. SnapshotVisible' = [SnapshotVisible EXCEPT ![cmd.key].at = NoExpire]
    BY <1>4, <2>3
  <2> QED
    BY <1>1, <1>4, <1>6, <2>1, <2>4, SameReplies DEF Logical!Keep, Logical!Exists
<1> QED
  BY <1>2, <1>5, <1>6

LEMMA LookImplements ==
    ASSUME Steady(world), Steady(world'), NEW cmd \in LookupCmd,
           Told(cmd, RunCmd(world, cmd))
    PROVE  Logical!Look(cmd)
<1> DEFINE w == EnterExecutionUnit(world)
           r == Exec(w, cmd)
           old == Seen(w)[cmd.key]
<1>1. /\ Steady(w) /\ Seen(w) = SnapshotVisible /\ w.clock = world.clock
      /\ SnapshotVisible' = Seen(r.world) /\ Logical!Answer(cmd, r.reply)
  BY RequestSeen DEF Command, KeyCmd
<1>2. cmd.key \in Key /\ cmd.op \in LookupOp /\ r = CmdLookup(w, cmd.op, cmd.key)
  BY DEF LookupCmd, Exec, LookupOp
<1> HIDE DEF w, r
<1>3. /\ Seen(r.world) = Seen(w)
      /\ r.reply = MapReply(cmd.op, old, w.clock)
  BY <1>1, <1>2, LookSeen
<1>4. old = SnapshotVisible[cmd.key]
  BY <1>1
<1> HIDE DEF SnapshotVisible, old
<1>5. cmd.op \in {"Get", "Exists", "Type", "Pttl"}
  BY <1>2 DEF LookupOp
<1>6. SnapshotVisible' = SnapshotVisible
  BY <1>1, <1>3
<1>7. CASE cmd.op = "Get"
  BY <1>1, <1>3, <1>4, <1>6, <1>7, SameReplies DEF Logical!Look, MapReply
<1>8. CASE cmd.op = "Exists"
  BY <1>1, <1>3, <1>4, <1>6, <1>8, SameReplies DEF Logical!Look, MapReply
<1>9. CASE cmd.op = "Type"
  BY <1>1, <1>3, <1>4, <1>6, <1>9, SameReplies DEF Logical!Look, MapReply
<1>10. CASE cmd.op = "Pttl"
  BY <1>1, <1>3, <1>4, <1>6, <1>10, SameReplies DEF Logical!Look, MapReply
<1> QED
  BY <1>5, <1>7, <1>8, <1>9, <1>10

LEMMA ScanImplements ==
    ASSUME Steady(world), Steady(world'), NEW cmd \in ScanCmd,
           Told(cmd, RunCmd(world, cmd))
    PROVE  Logical!Scan(cmd)
<1> DEFINE w == EnterExecutionUnit(world)
           r == Exec(w, cmd)
           there == {k \in Key : Logical!Exists(k)}
           present == {k \in Key : w.slots[k].present}
<1>1. /\ Steady(w) /\ Seen(w) = SnapshotVisible /\ w.clock = world.clock
      /\ SnapshotVisible' = Seen(r.world) /\ Logical!Answer(cmd, r.reply)
  BY RequestSeen DEF Command
<1>2. cmd.op \in {"Keys", "DbSize"}
  BY DEF ScanCmd
<1>3. /\ r.world = w
      /\ cmd.op = "Keys" => r.reply = KeySetReply(VisibleKeys(w))
      /\ cmd.op = "DbSize" => r.reply = IntReply(Cardinality(present))
  BY <1>2 DEF Exec, LookupOp, CmdKeys, CmdDbSize, Result
<1> HIDE DEF w, r
<1>4. \A k \in Key : Seen(w)[k] # Nothing <=> k \in VisibleKeys(w)
  BY <1>1, SeenIs
<1> HIDE DEF SnapshotVisible
<1>5. there = VisibleKeys(w)
  BY <1>1, <1>4, SameReplies DEF Logical!Exists, VisibleKeys
<1>6. Cardinality(present) \in Cardinality(there)..Cardinality(Key)
  <2>1. there \subseteq present /\ present \subseteq Key /\ IsFiniteSet(Key)
    BY <1>5, KeysAssumption DEF VisibleKeys
  <2> HIDE DEF there, present
  <2>2. /\ IsFiniteSet(present) /\ Cardinality(present) <= Cardinality(Key)
    BY <2>1, FS_Subset
  <2>3. /\ IsFiniteSet(there) /\ Cardinality(there) <= Cardinality(present)
    BY <2>1, <2>2, FS_Subset
  <2>4. Cardinality(there) \in Nat /\ Cardinality(present) \in Nat /\ Cardinality(Key) \in Nat
    BY <2>1, <2>2, <2>3, FS_CardinalityType
  <2> QED
    BY <2>2, <2>3, <2>4
<1> HIDE DEF present
<1>7. CASE cmd.op = "Keys"
  BY <1>1, <1>3, <1>5, <1>7, SameReplies DEF Logical!Scan
<1>8. CASE cmd.op = "DbSize"
  BY <1>1, <1>3, <1>6, <1>8, SameReplies, SameCardinality DEF Logical!Scan
<1> QED
  BY <1>2, <1>7, <1>8

\* Every request of a client is one of the map.
LEMMA RequestImplements ==
    ASSUME Steady(world), Steady(world'), Request PROVE Logical!Request
<1>1. PICK cmd \in Command : Told(cmd, RunCmd(world, cmd))
  BY DEF Request, Told
<1>2. world'.clock = world.clock
  BY <1>1, RequestSeen
<1>3. CASE cmd \in SetCmd
  BY <1>1, <1>2, <1>3, SetImplements, SameCommands DEF Logical!Request
<1>4. CASE cmd \in ExpireCmd
  BY <1>1, <1>2, <1>4, ExpireImplements, SameCommands DEF Logical!Request
<1>5. CASE cmd \in RemoveCmd
  BY <1>1, <1>2, <1>5, RemoveImplements, SameCommands DEF Logical!Request
<1>6. CASE cmd \in LookupCmd
  BY <1>1, <1>2, <1>6, LookImplements, SameCommands DEF Logical!Request
<1>7. CASE cmd \in ScanCmd
  BY <1>1, <1>2, <1>7, ScanImplements, SameCommands DEF Logical!Request
<1>8. CASE cmd \in WatchCmd \cup UnwatchCmd
  <2>1. Logical!Register(cmd)
    <3> DEFINE w == EnterExecutionUnit(world)
               r == Exec(w, cmd)
    <3>1. /\ Steady(w) /\ Seen(w) = SnapshotVisible
          /\ SnapshotVisible' = Seen(r.world) /\ Logical!Answer(cmd, r.reply)
      BY <1>1, RequestSeen
    <3>2. Seen(r.world) = Seen(w) /\ r.reply = OkReply
      BY <1>8, <3>1, WatchSeen
    <3> HIDE DEF w, r, SnapshotVisible
    <3> QED
      BY <3>1, <3>2, SameReplies DEF Logical!Register
  <2> QED
    BY <1>2, <1>8, <2>1, SameCommands DEF Logical!Request
<1> QED
  BY <1>3, <1>4, <1>5, <1>6, <1>7, <1>8 DEF Command, KeyCmd

-----------------------------------------------------------------------------
(***************************************************************************)
(* Time and the active cycle                                               *)
(***************************************************************************)
\* The cycle takes away the keys that are due, of which the map may take any.
LEMMA CycleImplements ==
    ASSUME Steady(world), Steady(world'), world.nesting = 0, ActiveExpire, UNCHANGED last
    PROVE  Logical!Lapse \/ UNCHANGED Logical!storeVars
<1> DEFINE w == EnterExecutionUnit(world)
           due == {k \in Key : w.slots[k].present /\ ActiveCycleWouldExpire(w, k)}
           u == DeleteExpiredAndPropagate(w, due)
           ks == {k \in Key : Logical!Due(SnapshotVisible[k].at)}
<1>1. Sound(w) /\ w.mode = world.mode /\ w.slots = world.slots /\ w.clock = world.clock
  BY EnterKeeps DEF Steady
<1>2. SnapshotVisible = Seen(world) /\ SnapshotVisible' = Seen(world')
  BY SnapshotIsSeen, SnapshotIsSeenNext
<1>3. CASE w.mode.role = "ReadOnlyReplica" \/ w.mode.expire_paused
  <2>1. world' = ExitExecutionUnit(w)
    BY <1>3 DEF ActiveExpire, RunActiveExpire, ActiveExpireCycle
  <2> HIDE DEF w
  <2>2. world'.slots = world.slots /\ world'.clock = world.clock
    BY <1>1, <2>1, ExitKeeps DEF Sound
  <2>3. Seen(world') = Seen(world)
    BY <2>2, SeenSame
  <2> HIDE DEF SnapshotVisible
  <2> QED
    BY <1>2, <2>2, <2>3 DEF Logical!storeVars
<1>4. CASE ~(w.mode.role = "ReadOnlyReplica" \/ w.mode.expire_paused)
  <2>1. world' = ExitExecutionUnit(u)
    BY <1>4 DEF ActiveExpire, RunActiveExpire, ActiveExpireCycle
  <2>2. due \in SUBSET Key
    OBVIOUS
  <2> HIDE DEF w
  <2>3. /\ Sound(u) /\ u.clock = w.clock
        /\ u.slots = [k \in Key |-> IF k \in due THEN AbsentSlot ELSE w.slots[k]]
    <3> HIDE DEF due
    <3> QED
      BY <1>1, <2>2, DeleteExpiredSound
  <2> HIDE DEF u
  <2>4. world'.slots = u.slots /\ world'.clock = world.clock
    BY <1>1, <2>1, <2>3, ExitKeeps DEF Sound
  <2>5. \A k \in Key : Seen(world')[k] = IF k \in ks THEN Nothing ELSE Seen(world)[k]
    <3> SUFFICES ASSUME NEW k \in Key
                 PROVE  Seen(world')[k] = IF k \in ks THEN Nothing ELSE Seen(world)[k]
      OBVIOUS
    <3> DEFINE slot == world.slots[k]
               entry == [value |-> slot.value, at |-> slot.expire_at]
    <3>1. /\ Seen(world)[k] = Glimpse(slot, world.clock)
          /\ Seen(world')[k] = Glimpse(world'.slots[k], world.clock)
      BY <2>4, SeenIs
    <3>2. k \in due <=> slot.present /\ slot.expire_at # NoExpire
                         /\ world.clock >= slot.expire_at
      BY <1>1 DEF due, ActiveCycleWouldExpire
    <3>3. world'.slots[k] = IF k \in due THEN AbsentSlot ELSE slot
      BY <1>1, <2>3, <2>4
    <3>4. k \in ks <=> Seen(world)[k].at # NoExpire /\ Seen(world)[k].at <= world.clock
      BY <1>2, SameReplies DEF Logical!Due
    <3>5. slot.expire_at \in Int /\ world.clock \in Int
      BY SlotTypes, DeadlineIsInt DEF Steady
    <3>6. Glimpse(AbsentSlot, world.clock) = Nothing /\ Nothing.at = NoExpire
          /\ entry.at = slot.expire_at
      BY DEF Glimpse, AbsentSlot, Nothing
    <3>7. Glimpse(slot, world.clock)
            = IF slot.present /\ ~(slot.expire_at # NoExpire /\ world.clock > slot.expire_at)
              THEN entry ELSE Nothing
      BY DEF Glimpse
    <3> HIDE DEF ks, due, slot, entry
    <3>8. CASE k \in due
      <4>1. Seen(world')[k] = Nothing
        BY <3>1, <3>3, <3>6, <3>8
      <4>2. k \notin ks => Seen(world)[k] = Nothing
        BY <3>1, <3>2, <3>4, <3>5, <3>6, <3>7, <3>8
      <4> QED
        BY <4>1, <4>2
    <3>9. CASE k \notin due
      <4>1. Seen(world')[k] = Seen(world)[k]
        BY <3>1, <3>3, <3>9
      <4>2. k \notin ks
        BY <3>1, <3>2, <3>4, <3>5, <3>6, <3>7, <3>9
      <4> QED
        BY <4>1, <4>2
    <3> QED
      BY <3>8, <3>9
  <2>6. Seen(world') = [k \in Key |-> IF k \in ks THEN Nothing ELSE Seen(world)[k]]
    <3> HIDE DEF ks
    <3>1. Seen(world') = [k \in Key |-> Seen(world')[k]]
      BY DEF Seen
    <3> QED
      BY <2>5, <3>1
  <2>7. ks \in SUBSET {k \in Key : Logical!Due(SnapshotVisible[k].at)}
    OBVIOUS
  <2> HIDE DEF ks, SnapshotVisible
  <2>8. SnapshotVisible' = [k \in Key |-> IF k \in ks THEN Nothing ELSE SnapshotVisible[k]]
    BY <1>2, <2>6
  <2> QED
    BY <2>4, <2>7, <2>8, SameReplies DEF Logical!Lapse
<1> QED
  BY <1>3, <1>4

\* A tick takes out of sight the keys whose deadline it passes.
LEMMA TickImplements ==
    ASSUME Steady(world), Steady(world'), ClockTick, UNCHANGED last
    PROVE  Logical!Pass
<1>1. PICK d \in Ticks : world.clock + d <= MaxClock /\ world' = RunClockTick(world, d)
  BY DEF ClockTick
<1>2. SnapshotVisible = Seen(world) /\ SnapshotVisible' = Seen(world')
  BY SnapshotIsSeen, SnapshotIsSeenNext
<1>3. world'.slots = world.slots /\ world'.clock = world.clock + d
  BY <1>1 DEF RunClockTick, Steady, Sound, World
<1>4. d \in Nat /\ world.clock \in Nat
  BY TimesAssumption DEF Steady, Sound, World
<1> DEFINE gone(k) == Seen(world)[k].at # NoExpire /\ Seen(world)[k].at < world'.clock
<1>5. \A k \in Key : Seen(world')[k] = IF gone(k) THEN Nothing ELSE Seen(world)[k]
  <2> SUFFICES ASSUME NEW k \in Key
               PROVE  Seen(world')[k] = IF gone(k) THEN Nothing ELSE Seen(world)[k]
    OBVIOUS
  <2> DEFINE slot == world.slots[k]
             entry == [value |-> slot.value, at |-> slot.expire_at]
  <2>1. /\ Seen(world)[k] = Glimpse(slot, world.clock)
        /\ Seen(world')[k] = Glimpse(slot, world'.clock)
    BY <1>3, SeenIs
  <2>2. slot.expire_at \in Int
    BY SlotTypes, DeadlineIsInt DEF Steady
  <2>3. Nothing.at = NoExpire /\ entry.at = slot.expire_at
    BY DEF Nothing
  <2>4. /\ Glimpse(slot, world.clock)
             = IF slot.present /\ ~(slot.expire_at # NoExpire /\ world.clock > slot.expire_at)
               THEN entry ELSE Nothing
        /\ Glimpse(slot, world'.clock)
             = IF slot.present /\ ~(slot.expire_at # NoExpire /\ world'.clock > slot.expire_at)
               THEN entry ELSE Nothing
    BY DEF Glimpse
  <2> HIDE DEF slot, entry
  <2> QED
    BY <1>3, <1>4, <2>1, <2>2, <2>3, <2>4
<1>6. Seen(world') = [k \in Key |-> IF gone(k) THEN Nothing ELSE Seen(world)[k]]
  <2> HIDE DEF gone
  <2>1. Seen(world') = [k \in Key |-> Seen(world')[k]]
    BY DEF Seen
  <2> QED
    BY <1>5, <2>1
<1> HIDE DEF SnapshotVisible
<1> QED
  BY <1>1, <1>2, <1>3, <1>6, SameReplies DEF Logical!Pass

-----------------------------------------------------------------------------
\* A drawn world is a map whose deadlines have not passed.
LEMMA InitImplements == ObservedInit => Logical!StoreInit
<1> SUFFICES ASSUME ObservedInit PROVE Logical!StoreInit
  OBVIOUS
<1>1. PICK clock \in 0..MaxClock, mode \in Modes : world \in NondetWorld(clock, mode)
  BY DEF ObservedInit, Init
<1>2. PICK slots \in [Key -> DrawnSlot] : world = NewWorld(slots, clock, mode)
  BY <1>1 DEF NondetWorld
<1>3. world.slots = slots /\ world.clock = clock /\ world.mode = mode
  BY <1>2 DEF NewWorld
<1>4. Steady(world)
  BY <1>3, InitIInv, HidingAssumption DEF ObservedInit, IInv, Steady, HidingModes
<1>5. SnapshotVisible = Seen(world)
  BY <1>4, SnapshotIsSeen
<1>6. \A k \in Key : /\ Seen(world)[k] \in Logical!Entry \cup {Logical!Absent}
                     /\ ~Logical!Elapsed(Seen(world)[k].at)
  <2> SUFFICES ASSUME NEW k \in Key
               PROVE  /\ Seen(world)[k] \in Logical!Entry \cup {Logical!Absent}
                      /\ ~Logical!Elapsed(Seen(world)[k].at)
    OBVIOUS
  <2> DEFINE slot == world.slots[k]
  <2>1. Seen(world)[k] = Glimpse(slot, world.clock)
    BY <1>4, SeenIs
  <2>2. slot \in DrawnSlot
    BY <1>2, <1>3
  <2>3. slot.expire_at \in Int /\ world.clock \in Int
    BY <1>4, SlotTypes, DeadlineIsInt DEF Steady
  <2> HIDE DEF slot
  <2>4. slot.present => slot.value \in Value /\ slot.expire_at \in ExpireTimes \cup {NoExpire}
    <3>1. CASE slot = AbsentSlot
      BY <3>1 DEF AbsentSlot
    <3>2. CASE slot # AbsentSlot
      BY <2>2, <3>2 DEF DrawnSlot
    <3> QED
      BY <3>1, <3>2
  <2>5. CASE Seen(world)[k] = Nothing
    BY <2>5, SameReplies DEF Logical!Elapsed, Nothing
  <2>6. CASE Seen(world)[k] # Nothing
    <3>1. /\ Seen(world)[k] = [value |-> slot.value, at |-> slot.expire_at]
          /\ slot.present
          /\ ~(slot.expire_at # NoExpire /\ world.clock > slot.expire_at)
      BY <2>1, <2>6 DEF Glimpse
    <3> QED
      BY <2>3, <2>4, <3>1, SameReplies DEF Logical!Elapsed, Logical!Entry
  <2> QED
    BY <2>5, <2>6
<1>7. SnapshotVisible \in [Key -> Logical!Entry \cup {Logical!Absent}]
  BY <1>5, <1>6 DEF Seen
<1>8. last = Logical!NothingYet
  BY SameReplies DEF ObservedInit, Logical!NothingYet
<1> HIDE DEF SnapshotVisible
<1> QED
  BY <1>1, <1>3, <1>5, <1>6, <1>7, <1>8 DEF Logical!StoreInit

\* What the caller's mode says is settled when the world is drawn.
LEMMA SoundIsSteady ==
    ASSUME IInv PROVE Steady(world)
<1>1. world.mode \in Modes
  BY DEF IInv, Sound, World
<1> QED
  BY <1>1, HidingAssumption DEF IInv, Steady, HidingModes

LEMMA SoundIsSteadyNext ==
    ASSUME IInv' PROVE Steady(world')
<1>1. Sound(world')
  BY DEF IInv, Sound, TableIsConsistent, AbsentSlotsAreBlank, FlagsAreFresh, KeyIsExpired,
     Watchers
<1>2. world'.mode \in Modes
  BY <1>1 DEF Sound, World
<1> QED
  BY <1>1, <1>2, HidingAssumption DEF Steady, HidingModes

\* An observed step is a step of the model.
LEMMA ObservedIsNext == [ObservedNext]_observedVars => [Next]_vars
<1> SUFFICES ASSUME [ObservedNext]_observedVars PROVE [Next]_vars
  OBVIOUS
<1>1. CASE Request
  <2>1. PICK cmd \in Command : world' = RunCmd(world, cmd).world
    BY <1>1 DEF Request
  <2>2. Perform(cmd)
    BY <2>1 DEF Perform
  <2>3. CASE cmd \in SetCmd
    BY <2>2, <2>3 DEF Next, DoSet
  <2>4. CASE cmd \in ExpireCmd
    BY <2>2, <2>4 DEF Next, DoExpire
  <2>5. CASE cmd \in RemoveCmd
    BY <2>2, <2>5 DEF Next, DoDel, DoPersist, RemoveCmd
  <2>6. CASE cmd \in LookupCmd
    BY <2>2, <2>6 DEF Next, DoGet, DoExists, DoType, DoPttl, LookupCmd, LookupOp
  <2>7. CASE cmd \in ScanCmd
    BY <2>2, <2>7 DEF Next, DoKeys, DoDbSize, ScanCmd
  <2>8. CASE cmd \in WatchCmd \cup UnwatchCmd
    BY <2>2, <2>8 DEF Next, DoWatch, DoUnwatch
  <2> QED
    BY <2>3, <2>4, <2>5, <2>6, <2>7, <2>8 DEF Command, KeyCmd
<1>2. CASE Background
  BY <1>2 DEF Background, Next
<1>3. CASE UNCHANGED observedVars
  BY <1>3 DEF observedVars, vars
<1> QED
  BY <1>1, <1>2, <1>3 DEF ObservedNext

\* Every step of the model is one of the map, or none.
LEMMA StepImplements ==
    IInv /\ IInv' /\ [ObservedNext]_observedVars => [Logical!StoreNext]_(Logical!storeVars)
<1> SUFFICES ASSUME IInv, IInv', [ObservedNext]_observedVars
             PROVE  [Logical!StoreNext]_(Logical!storeVars)
  OBVIOUS
<1>1. Steady(world) /\ Steady(world') /\ world.nesting = 0
  BY SoundIsSteady, SoundIsSteadyNext DEF IInv
<1>2. CASE Request
  BY <1>1, <1>2, RequestImplements DEF Logical!StoreNext
<1>3. CASE ActiveExpire /\ UNCHANGED last
  BY <1>1, <1>3, CycleImplements DEF Logical!StoreNext
<1>4. CASE ClockTick /\ UNCHANGED last
  BY <1>1, <1>4, TickImplements DEF Logical!StoreNext
<1>5. CASE UNCHANGED observedVars
  <2>1. SnapshotVisible' = SnapshotVisible /\ world'.clock = world.clock /\ last' = last
    BY <1>5 DEF observedVars, SnapshotVisible, VisibleKeys, KeyIsExpired
  <2> HIDE DEF SnapshotVisible
  <2> QED
    BY <2>1 DEF Logical!storeVars
<1> QED
  BY <1>2, <1>3, <1>4, <1>5 DEF ObservedNext, Background

\* However commands, active cycles and clock ticks interleave, and whatever is
\* deleted lazily, hidden in place or propagated on the way, what a client reads
\* is what a map of keys to values with deadlines would tell it: for any keys,
\* values, deadlines and clients, in every mode that hides expired keys.
THEOREM StoreIsImplemented == ObservedSpec => ImplementsLogicalStore
<1>1. ObservedInit => IInv
  BY InitIInv DEF ObservedInit
<1>2. IInv /\ [ObservedNext]_observedVars => IInv'
  BY ObservedIsNext, NextIInv
<1>3. ObservedSpec => []IInv
  BY <1>1, <1>2, PTL DEF ObservedSpec
<1>4. ObservedSpec => Logical!StoreInit /\ [][Logical!StoreNext]_(Logical!storeVars)
  BY <1>3, InitImplements, StepImplements, PTL DEF ObservedSpec
<1> QED
  BY <1>4 DEF ImplementsLogicalStore, Logical!StoreSpec

-----------------------------------------------------------------------------
(***************************************************************************)
(* Watches                                                                 *)
(*                                                                         *)
(* Guards(w, u) says it of one operation: a client that still watches a    *)
(* key afterwards sees of it what it saw before, and a client that became  *)
(* dirty watches nothing.  It is transitive, so a command is again a short *)
(* composition of lookups and writes.  What makes a touch reach every      *)
(* watcher is the soundness of the world, from StepProofs: with no stale   *)
(* flag on the key, nothing blocks.  Time is the other half: a tick changes*)
(* what is seen only by letting a deadline pass, which Lapsed allows.      *)
(***************************************************************************)
\* From w to u, time standing still, no standing watch missed a change.
Guards(w, u) ==
    /\ u.clock = w.clock /\ u.mode = w.mode
    /\ \A c \in Client :
         /\ u.clients[c].watching \subseteq w.clients[c].watching
         /\ w.clients[c].dirty_cas => u.clients[c].dirty_cas
         /\ ~w.clients[c].dirty_cas /\ u.clients[c].dirty_cas => u.clients[c].watching = {}
    /\ ForcesDelete(w.mode) =>
         \A c \in Client, k \in Key :
            k \in u.clients[c].watching => LogicalSlot(u, k) = LogicalSlot(w, k)

LEMMA GuardsReflexive == ASSUME NEW w PROVE Guards(w, w)
  BY DEF Guards

LEMMA GuardsTransitive ==
    ASSUME NEW w, NEW u, NEW v, Guards(w, u), Guards(u, v)
    PROVE  Guards(w, v)
<1>1. \A c \in Client :
         /\ v.clients[c].watching \subseteq w.clients[c].watching
         /\ w.clients[c].dirty_cas => v.clients[c].dirty_cas
         /\ ~w.clients[c].dirty_cas /\ v.clients[c].dirty_cas => v.clients[c].watching = {}
  <2> SUFFICES ASSUME NEW c \in Client
               PROVE  /\ v.clients[c].watching \subseteq w.clients[c].watching
                      /\ w.clients[c].dirty_cas => v.clients[c].dirty_cas
                      /\ ~w.clients[c].dirty_cas /\ v.clients[c].dirty_cas
                           => v.clients[c].watching = {}
    OBVIOUS
  <2> QED
    BY DEF Guards
<1>2. ForcesDelete(w.mode) =>
         \A c \in Client, k \in Key :
            k \in v.clients[c].watching => LogicalSlot(v, k) = LogicalSlot(w, k)
  BY DEF Guards
<1> QED
  BY <1>1, <1>2 DEF Guards

\* What is seen depends on slots, clock and mode only.
LEMMA LogicalSame ==
    ASSUME NEW w, NEW u, NEW k \in Key, u.slots[k] = w.slots[k], u.clock = w.clock,
           u.mode = w.mode
    PROVE  LogicalSlot(u, k) = LogicalSlot(w, k)
  BY DEF LogicalSlot, VisibleKeys, KeyIsExpired

-----------------------------------------------------------------------------
\* touch_watched_key takes all its watches from a client that it reaches and that
\* had no flag on the key, and dirties nobody else.
LEMMA TouchReleases ==
    ASSUME NEW w \in World, TableIsConsistent(w), NEW ks \in SUBSET Key
    PROVE  LET u == Touch(w, ks)
           IN \A c \in Client :
                /\ u.clients[c].watching \subseteq w.clients[c].watching
                /\ w.clients[c].dirty_cas => u.clients[c].dirty_cas
                /\ ~w.clients[c].dirty_cas /\ u.clients[c].dirty_cas
                     => u.clients[c].watching = {}
                /\ \A k \in ks :
                     c \in Reached(w, k) /\ k \notin w.clients[c].watched_expired
                       => u.clients[c].watching = {}
<1> DEFINE u == Touch(w, ks)
           dirtied == {c \in Client : \E k \in ks :
                         c \in Reached(w, k) /\ k \notin w.clients[c].watched_expired}
           cleared(c) == {k \in ks : c \in Reached(w, k)}
           after(c) == IF c \in dirtied
                       THEN [w.clients[c] EXCEPT !.dirty_cas = TRUE]
                       ELSE [w.clients[c] EXCEPT !.watched_expired = @ \ cleared(c)]
           flagged == [w EXCEPT !.clients = [c \in Client |-> after(c)]]
<1>1. u = UnwatchAll(flagged, dirtied)
  BY DEF Touch
<1>2. flagged.clients = [c \in Client |-> after(c)]
  BY DEF World
<1>3. u.clients = [c \in Client |->
           IF c \in dirtied
           THEN [watching |-> {},
                 watched_expired |-> flagged.clients[c].watched_expired
                                       \ flagged.clients[c].watching,
                 dirty_cas |-> flagged.clients[c].dirty_cas]
           ELSE flagged.clients[c]]
  <2> HIDE DEF after, dirtied
  <2> QED
    BY <1>1 DEF UnwatchAll, World
<1>4. \A c \in Client :
        /\ after(c).watching = w.clients[c].watching
        /\ c \in dirtied => after(c).dirty_cas
        /\ c \notin dirtied => after(c).dirty_cas = w.clients[c].dirty_cas
  <2>1. \A c \in Client : w.clients[c] \in ClientState
    BY DEF World
  <2> HIDE DEF dirtied, cleared
  <2> QED
    BY <2>1 DEF ClientState
<1>5. \A c \in Client : \A k \in ks :
        c \in Reached(w, k) /\ k \notin w.clients[c].watched_expired => c \in dirtied
  OBVIOUS
<1> HIDE DEF u, after, flagged, dirtied
<1>6. \A c \in Client :
        /\ c \in dirtied => u.clients[c].watching = {} /\ u.clients[c].dirty_cas
        /\ c \notin dirtied => /\ u.clients[c].watching = w.clients[c].watching
                               /\ u.clients[c].dirty_cas = w.clients[c].dirty_cas
  BY <1>2, <1>3, <1>4
<1> QED
  BY <1>5, <1>6 DEF u

\* A deletion of expired keys hides nothing from a standing watch: a watcher loses
\* its watches, unless it had seen the key expired already.
LEMMA DeleteExpiredGuards ==
    ASSUME NEW w, Sound(w), NEW ks \in SUBSET Key
    PROVE  Guards(w, DeleteExpiredAndPropagate(w, ks))
<1> DEFINE u == DeleteExpiredAndPropagate(w, ks)
           order == SetToSeq(ks)
           dels == [i \in DOMAIN order |-> DelEffect(order[i])]
           slots == [k \in Key |-> IF k \in ks THEN AbsentSlot ELSE w.slots[k]]
           v == [w EXCEPT !.slots = slots, !.repl = Push(@, dels),
                          !.dirty = @ + Cardinality(ks)]
<1>1. u = Touch(v, ks)
  BY DEF DeleteExpiredAndPropagate
<1>2. /\ v.slots = slots /\ v.clock = w.clock /\ v.mode = w.mode
      /\ v.nesting = w.nesting /\ v.watched = w.watched /\ v.clients = w.clients
  BY DEF Sound, World
<1>3. v \in World
  <2>1. slots \in [Key -> Slot]
    BY DEF Sound, World, Slot, AbsentSlot
  <2>2. dels \in Seq(Effect)
    <3>1. order \in [1..Cardinality(ks) -> ks] /\ Cardinality(ks) \in Nat
      BY SetToSeqType
    <3>2. \A i \in 1..Cardinality(ks) : DelEffect(order[i]) \in Effect
      BY <3>1 DEF DelEffect, Effect
    <3>3. dels = [i \in 1..Cardinality(ks) |-> DelEffect(order[i])]
      BY <3>1
    <3> HIDE DEF order
    <3> QED
      BY <3>1, <3>2, <3>3, SeqDef
  <2>3. Push(w.repl, dels) \in Seq(Effect)
    BY <2>2, PushType DEF Sound, World
  <2>4. w.dirty + Cardinality(ks) \in Nat
    BY SetToSeqType DEF Sound, World
  <2> HIDE DEF slots, dels
  <2> QED
    BY <2>1, <2>3, <2>4 DEF Sound, World
<1>4. TableIsConsistent(v)
  BY <1>2 DEF Sound, TableIsConsistent, Watchers
<1> HIDE DEF v
<1>5. \A k \in ks : Reached(v, k) = Watchers(w, k)
  <2>1. \A k \in ks : ~v.slots[k].present
    BY <1>2 DEF AbsentSlot
  <2> QED
    BY <1>2, <2>1 DEF Reached, Blocks, Watchers, Members
<1>6. /\ u.clock = w.clock /\ u.mode = w.mode /\ u.slots = slots
      /\ \A c \in Client :
           /\ u.clients[c].watching \subseteq w.clients[c].watching
           /\ w.clients[c].dirty_cas => u.clients[c].dirty_cas
           /\ ~w.clients[c].dirty_cas /\ u.clients[c].dirty_cas => u.clients[c].watching = {}
           /\ \A k \in ks :
                c \in Reached(v, k) /\ k \notin w.clients[c].watched_expired
                  => u.clients[c].watching = {}
  BY <1>1, <1>2, <1>3, <1>4, TouchKeeps, TouchReleases
<1> HIDE DEF u
<1>7. ASSUME ForcesDelete(w.mode), NEW c \in Client, NEW k \in Key,
             k \in u.clients[c].watching
      PROVE  LogicalSlot(u, k) = LogicalSlot(w, k)
  <2>1. CASE k \notin ks
    BY <1>6, <2>1, LogicalSame
  <2>2. CASE k \in ks
    <3>1. c \in Watchers(w, k)
      BY <1>6, <1>7 DEF Sound, TableIsConsistent
    <3>2. k \in w.clients[c].watched_expired
      BY <1>5, <1>6, <1>7, <2>2, <3>1
    <3>3. KeyIsExpired(w, k)
      BY <1>7, <3>2 DEF Sound, FlagsAreFresh
    <3>4. LogicalSlot(w, k) = AbsentSlot
      BY <3>3 DEF LogicalSlot, VisibleKeys
    <3>5. LogicalSlot(u, k) = AbsentSlot
      BY <1>6, <2>2 DEF LogicalSlot
    <3> QED
      BY <3>4, <3>5
  <2> QED
    BY <2>1, <2>2
<1> QED
  BY <1>6, <1>7 DEF Guards, u

\* So a lookup, which deletes its key or leaves the world alone.
LEMMA LookupGuards ==
    ASSUME NEW w, Sound(w), NEW k \in Key, NEW flags
    PROVE  Guards(w, Lookup(w, k, flags).world)
<1> DEFINE d == DeleteExpiredAndPropagate(w, {k})
<1>1. Lookup(w, k, flags).world \in {w, d}
  BY DEF Lookup, Found, ExpireIfNeeded
<1>2. Guards(w, d)
  BY DeleteExpiredGuards
<1> HIDE DEF d
<1> QED
  BY <1>1, <1>2, GuardsReflexive

\* The tail of a write takes its watches from every watcher of the key.
LEMMA WriteSlotGuards ==
    ASSUME NEW w, Sound(w), NEW k \in Key, NEW slot \in Slot, NEW effect,
           ForcesDelete(w.mode) => Unflagged(w, k)
    PROVE  Guards(w, WriteSlot(w, k, slot, effect))
<1> DEFINE v == [w EXCEPT !.slots[k] = slot, !.dirty = @ + 1]
           t == Touch(v, {k})
           u == WriteSlot(w, k, slot, effect)
<1>1. u = [t EXCEPT !.repl = Push(@, <<effect>>)]
  BY DEF WriteSlot
<1>2. /\ v.slots = [w.slots EXCEPT ![k] = slot] /\ v.clock = w.clock
      /\ v.mode = w.mode /\ v.watched = w.watched /\ v.clients = w.clients
  BY DEF Sound, World
<1>3. v \in World
  <2>1. [w.slots EXCEPT ![k] = slot] \in [Key -> Slot] /\ w.dirty + 1 \in Nat
    BY DEF Sound, World
  <2> QED
    BY <2>1 DEF Sound, World
<1>4. TableIsConsistent(v)
  BY <1>2 DEF Sound, TableIsConsistent, Watchers
<1> HIDE DEF v
<1>5. ForcesDelete(w.mode) => Reached(v, k) = Watchers(w, k)
  BY <1>2 DEF Reached, Blocks, Unflagged, Watchers, Members
<1>6. /\ t \in World /\ t.clock = w.clock /\ t.mode = w.mode /\ t.slots = v.slots
      /\ \A c \in Client :
           /\ t.clients[c].watching \subseteq w.clients[c].watching
           /\ w.clients[c].dirty_cas => t.clients[c].dirty_cas
           /\ ~w.clients[c].dirty_cas /\ t.clients[c].dirty_cas => t.clients[c].watching = {}
           /\ c \in Reached(v, k) /\ k \notin w.clients[c].watched_expired
                => t.clients[c].watching = {}
  <2>1. t \in World /\ t.clock = v.clock /\ t.mode = v.mode /\ t.slots = v.slots
    BY <1>3, <1>4, TouchKeeps
  <2>2. \A c \in Client :
          /\ t.clients[c].watching \subseteq v.clients[c].watching
          /\ v.clients[c].dirty_cas => t.clients[c].dirty_cas
          /\ ~v.clients[c].dirty_cas /\ t.clients[c].dirty_cas => t.clients[c].watching = {}
          /\ \A j \in {k} : c \in Reached(v, j) /\ j \notin v.clients[c].watched_expired
                             => t.clients[c].watching = {}
    <3>1. {k} \in SUBSET Key
      OBVIOUS
    <3> QED
      BY <1>3, <1>4, <3>1, TouchReleases, Zenon
  <2> HIDE DEF t
  <2> QED
    BY <1>2, <2>1, <2>2
<1> HIDE DEF t
<1>7. /\ u.slots = v.slots /\ u.clock = w.clock /\ u.mode = w.mode
      /\ u.clients = t.clients
  BY <1>1, <1>6 DEF World
<1> HIDE DEF u
<1>8. ASSUME ForcesDelete(w.mode), NEW c \in Client, NEW j \in Key,
             j \in u.clients[c].watching
      PROVE  LogicalSlot(u, j) = LogicalSlot(w, j)
  <2>1. j # k
    <3> SUFFICES ASSUME j = k PROVE FALSE
      OBVIOUS
    <3>1. c \in Watchers(w, k)
      BY <1>6, <1>7, <1>8 DEF Sound, TableIsConsistent
    <3> QED
      BY <1>5, <1>6, <1>7, <1>8, <3>1 DEF Unflagged
  <2>2. u.slots[j] = w.slots[j]
    BY <1>2, <1>7, <2>1 DEF Sound, World
  <2> QED
    BY <1>7, <2>2, LogicalSame
<1> QED
  BY <1>6, <1>7, <1>8 DEF Guards, u

LEMMA DeleteSlotGuards ==
    ASSUME NEW w, Sound(w), NEW k \in Key, ForcesDelete(w.mode) => Unflagged(w, k)
    PROVE  Guards(w, DeleteSlot(w, k))
<1>1. AbsentSlot \in Slot
  BY DEF AbsentSlot, Slot
<1> QED
  BY <1>1, WriteSlotGuards DEF DeleteSlot

-----------------------------------------------------------------------------
(***************************************************************************)
(* The commands                                                            *)
(***************************************************************************)
\* A write lookup, and then nothing, a deletion or a write of the key
LEMMA WriteCmdGuards ==
    ASSUME NEW w, Sound(w), NEW k \in Key, NEW after, NEW slot \in Slot, NEW effect,
           LET u == LookupKeyWrite(w, k).world
           IN after \in {u, DeleteSlot(u, k), WriteSlot(u, k, slot, effect)}
    PROVE  Guards(w, after)
<1> DEFINE u == LookupKeyWrite(w, k).world
<1>1. Guards(w, u)
  BY LookupGuards DEF LookupKeyWrite
<1>2. Sound(u) /\ (ForcesDelete(u.mode) => Unflagged(u, k))
  BY LookupKeyWriteSound
<1>3. after \in {u, DeleteSlot(u, k), WriteSlot(u, k, slot, effect)}
  OBVIOUS
<1> HIDE DEF u
<1>4. Guards(u, DeleteSlot(u, k)) /\ Guards(u, WriteSlot(u, k, slot, effect))
  BY <1>2, DeleteSlotGuards, WriteSlotGuards
<1> QED
  BY <1>1, <1>3, <1>4, GuardsReflexive, GuardsTransitive

LEMMA CmdSetGuards ==
    ASSUME NEW w, Sound(w), NEW cmd, cmd.key \in Key, cmd.val \in Value,
           cmd.ttl \in TtlArg
    PROVE  Guards(w, CmdSet(w, cmd).world)
<1> DEFINE k == cmd.key
           read == IF cmd.get THEN LookupKeyRead(w, k)
                   ELSE [world |-> w, value |-> NoValue]
           v == read.world
           write == LookupKeyWrite(v, k)
           u == write.world
           at == NewExpire(u, k, cmd.ttl, write.value # NoValue)
           slot == [present |-> TRUE, value |-> cmd.val, expire_at |-> at]
           effect == SetEffect(k, cmd.val, at)
           after == CmdSet(w, cmd).world
<1>1. Sound(v) /\ Guards(w, v)
  <2>1. LET d == LookupKeyRead(w, k).world
        IN Sound(d) /\ Guards(w, d)
    BY LookupKeyReadSound, LookupGuards DEF Evolves, LookupKeyRead
  <2> QED
    BY <2>1, GuardsReflexive
<1>2. after \in {u, DeleteSlot(u, k), WriteSlot(u, k, slot, effect)}
  BY DEF CmdSet, SetAfterGet, SetFound, Result
<1> HIDE DEF v, after
<1>3. Sound(u)
  BY <1>1, LookupKeyWriteSound
<1>4. at \in ExpireTimes \cup {NoExpire}
  <2> HIDE DEF u, write
  <2> QED
    BY <1>3, NewExpireType
<1> HIDE DEF at
<1>5. slot \in Slot
  BY <1>4 DEF Slot
<1> HIDE DEF slot, effect
<1>6. Guards(v, after)
  BY <1>1, <1>2, <1>5, WriteCmdGuards
<1> QED
  BY <1>1, <1>6, GuardsTransitive DEF after

LEMMA KeyCmdGuards ==
    ASSUME NEW w, Sound(w), NEW cmd \in KeyCmd
    PROVE  Guards(w, Exec(w, cmd).world)
<1> DEFINE k == cmd.key
           u == LookupKeyWrite(w, k).world
           after == Exec(w, cmd).world
<1>1. CASE cmd \in SetCmd
  <2>1. /\ cmd.op = "Set" /\ cmd.key \in Key /\ cmd.val \in Value
        /\ cmd.ttl \in TtlArg
    BY <1>1 DEF SetCmd
  <2>2. Exec(w, cmd) = CmdSet(w, cmd)
    BY <2>1 DEF Exec, LookupOp
  <2> QED
    BY <2>1, <2>2, CmdSetGuards
<1>2. CASE cmd \in ExpireCmd
  <2> DEFINE slot == [u.slots[k] EXCEPT !.expire_at = cmd.at]
             effect == PExpireAtEffect(k, cmd.at)
  <2>1. cmd.op = "Expire" /\ k \in Key /\ cmd.at \in ExpireTimes
    BY <1>2 DEF ExpireCmd
  <2>2. Exec(w, cmd) = CmdExpire(w, k, cmd.at, cmd.cond)
    BY <2>1 DEF Exec, LookupOp
  <2>3. after \in {u, DeleteSlot(u, k), WriteSlot(u, k, slot, effect)}
    BY <2>2 DEF CmdExpire, ExpireFound, Result
  <2>4. u.slots[k] \in Slot
    BY <2>1, LookupKeyWriteSound DEF Sound, World
  <2> HIDE DEF u, after
  <2>5. slot \in Slot
    BY <2>1, <2>4 DEF Slot
  <2> HIDE DEF slot, effect
  <2> QED
    BY <2>1, <2>3, <2>5, WriteCmdGuards DEF u, after
<1>3. CASE cmd \in RemoveCmd
  <2> DEFINE slot == [u.slots[k] EXCEPT !.expire_at = NoExpire]
             effect == PersistEffect(k)
  <2>1. cmd.op \in {"Del", "Persist"} /\ k \in Key
    BY <1>3 DEF RemoveCmd
  <2>2. Exec(w, cmd) \in {CmdDel(w, k), CmdPersist(w, k)}
    BY <2>1 DEF Exec, LookupOp
  <2>3. after \in {u, DeleteSlot(u, k), WriteSlot(u, k, slot, effect)}
    BY <2>2 DEF CmdDel, DelFound, CmdPersist, PersistFound, Result
  <2>4. u.slots[k] \in Slot
    BY <2>1, LookupKeyWriteSound DEF Sound, World
  <2> HIDE DEF u, after
  <2>5. slot \in Slot
    BY <2>1, <2>4 DEF Slot
  <2> HIDE DEF slot, effect
  <2>6. Guards(w, after)
    BY <2>1, <2>3, <2>5, WriteCmdGuards DEF u
  <2> QED
    BY <2>6 DEF after
<1>4. CASE cmd \in LookupCmd
  <2>1. cmd.op \in LookupOp /\ k \in Key
    BY <1>4 DEF LookupCmd
  <2>2. Exec(w, cmd) = CmdLookup(w, cmd.op, k)
    BY <2>1 DEF Exec, LookupOp
  <2>3. after = Lookup(w, k, ReadFlags).world
    BY <2>2 DEF CmdLookup, Answered, Result, LookupKeyRead
  <2> QED
    BY <2>1, <2>3, LookupGuards
<1> QED
  BY <1>1, <1>2, <1>3, <1>4 DEF KeyCmd

-----------------------------------------------------------------------------
(***************************************************************************)
(* The steps                                                               *)
(***************************************************************************)
\* What a step other than a tick does to watches: Guards but for new ones.
Faithful(w, u) ==
    /\ u.clock = w.clock /\ u.mode = w.mode
    /\ \A c \in Client :
         /\ w.clients[c].dirty_cas => u.clients[c].dirty_cas
         /\ ~w.clients[c].dirty_cas /\ u.clients[c].dirty_cas => u.clients[c].watching = {}
    /\ ForcesDelete(w.mode) =>
         \A c \in Client, k \in Key :
            k \in w.clients[c].watching /\ k \in u.clients[c].watching
              => LogicalSlot(u, k) = LogicalSlot(w, k)

LEMMA GuardsIsFaithful == ASSUME NEW w, NEW u, Guards(w, u) PROVE Faithful(w, u)
  BY DEF Guards, Faithful

\* The counters of the execution unit do not matter.
LEMMA FaithfulSame ==
    ASSUME NEW w, NEW v, NEW u, NEW done, Faithful(v, done),
           v.slots = w.slots, v.clock = w.clock, v.mode = w.mode, v.clients = w.clients,
           u.slots = done.slots, u.clock = done.clock, u.mode = done.mode,
           u.clients = done.clients
    PROVE  Faithful(w, u)
<1>1. \A k \in Key : /\ LogicalSlot(v, k) = LogicalSlot(w, k)
                     /\ LogicalSlot(u, k) = LogicalSlot(done, k)
  BY LogicalSame
<1> QED
  BY <1>1 DEF Faithful

\* WATCH and UNWATCH touch no slot and dirty nobody.
LEMMA WatchFaithful ==
    ASSUME NEW w, Sound(w), NEW cmd \in WatchCmd \cup UnwatchCmd
    PROVE  Faithful(w, Exec(w, cmd).world)
<1> DEFINE u == Exec(w, cmd).world
<1>1. /\ u.slots = w.slots /\ u.clock = w.clock /\ u.mode = w.mode
      /\ \A c \in Client : u.clients[c].dirty_cas = w.clients[c].dirty_cas
  <2>1. CASE cmd \in WatchCmd
    <3>1. cmd.op = "Watch" /\ cmd.client \in Client /\ cmd.key \in Key
      BY <2>1 DEF WatchCmd
    <3>2. u = WatchKey(w, cmd.client, cmd.key)
      BY <3>1 DEF Exec, Result, LookupOp
    <3> HIDE DEF u
    <3>3. /\ u.slots = w.slots /\ u.clock = w.clock /\ u.mode = w.mode
      BY <3>2 DEF WatchKey, Sound, World
    <3>4. \A c \in Client : u.clients[c].dirty_cas = w.clients[c].dirty_cas
      <4> SUFFICES ASSUME NEW c \in Client
                   PROVE  u.clients[c].dirty_cas = w.clients[c].dirty_cas
        OBVIOUS
      <4>1. w.clients \in [Client -> ClientState]
        BY DEF Sound, World
      <4> QED
        BY <3>1, <3>2, <4>1 DEF WatchKey, Sound, World, ClientState
    <3> QED
      BY <3>3, <3>4 DEF u
  <2>2. CASE cmd \in UnwatchCmd
    <3>1. cmd.op = "Unwatch" /\ cmd.client \in Client
      BY <2>2 DEF UnwatchCmd
    <3>2. u = UnwatchAll(w, {cmd.client})
      BY <3>1 DEF Exec, Result, LookupOp
    <3> HIDE DEF u
    <3>3. /\ u.slots = w.slots /\ u.clock = w.clock /\ u.mode = w.mode
          /\ \A c \in Client \ {cmd.client} : u.clients[c] = w.clients[c]
          /\ \A c \in {cmd.client} : u.clients[c].dirty_cas = w.clients[c].dirty_cas
      <4> DEFINE v == UnwatchAll(w, {cmd.client})
      <4>1. /\ v.slots = w.slots /\ v.clock = w.clock /\ v.mode = w.mode
            /\ \A c \in Client \ {cmd.client} : v.clients[c] = w.clients[c]
            /\ \A c \in {cmd.client} : v.clients[c].dirty_cas = w.clients[c].dirty_cas
        <5>1. {cmd.client} \in SUBSET Client /\ w \in World /\ TableIsConsistent(w)
          BY <3>1 DEF Sound
        <5> QED
          BY <5>1, UnwatchAllKeeps
      <4> HIDE DEF v
      <4> QED
        BY <3>2, <4>1 DEF v
    <3> QED
      BY <3>3 DEF u
  <2> QED
    BY <2>1, <2>2
<1> HIDE DEF u
<1>2. \A k \in Key : LogicalSlot(u, k) = LogicalSlot(w, k)
  BY <1>1, LogicalSame
<1>3. Faithful(w, u)
  BY <1>1, <1>2 DEF Faithful
<1> QED
  BY <1>3 DEF u

\* Every command
LEMMA RunCmdFaithful ==
    ASSUME NEW w, Sound(w), NEW cmd \in Command
    PROVE  Faithful(w, RunCmd(w, cmd).world)
<1> DEFINE v == EnterExecutionUnit(w)
           done == Exec(v, cmd).world
           u == RunCmd(w, cmd).world
<1>1. /\ Sound(v) /\ v.slots = w.slots /\ v.clock = w.clock /\ v.mode = w.mode
      /\ v.clients = w.clients
  BY EnterKeeps
<1>2. /\ u.slots = done.slots /\ u.clock = done.clock /\ u.mode = done.mode
      /\ u.clients = done.clients
  BY RunCmdIs
<1> HIDE DEF v, u
<1>3. Faithful(v, done)
  <2>1. CASE cmd \in KeyCmd
    BY <1>1, <2>1, KeyCmdGuards, GuardsIsFaithful
  <2>2. CASE cmd \in ScanCmd
    <3>1. done = v
      BY <2>2 DEF ScanCmd, Exec, LookupOp, CmdKeys, CmdDbSize, Result
    <3> QED
      BY <3>1, GuardsReflexive, GuardsIsFaithful
  <2>3. CASE cmd \in WatchCmd \cup UnwatchCmd
    BY <1>1, <2>3, WatchFaithful
  <2> QED
    BY <2>1, <2>2, <2>3 DEF Command
<1> HIDE DEF done
<1>4. Faithful(w, u)
  BY <1>1, <1>2, <1>3, FaithfulSame
<1> QED
  BY <1>4 DEF u

\* An active cycle
LEMMA RunActiveExpireFaithful ==
    ASSUME NEW w, Sound(w)
    PROVE  Faithful(w, RunActiveExpire(w))
<1> DEFINE v == EnterExecutionUnit(w)
           done == ActiveExpireCycle(v)
           u == RunActiveExpire(w)
           ks == {k \in Key : v.slots[k].present /\ ActiveCycleWouldExpire(v, k)}
<1>1. /\ Sound(v) /\ v.slots = w.slots /\ v.clock = w.clock /\ v.mode = w.mode
      /\ v.clients = w.clients
  BY EnterKeeps
<1>2. u = ExitExecutionUnit(done)
  BY DEF RunActiveExpire
<1>3. done \in {v, DeleteExpiredAndPropagate(v, ks)}
  BY DEF ActiveExpireCycle
<1>4. ks \in SUBSET Key
  OBVIOUS
<1> HIDE DEF v, ks, u
<1>5. Sound(done)
  BY <1>1, ActiveExpireCycleSound DEF SameUnit
<1> HIDE DEF done
<1>6. Guards(v, done)
  BY <1>1, <1>3, <1>4, DeleteExpiredGuards, GuardsReflexive
<1>7. /\ u.slots = done.slots /\ u.clock = done.clock /\ u.mode = done.mode
      /\ u.clients = done.clients
  BY <1>2, <1>5, ExitKeeps DEF Sound
<1>8. Faithful(w, u)
  BY <1>1, <1>6, <1>7, GuardsIsFaithful, FaithfulSame
<1> QED
  BY <1>8 DEF u

\* Every step but a tick
LEMMA NextFaithful ==
    ASSUME IInv, [Next]_vars
    PROVE  Faithful(world, world') \/ ClockTick
<1>1. Sound(world)
  BY DEF IInv
<1>2. ASSUME NEW cmd \in Command, Perform(cmd) PROVE Faithful(world, world')
  BY <1>1, <1>2, RunCmdFaithful DEF Perform
<1>3. CASE \/ DoSet \/ DoExpire \/ DoDel \/ DoPersist \/ DoGet \/ DoExists \/ DoType
           \/ DoPttl \/ DoKeys \/ DoDbSize \/ DoWatch \/ DoUnwatch
  BY <1>2, <1>3 DEF Command, KeyCmd, DoSet, DoExpire, DoDel, DoPersist, DoGet, DoExists,
     DoType, DoPttl, DoKeys, DoDbSize, DoWatch, DoUnwatch
<1>4. CASE ActiveExpire
  BY <1>1, <1>4, RunActiveExpireFaithful DEF ActiveExpire
<1>5. CASE UNCHANGED vars
  <2>1. world' = world
    BY <1>5 DEF vars
  <2> QED
    BY <2>1, GuardsReflexive, GuardsIsFaithful
<1> QED
  BY <1>3, <1>4, <1>5 DEF Next

LEMMA SoundNext == ASSUME IInv' PROVE Sound(world')
  BY DEF IInv, Sound, TableIsConsistent, AbsentSlotsAreBlank, FlagsAreFresh, KeyIsExpired,
     Watchers

-----------------------------------------------------------------------------
(***************************************************************************)
(* The history invariant                                                   *)
(***************************************************************************)
\* WatchSeesEveryChange of the next state, said of world' and seen'
LEMMA NextSees ==
    WatchSeesEveryChange' <=>
        (ForcesDelete(world'.mode) =>
            \A c \in Client : \A k \in world'.clients[c].watching :
                \/ LogicalSlot(world', k) = seen'[c][k]
                \/ Lapsed(seen'[c][k], world', k))
  BY DEF WatchSeesEveryChange, Lapsed, LogicalSlot, VisibleKeys, KeyIsExpired,
     ForcesDelete, SeenFromMaster

\* What a tick may do to what is seen of a key: it may take it away, once its
\* deadline has passed.
LEMMA TickLapses ==
    ASSUME NEW w, Sound(w), NEW d \in Ticks, NEW k \in Key
    PROVE  LET u == RunClockTick(w, d)
           IN /\ u.clients = w.clients /\ u.mode = w.mode
              /\ \/ LogicalSlot(u, k) = LogicalSlot(w, k)
                 \/ Lapsed(LogicalSlot(w, k), u, k)
              /\ \A s : s.expire_at \in Int /\ Lapsed(s, w, k) => Lapsed(s, u, k)
<1> DEFINE u == RunClockTick(w, d)
           slot == w.slots[k]
<1>1. /\ u.slots = w.slots /\ u.clients = w.clients /\ u.mode = w.mode
      /\ u.clock = w.clock + d
  BY DEF RunClockTick, Sound, World
<1> HIDE DEF u
<1>2. w.clock \in Nat /\ d \in Nat
  BY TimesAssumption DEF Sound, World
<1>3. slot.expire_at \in Nat \cup {-1}
  BY ExpireTimesAssumption DEF Sound, World, Slot, NoExpire
<1>4. LogicalSlot(u, k) = IF slot.present /\ ~KeyIsExpired(u, k) THEN slot ELSE AbsentSlot
  BY <1>1 DEF LogicalSlot, VisibleKeys
<1>5. LogicalSlot(w, k) = IF slot.present /\ ~KeyIsExpired(w, k) THEN slot ELSE AbsentSlot
  BY DEF LogicalSlot, VisibleKeys
<1>6. KeyIsExpired(w, k) => KeyIsExpired(u, k)
  BY <1>1, <1>2, <1>3 DEF KeyIsExpired
<1>7. ~KeyIsExpired(w, k) /\ KeyIsExpired(u, k)
        => slot.expire_at # NoExpire /\ u.clock > slot.expire_at
  BY <1>1 DEF KeyIsExpired
<1>8. \/ LogicalSlot(u, k) = LogicalSlot(w, k)
      \/ Lapsed(LogicalSlot(w, k), u, k)
  BY <1>4, <1>5, <1>6, <1>7 DEF Lapsed
<1>9. AbsentSlot.expire_at = NoExpire
  BY DEF AbsentSlot
<1>10. ASSUME NEW s, s.expire_at \in Int, Lapsed(s, w, k) PROVE Lapsed(s, u, k)
  <2>1. LogicalSlot(w, k) = AbsentSlot
    BY <1>10 DEF Lapsed
  <2>2. LogicalSlot(u, k) = AbsentSlot
    BY <1>8, <1>9, <2>1 DEF Lapsed
  <2>3. s.expire_at # NoExpire /\ u.clock > s.expire_at
    BY <1>1, <1>2, <1>10 DEF Lapsed
  <2> QED
    BY <2>2, <2>3 DEF Lapsed
<1> QED
  BY <1>1, <1>8, <1>10 DEF u

\* What a client saw is the slot of a key or of no key.
SeenTyped == \A c \in Client, k \in Key : seen[c][k].expire_at \in Int

LEMMA LogicalSlotTyped ==
    ASSUME NEW w, Sound(w), NEW k \in Key PROVE LogicalSlot(w, k).expire_at \in Int
<1>1. w.slots[k].expire_at \in Nat \cup {-1}
  BY ExpireTimesAssumption DEF Sound, World, Slot, NoExpire
<1>2. AbsentSlot.expire_at = -1
  BY DEF AbsentSlot, NoExpire
<1> QED
  BY <1>1, <1>2 DEF LogicalSlot

CasInv == IInv /\ SeenTyped /\ WatchSeesEveryChange

LEMMA InitCasInv == CasInit => CasInv
<1> SUFFICES ASSUME CasInit PROVE CasInv
  OBVIOUS
<1>1. IInv
  BY InitIInv DEF CasInit
<1>2. SeenTyped
  BY DEF CasInit, Unseen, SeenTyped, AbsentSlot, NoExpire
<1>3. \A c \in Client : world.clients[c].watching = {}
  <2>1. world.clients = [c \in Client |-> FreshClient]
    BY DEF CasInit, Init, NondetWorld, NewWorld
  <2> QED
    BY <2>1 DEF FreshClient
<1> QED
  BY <1>1, <1>2, <1>3 DEF CasInv, WatchSeesEveryChange

\* The step that remembers keeps the invariant, whatever the model does.
LEMMA NextCasInv == CasInv /\ [CasNext]_casVars => CasInv'
<1> SUFFICES ASSUME CasInv, [CasNext]_casVars PROVE CasInv'
  OBVIOUS
<1>1. [Next]_vars
  BY DEF CasNext, casVars, vars
<1>2. IInv'
  BY <1>1, NextIInv DEF CasInv
<1>3. Sound(world) /\ Sound(world')
  BY <1>2, SoundNext DEF CasInv, IInv
<1>4. CASE UNCHANGED casVars
  BY <1>2, <1>4 DEF casVars, CasInv, SeenTyped, WatchSeesEveryChange, Lapsed, LogicalSlot,
     VisibleKeys, KeyIsExpired, ForcesDelete, SeenFromMaster
<1>5. CASE CasNext
  <2>1. \A c \in Client, k \in Key :
          seen'[c][k] = IF k \notin world'.clients[c].watching THEN AbsentSlot
                        ELSE IF k \notin world.clients[c].watching
                             THEN LogicalSlot(world', k)
                        ELSE seen[c][k]
    BY <1>5 DEF CasNext, Remember
  <2>2. \A c \in Client, k \in Key : seen'[c][k].expire_at \in Int
    <3>1. AbsentSlot.expire_at \in Int
      BY DEF AbsentSlot, NoExpire
    <3>2. \A k \in Key : LogicalSlot(world', k).expire_at \in Int
      BY <1>3, LogicalSlotTyped
    <3> QED
      BY <2>1, <3>1, <3>2 DEF CasInv, SeenTyped
  <2>3. ASSUME ForcesDelete(world'.mode), NEW c \in Client,
               NEW k \in world'.clients[c].watching
        PROVE  \/ LogicalSlot(world', k) = seen'[c][k]
               \/ Lapsed(seen'[c][k], world', k)
    <3>1. k \in Key
      BY <1>3 DEF Sound, World, ClientState
    <3>2. CASE k \notin world.clients[c].watching
      BY <2>1, <2>3, <3>1, <3>2
    <3>3. CASE k \in world.clients[c].watching
      <4>1. seen'[c][k] = seen[c][k]
        BY <2>1, <2>3, <3>1, <3>3
      <4>2. CASE Faithful(world, world')
        <5>1. ForcesDelete(world.mode) /\ world'.clock = world.clock
          BY <2>3, <4>2 DEF Faithful
        <5>2. LogicalSlot(world', k) = LogicalSlot(world, k)
          BY <2>3, <3>1, <3>3, <4>2, <5>1 DEF Faithful
        <5>3. \/ LogicalSlot(world, k) = seen[c][k]
              \/ Lapsed(seen[c][k], world, k)
          BY <3>3, <5>1 DEF CasInv, WatchSeesEveryChange
        <5> QED
          BY <4>1, <5>1, <5>2, <5>3 DEF Lapsed
      <4>3. CASE ClockTick
        <5>1. PICK d \in Ticks : world' = RunClockTick(world, d)
          BY <4>3 DEF ClockTick
        <5>2. /\ world'.clients = world.clients /\ world'.mode = world.mode
              /\ \/ LogicalSlot(world', k) = LogicalSlot(world, k)
                 \/ Lapsed(LogicalSlot(world, k), world', k)
              /\ \A s : s.expire_at \in Int /\ Lapsed(s, world, k) => Lapsed(s, world', k)
          BY <1>3, <3>1, <5>1, TickLapses
        <5>3. \/ LogicalSlot(world, k) = seen[c][k]
              \/ Lapsed(seen[c][k], world, k)
          BY <2>3, <3>3, <5>2 DEF CasInv, WatchSeesEveryChange
        <5>4. seen[c][k].expire_at \in Int
          BY <3>1 DEF CasInv, SeenTyped
        <5>5. CASE Lapsed(seen[c][k], world, k)
          BY <4>1, <5>2, <5>4, <5>5
        <5>6. CASE LogicalSlot(world, k) = seen[c][k]
          BY <4>1, <5>2, <5>6
        <5> QED
          BY <5>3, <5>5, <5>6
      <4> QED
        BY <1>1, <4>2, <4>3, NextFaithful DEF CasInv
    <3> QED
      BY <3>2, <3>3
  <2>4. WatchSeesEveryChange'
    BY <2>3, NextSees
  <2>5. SeenTyped'
    BY <2>2 DEF SeenTyped
  <2> QED
    BY <1>2, <2>4, <2>5 DEF CasInv
<1> QED
  BY <1>4, <1>5

\* P-07 and P-08 over whole schedules: where write lookups delete, a client whose
\* watch stands has missed nothing but the passing of a deadline, for any number
\* of clients and keys and in any order of watchers.
THEOREM StandingWatchesMissNothing == CasSpec => []WatchSeesEveryChange
<1>1. CasSpec => []CasInv
  BY InitCasInv, NextCasInv, PTL DEF CasSpec
<1>2. CasInv => WatchSeesEveryChange
  BY DEF CasInv
<1> QED
  BY <1>1, <1>2, PTL

\* In every mode, a client that becomes dirty loses all its watches in the same
\* step, in its own view and in the lists, and stays dirty.
THEOREM DirtyClientsWatchNothing == Spec => DirtyingClearsWatches
<1>1. ASSUME IInv, [Next]_vars
      PROVE  \A c \in Client :
               /\ world.clients[c].dirty_cas => world'.clients[c].dirty_cas
               /\ ~world.clients[c].dirty_cas /\ world'.clients[c].dirty_cas =>
                      world'.clients[c].watching = {}
                      /\ \A k \in Key : c \notin Watchers(world', k)
  <2>1. Sound(world')
    BY <1>1, NextIInv, SoundNext
  <2>2. \A c \in Client :
          /\ world.clients[c].dirty_cas => world'.clients[c].dirty_cas
          /\ ~world.clients[c].dirty_cas /\ world'.clients[c].dirty_cas =>
                 world'.clients[c].watching = {}
    <3>1. CASE Faithful(world, world')
      BY <3>1 DEF Faithful
    <3>2. CASE ClockTick
      <4>1. world'.clients = world.clients
        BY <1>1, <3>2 DEF ClockTick, RunClockTick, IInv, Sound, World
      <4> QED
        BY <4>1
    <3> QED
      BY <1>1, <3>1, <3>2, NextFaithful
  <2> QED
    BY <2>1, <2>2 DEF Sound, TableIsConsistent
<1>2. IInv /\ [Next]_vars =>
        [\A c \in Client :
           /\ world.clients[c].dirty_cas => world'.clients[c].dirty_cas
           /\ ~world.clients[c].dirty_cas /\ world'.clients[c].dirty_cas =>
                  world'.clients[c].watching = {}
                  /\ \A k \in Key : c \notin Watchers(world', k)]_vars
  BY <1>1
<1> QED
  BY <1>2, SpecIInv, PTL DEF Spec, DirtyingClearsWatches
=============================================================================
