----------------------------- MODULE RulesProofs ----------------------------
(***************************************************************************)
(* Proofs that the rules of specs/*.rs come out as tests/concrete.rs       *)
(* expects, for every world and every parameter that they can draw, any    *)
(* number of keys, clients and values, and times drawn from any spread.    *)
(*                                                                         *)
(* A rule puts a key at a time of its own, which need not be one of the    *)
(* ExpireTimes, so that its world is not one of World.  The lemmas on what *)
(* the operators do to slots and log are therefore stated for any world    *)
(* that has the fields of one (Shaped); those on watchers need a sound     *)
(* world and are those of StepProofs.                                      *)
(***************************************************************************)
EXTENDS Rules, StepProofs

\* A world whose times are any integers
Shaped(w) ==
    /\ DOMAIN w = {"slots", "watched", "clients", "clock", "mode", "repl", "dirty",
                   "nesting"}
    /\ w.slots \in [Key -> [present : BOOLEAN, value : Value \cup {EmptyStr},
                            expire_at : Int]]
    /\ w.clock \in Int

\* From w to u only watchers and counters may have changed.
SameKeyspace(w, u) ==
    /\ Shaped(u)
    /\ u.slots = w.slots /\ u.clock = w.clock /\ u.mode = w.mode /\ u.repl = w.repl

\* The worlds of StepProofs are of that kind.
LEMMA SoundShaped == ASSUME NEW w, Sound(w) PROVE Shaped(w)
<1>1. ExpireTimes \cup {NoExpire} \subseteq Int
  BY ExpireTimesAssumption DEF NoExpire
<1>2. Slot \subseteq [present : BOOLEAN, value : Value \cup {EmptyStr}, expire_at : Int]
  BY <1>1 DEF Slot
<1> HIDE DEF NoExpire
<1> QED
  BY <1>2 DEF Sound, World, Shaped

-----------------------------------------------------------------------------
(***************************************************************************)
(* What the operators do to slots and log                                  *)
(***************************************************************************)
\* A touch is about clients and watcher lists.
LEMMA TouchLeaves ==
    ASSUME NEW w, Shaped(w), NEW ks
    PROVE  SameKeyspace(w, Touch(w, ks))
<1> DEFINE dirtied == {c \in Client : \E k \in ks :
                         c \in Reached(w, k) /\ k \notin w.clients[c].watched_expired}
           cleared(c) == {k \in ks : c \in Reached(w, k)}
           after(c) == IF c \in dirtied
                       THEN [w.clients[c] EXCEPT !.dirty_cas = TRUE]
                       ELSE [w.clients[c] EXCEPT !.watched_expired = @ \ cleared(c)]
           flagged == [w EXCEPT !.clients = [c \in Client |-> after(c)]]
<1>1. Touch(w, ks) = UnwatchAll(flagged, dirtied)
  BY DEF Touch
<1> HIDE DEF after, dirtied
<1>2. SameKeyspace(w, flagged)
  BY DEF Shaped, SameKeyspace
<1> HIDE DEF flagged
<1>3. SameKeyspace(flagged, UnwatchAll(flagged, dirtied))
  BY <1>2 DEF UnwatchAll, Shaped, SameKeyspace
<1> QED
  BY <1>1, <1>2, <1>3 DEF SameKeyspace

\* Deleting expired keys blanks their slots.
LEMMA DeleteBlanks ==
    ASSUME NEW w, Shaped(w), NEW ks \in SUBSET Key
    PROVE  LET u == DeleteExpiredAndPropagate(w, ks)
           IN /\ Shaped(u) /\ u.clock = w.clock /\ u.mode = w.mode
              /\ u.slots = [k \in Key |-> IF k \in ks THEN AbsentSlot ELSE w.slots[k]]
              /\ u.repl = Push(w.repl, [i \in DOMAIN SetToSeq(ks) |->
                                          DelEffect(SetToSeq(ks)[i])])
<1> DEFINE dels == [i \in DOMAIN SetToSeq(ks) |-> DelEffect(SetToSeq(ks)[i])]
           log == Push(w.repl, dels)
           count == w.dirty + Cardinality(ks)
           slots == [k \in Key |-> IF k \in ks THEN AbsentSlot ELSE w.slots[k]]
           v == [w EXCEPT !.slots = slots, !.repl = log, !.dirty = count]
<1>1. DeleteExpiredAndPropagate(w, ks) = Touch(v, ks)
  BY DEF DeleteExpiredAndPropagate, Shaped
<1>2. slots \in [Key -> [present : BOOLEAN, value : Value \cup {EmptyStr}, expire_at : Int]]
  BY DEF Shaped, AbsentSlot, NoExpire
<1> HIDE DEF slots, log, count
<1>3. /\ Shaped(v) /\ v.slots = slots /\ v.clock = w.clock /\ v.mode = w.mode
      /\ v.repl = log
  BY <1>2 DEF Shaped
<1> HIDE DEF v
<1>4. SameKeyspace(v, Touch(v, ks))
  BY <1>3, TouchLeaves
<1> QED
  BY <1>1, <1>3, <1>4 DEF SameKeyspace, slots, log

\* The deletion of one key pushes one bare DEL.
LEMMA DeletePushesDel ==
    ASSUME NEW w, NEW k \in Key, w.repl = <<>>
    PROVE  Push(w.repl, [i \in DOMAIN SetToSeq({k}) |-> DelEffect(SetToSeq({k})[i])])
             = <<DelEffect(k)>>
<1> DEFINE order == SetToSeq({k})
<1>1. order \in [1..1 -> {k}]
  BY SetToSeqType, FS_Singleton
<1> DEFINE dels == [i \in DOMAIN order |-> DelEffect(order[i])]
<1> HIDE DEF order
<1>2. dels = <<DelEffect(k)>>
  BY <1>1
<1> HIDE DEF dels
<1> DEFINE all == w.repl \o dels
<1>3. all = <<DelEffect(k)>>
  BY <1>2
<1>4. Push(w.repl, dels) = IF Len(all) <= ReplCap THEN all ELSE SubSeq(all, 1, ReplCap)
  BY DEF Push
<1> HIDE DEF all
<1>5. Len(all) = 1 /\ 1 <= ReplCap
  BY <1>3, ReplAssumption, PinnedAssumption
<1>6. Push(w.repl, dels) = <<DelEffect(k)>>
  BY <1>3, <1>4, <1>5
<1> QED
  BY <1>6 DEF dels, order

\* The tail of a write assigns one slot.
LEMMA WriteAssigns ==
    ASSUME NEW w, Shaped(w), NEW k \in Key, NEW effect,
           NEW slot \in [present : BOOLEAN, value : Value \cup {EmptyStr}, expire_at : Int]
    PROVE  LET u == WriteSlot(w, k, slot, effect)
           IN /\ u.slots = [w.slots EXCEPT ![k] = slot]
              /\ u.clock = w.clock /\ u.mode = w.mode
<1> DEFINE count == w.dirty + 1
           slots == [w.slots EXCEPT ![k] = slot]
           v == [w EXCEPT !.slots = slots, !.dirty = count]
           t == Touch(v, {k})
<1>1. WriteSlot(w, k, slot, effect) = [t EXCEPT !.repl = Push(@, <<effect>>)]
  BY DEF WriteSlot, Shaped
<1>2. slots \in [Key -> [present : BOOLEAN, value : Value \cup {EmptyStr}, expire_at : Int]]
  BY DEF Shaped
<1> HIDE DEF slots, count
<1>3. Shaped(v) /\ v.slots = slots /\ v.clock = w.clock /\ v.mode = w.mode
  BY <1>2 DEF Shaped
<1> HIDE DEF v
<1>4. SameKeyspace(v, t)
  BY <1>3, TouchLeaves
<1> HIDE DEF t
<1> QED
  BY <1>1, <1>3, <1>4 DEF SameKeyspace, Shaped, slots

\* DEL assigns the blank slot.
LEMMA DeleteAssigns ==
    ASSUME NEW w, Shaped(w), NEW k \in Key
    PROVE  LET u == DeleteSlot(w, k)
           IN /\ u.slots = [w.slots EXCEPT ![k] = AbsentSlot]
              /\ u.clock = w.clock /\ u.mode = w.mode
<1>1. AbsentSlot \in [present : BOOLEAN, value : Value \cup {EmptyStr}, expire_at : Int]
  BY DEF AbsentSlot, NoExpire
<1> QED
  BY <1>1, WriteAssigns DEF DeleteSlot

\* What a lookup finds and leaves on a standalone master
LEMMA MasterLookup ==
    ASSUME NEW w, Shaped(w), w.mode = StandaloneMaster, NEW k \in Key,
           NEW flags \in {ReadFlags, WriteFlags}
    PROVE  LET e == Lookup(w, k, flags)
               d == DeleteExpiredAndPropagate(w, {k})
           IN /\ LogicallyPresent(w, k) => e = [world |-> w, value |-> w.slots[k].value]
              /\ ~LogicallyPresent(w, k) =>
                    e = [world |-> IF w.slots[k].present THEN d ELSE w, value |-> NoValue]
  BY DEF Lookup, ExpireIfNeeded, Found, LogicallyPresent, SeenFromMaster, HiddenInPlace,
         ReadFlags, WriteFlags, StandaloneMaster

\* A string is not Option::None.
LEMMA StringIsFound ==
    ASSUME NEW w, Shaped(w), NEW k \in Key
    PROVE  w.slots[k].value # NoValue
  BY NoValueAssumption, EmptyStrAssumption DEF Shaped

-----------------------------------------------------------------------------
(***************************************************************************)
(* The commands of the rules                                               *)
(***************************************************************************)
\* A key that a rule has put in the past is there, expired, and hidden.
Elapsing(w, k) == Shaped(w) /\ w.slots[k].present /\ KeyIsExpired(w, k)

\* On a standalone master, a read or a write lookup of it deletes it.
LEMMA ElapsedLookup ==
    ASSUME NEW w, NEW k \in Key, Elapsing(w, k), w.mode = StandaloneMaster,
           NEW flags \in {ReadFlags, WriteFlags}
    PROVE  LET e == Lookup(w, k, flags)
           IN /\ e.value = NoValue
              /\ Shaped(e.world)
              /\ e.world.clock = w.clock /\ e.world.mode = StandaloneMaster
              /\ e.world.slots = [w.slots EXCEPT ![k] = AbsentSlot]
              /\ w.repl = <<>> => e.world.repl = <<DelEffect(k)>>
<1> DEFINE d == DeleteExpiredAndPropagate(w, {k})
<1>1. Lookup(w, k, flags) = [world |-> d, value |-> NoValue]
  BY MasterLookup DEF Elapsing, LogicallyPresent
<1>2. /\ Shaped(d) /\ d.clock = w.clock /\ d.mode = w.mode
      /\ d.slots = [j \in Key |-> IF j \in {k} THEN AbsentSlot ELSE w.slots[j]]
      /\ d.repl = Push(w.repl, [i \in DOMAIN SetToSeq({k}) |->
                                  DelEffect(SetToSeq({k})[i])])
  BY DeleteBlanks DEF Elapsing
<1>3. w.repl = <<>> => d.repl = <<DelEffect(k)>>
  BY <1>2, DeletePushesDel
<1> HIDE DEF d
<1>4. d.slots = [w.slots EXCEPT ![k] = AbsentSlot]
  BY <1>2 DEF Elapsing, Shaped
<1> QED
  BY <1>1, <1>2, <1>3, <1>4

\* What a write lookup on a standalone master leaves
LEMMA MasterWriteLookup ==
    ASSUME NEW w, Shaped(w), w.mode = StandaloneMaster, NEW k \in Key
    PROVE  LET e == LookupKeyWrite(w, k)
           IN /\ Shaped(e.world)
              /\ e.world.clock = w.clock /\ e.world.mode = StandaloneMaster
              /\ LogicallyPresent(w, k) => e.world = w /\ e.value = w.slots[k].value
              /\ ~LogicallyPresent(w, k) => /\ e.value = NoValue
                                            /\ ~e.world.slots[k].present
              /\ \A j \in Key \ {k} : e.world.slots[j] = w.slots[j]
<1> DEFINE e == LookupKeyWrite(w, k)
<1>1. CASE ~w.slots[k].present
  <2>1. e = [world |-> w, value |-> NoValue]
    BY <1>1, MasterLookup DEF LookupKeyWrite, LogicallyPresent
  <2> QED
    BY <1>1, <2>1 DEF LogicallyPresent
<1>2. CASE LogicallyPresent(w, k)
  <2>1. e = [world |-> w, value |-> w.slots[k].value]
    BY <1>2, MasterLookup DEF LookupKeyWrite
  <2> QED
    BY <1>2, <2>1
<1>3. CASE w.slots[k].present /\ KeyIsExpired(w, k)
  <2>1. /\ e.value = NoValue /\ Shaped(e.world)
        /\ e.world.clock = w.clock /\ e.world.mode = StandaloneMaster
        /\ e.world.slots = [w.slots EXCEPT ![k] = AbsentSlot]
    BY <1>3, ElapsedLookup DEF Elapsing, LookupKeyWrite
  <2> HIDE DEF e
  <2>2. ~e.world.slots[k].present /\ \A j \in Key \ {k} : e.world.slots[j] = w.slots[j]
    BY <2>1 DEF AbsentSlot, Shaped
  <2> QED
    BY <1>3, <2>1, <2>2 DEF LogicallyPresent, e
<1> QED
  BY <1>1, <1>2, <1>3 DEF LogicallyPresent

\* SET without GET on a standalone master: refused, an elapsed PXAT, or a write.
SetOutcome(w, r, k, v, cond, ttl) ==
    LET allowed == SetAllowed(cond, LogicallyPresent(w, k))
        elapsed == ttl.kind = "PxAt" /\ ttl.at <= w.clock
    IN /\ r.world.clock = w.clock
       /\ \A j \in Key \ {k} : r.world.slots[j] = w.slots[j]
       /\ r.reply = IF allowed THEN OkReply ELSE NilReply
       /\ ~allowed /\ r.world.slots[k].present => r.world.slots[k] = w.slots[k]
       /\ allowed /\ elapsed => ~r.world.slots[k].present
       /\ allowed /\ ~elapsed => r.world.slots[k] =
            [present |-> TRUE, value |-> v,
             expire_at |-> NewExpire(w, k, ttl, LogicallyPresent(w, k))]

LEMMA SetOnMaster ==
    ASSUME NEW w, Shaped(w), w.mode = StandaloneMaster, NEW k \in Key, NEW v \in Value,
           NEW cond \in SetCond, NEW ttl \in TtlArg
    PROVE  SetOutcome(w, Exec(w, PlainSet(k, v, cond, ttl)), k, v, cond, ttl)
<1> DEFINE cmd == PlainSet(k, v, cond, ttl)
           r == Exec(w, cmd)
           write == LookupKeyWrite(w, k)
           u == write.world
           exists == LogicallyPresent(w, k)
           at == NewExpire(u, k, ttl, exists)
           slot == [present |-> TRUE, value |-> v, expire_at |-> at]
           elapsed == ttl.kind = "PxAt" /\ ttl.at <= w.clock
<1>1. cmd.op = "Set" /\ cmd.key = k /\ cmd.val = v /\ cmd.cond = cond /\ cmd.ttl = ttl
      /\ ~cmd.get
  BY DEF PlainSet
<1>2. r = SetFound(write, NoValue, cmd)
  BY <1>1 DEF Exec, CmdSet, SetAfterGet, LookupOp
<1> HIDE DEF cmd, write
<1>3. /\ Shaped(u) /\ u.clock = w.clock /\ u.mode = StandaloneMaster
      /\ exists => u = w /\ write.value = w.slots[k].value
      /\ ~exists => write.value = NoValue /\ ~u.slots[k].present
      /\ \A j \in Key \ {k} : u.slots[j] = w.slots[j]
  BY MasterWriteLookup DEF write
<1>4. exists <=> write.value # NoValue
  BY <1>3, StringIsFound
<1>5. elapsed <=> ttl.kind = "PxAt" /\ CheckAlreadyExpired(u, ttl.at)
  BY <1>3 DEF CheckAlreadyExpired, StandaloneMaster
<1>6. at = NewExpire(w, k, ttl, exists)
  BY <1>3 DEF NewExpire, TtlArg, NoTtl, KeepTtl, PxAt
<1>7. slot \in [present : BOOLEAN, value : Value \cup {EmptyStr}, expire_at : Int]
  <2>1. at \in Int
    BY <1>3, ExpireTimesAssumption
       DEF NewExpire, TtlArg, NoTtl, KeepTtl, PxAt, Shaped, NoExpire
  <2> HIDE DEF at
  <2> QED
    BY <2>1
<1> HIDE DEF exists, u, at, elapsed, slot
<1>8. CASE ~SetAllowed(cond, exists)
  <2>1. r = Result(u, StrReply(NoValue))
    BY <1>1, <1>2, <1>4, <1>8 DEF SetFound, u
  <2>2. r.world.slots[k].present => r.world.slots[k] = w.slots[k]
    BY <1>3, <2>1 DEF Result
  <2> QED
    BY <1>3, <1>8, <2>1, <2>2 DEF Result, StrReply, exists, cmd, SetOutcome
<1>9. CASE SetAllowed(cond, exists) /\ elapsed
  <2>1. r \in {Result(DeleteSlot(u, k), OkReply), Result(u, OkReply)}
        /\ (r = Result(u, OkReply) \/ exists \/ u.slots[k].present)
        /\ (r = Result(DeleteSlot(u, k), OkReply) \/ ~(exists \/ u.slots[k].present))
    BY <1>1, <1>2, <1>4, <1>5, <1>9 DEF SetFound, SetReply, u
  <2>2. /\ DeleteSlot(u, k).slots = [u.slots EXCEPT ![k] = AbsentSlot]
        /\ DeleteSlot(u, k).clock = u.clock
    BY <1>3, DeleteAssigns
  <2>3. /\ ~r.world.slots[k].present /\ r.world.clock = w.clock /\ r.reply = OkReply
        /\ \A j \in Key \ {k} : r.world.slots[j] = w.slots[j]
    BY <1>3, <2>1, <2>2 DEF Result, Shaped, AbsentSlot
  <2> QED
    BY <1>9, <2>3 DEF exists, elapsed, cmd, SetOutcome
<1>10. CASE SetAllowed(cond, exists) /\ ~elapsed
  <2>1. r = Result(WriteSlot(u, k, slot, SetEffect(k, v, at)), OkReply)
    BY <1>1, <1>2, <1>4, <1>5, <1>10 DEF SetFound, SetReply, u, at, slot
  <2> DEFINE s == WriteSlot(u, k, slot, SetEffect(k, v, at))
  <2>2. s.slots = [u.slots EXCEPT ![k] = slot] /\ s.clock = u.clock
    BY <1>3, <1>7, WriteAssigns
  <2> HIDE DEF s
  <2>3. /\ r.world.slots[k] = slot /\ r.world.clock = w.clock /\ r.reply = OkReply
        /\ \A j \in Key \ {k} : r.world.slots[j] = w.slots[j]
    BY <1>3, <2>1, <2>2 DEF Result, Shaped, s
  <2> QED
    BY <1>6, <1>10, <2>3 DEF exists, elapsed, slot, cmd, SetOutcome
<1> QED
  BY <1>8, <1>9, <1>10

-----------------------------------------------------------------------------
(***************************************************************************)
(* The inductive invariant: the world is as drawn until the rule runs, and *)
(* a rule that has run came out as it should.                              *)
(***************************************************************************)
Drawn(w) == \E clock \in Nat, mode \in DrawnModes : w \in NondetWorld(clock, mode)

RuleInv == (outcome = NotRun => Drawn(world)) /\ RulesHold /\ F01RuleFails

\* A rule other than that of F-01 keeps it if its assertions hold.
LEMMA RuleKeeps ==
    ASSUME NEW rule, rule \notin {"none", F01Rule}, NEW w, NEW sentinel \in BOOLEAN,
           NEW asserts, ~sentinel => Passed(asserts), Ran(rule, w, sentinel, asserts)
    PROVE  RuleInv'
  BY DEF Ran, RuleInv, NotRun, RulesHold, F01RuleFails

\* All assertions passed, for the numbers of assertions that the rules have.
LEMMA PassedOne == ASSUME NEW a, a PROVE Passed(<<a>>)
<1> DEFINE s == <<a>>
<1>1. DOMAIN s = 1..1 /\ s[1] = a
  OBVIOUS
<1> HIDE DEF s
<1>2. \A i \in DOMAIN s : i = 1
  BY <1>1
<1>3. s[1]
  BY <1>1, Zenon
<1>4. Passed(s)
  BY <1>2, <1>3, Zenon DEF Passed
<1> QED
  BY <1>4 DEF s

LEMMA PassedTwo ==
    ASSUME NEW a, NEW b, a, b
    PROVE  Passed(<<a, b>>)
<1> DEFINE s == <<a, b>>
<1>1. DOMAIN s = 1..2 /\ s[1] = a /\ s[2] = b
  OBVIOUS
<1> HIDE DEF s
<1>2. \A i \in DOMAIN s : i \in {1, 2}
  BY <1>1
<1>3. s[1] /\ s[2]
  BY <1>1, Zenon
<1>4. Passed(s)
  BY <1>2, <1>3, Zenon DEF Passed
<1> QED
  BY <1>4 DEF s

LEMMA PassedThree ==
    ASSUME NEW a, NEW b, NEW c, a, b, c
    PROVE  Passed(<<a, b, c>>)
<1> DEFINE s == <<a, b, c>>
<1>1. DOMAIN s = 1..3 /\ s[1] = a /\ s[2] = b /\ s[3] = c
  OBVIOUS
<1> HIDE DEF s
<1>2. \A i \in DOMAIN s : i \in {1, 2, 3}
  BY <1>1
<1>3. s[1] /\ s[2] /\ s[3]
  BY <1>1, Zenon
<1>4. Passed(s)
  BY <1>2, <1>3, Zenon DEF Passed
<1> QED
  BY <1>4 DEF s

LEMMA PassedFive ==
    ASSUME NEW a1, NEW a2, NEW a3, NEW a4, NEW a5, a1, a2, a3, a4, a5
    PROVE  Passed(<<a1, a2, a3, a4, a5>>)
<1> DEFINE s == <<a1, a2, a3, a4, a5>>
<1>1. /\ DOMAIN s = 1..5
      /\ s[1] = a1 /\ s[2] = a2 /\ s[3] = a3 /\ s[4] = a4 /\ s[5] = a5
  OBVIOUS
<1> HIDE DEF s
<1>2. \A i \in DOMAIN s : i \in {1, 2, 3, 4, 5}
  BY <1>1
<1>3. s[1] /\ s[2] /\ s[3] /\ s[4] /\ s[5]
  BY <1>1, Zenon
<1>4. Passed(s)
  BY <1>2, <1>3, Zenon DEF Passed
<1> QED
  BY <1>4 DEF s

LEMMA PassedEight ==
    ASSUME NEW a1, NEW a2, NEW a3, NEW a4, NEW a5, NEW a6, NEW a7, NEW a8,
           a1, a2, a3, a4, a5, a6, a7, a8
    PROVE  Passed(<<a1, a2, a3, a4, a5, a6, a7, a8>>)
<1> DEFINE s == <<a1, a2, a3, a4, a5, a6, a7, a8>>
<1>1. /\ DOMAIN s = 1..8
      /\ s[1] = a1 /\ s[2] = a2 /\ s[3] = a3 /\ s[4] = a4
      /\ s[5] = a5 /\ s[6] = a6 /\ s[7] = a7 /\ s[8] = a8
  OBVIOUS
<1> HIDE DEF s
<1>2. \A i \in DOMAIN s : i \in {1, 2, 3, 4, 5, 6, 7, 8}
  BY <1>1
<1>3. s[1] /\ s[2] /\ s[3] /\ s[4] /\ s[5] /\ s[6] /\ s[7] /\ s[8]
  BY <1>1, Zenon
<1>4. Passed(s)
  BY <1>2, <1>3, Zenon DEF Passed
<1> QED
  BY <1>4 DEF s

\* A drawn world under any mode: what a rule starts from
Under(w, mode) == [w EXCEPT !.mode = mode]

LEMMA DrawnWorld ==
    ASSUME NEW w, Drawn(w), NEW mode
    PROVE  LET p == Under(w, mode)
           IN /\ w.slots \in [Key -> DrawnSlot] /\ w.clock \in Nat
              /\ p = NewWorld(w.slots, w.clock, mode)
              /\ Shaped(p) /\ p.slots = w.slots /\ p.clock = w.clock
              /\ p.mode = mode /\ p.repl = <<>>
<1> DEFINE p == Under(w, mode)
<1>1. PICK clock \in Nat, drawn \in DrawnModes, slots \in [Key -> DrawnSlot] :
        w = NewWorld(slots, clock, drawn)
  BY DEF Drawn, NondetWorld
<1>2. p = NewWorld(slots, clock, mode) /\ w.slots = slots /\ w.clock = clock
  <2> DEFINE nobody == [k \in Key |-> {}]
             fresh == [c \in Client |-> FreshClient]
  <2> HIDE DEF nobody, fresh
  <2>1. w = [slots |-> slots, watched |-> nobody, clients |-> fresh, clock |-> clock,
             mode |-> drawn, repl |-> <<>>, dirty |-> 0, nesting |-> 0]
    BY <1>1 DEF NewWorld, nobody, fresh
  <2>2. p = [slots |-> slots, watched |-> nobody, clients |-> fresh, clock |-> clock,
             mode |-> mode, repl |-> <<>>, dirty |-> 0, nesting |-> 0]
    BY <2>1 DEF Under
  <2> QED
    BY <2>1, <2>2 DEF NewWorld, nobody, fresh
<1>3. \A k \in Key : slots[k] \in
        [present : BOOLEAN, value : Value \cup {EmptyStr}, expire_at : Int]
  <2> SUFFICES ASSUME NEW k \in Key, NEW slot \in DrawnSlot
               PROVE  slot \in [present : BOOLEAN, value : Value \cup {EmptyStr},
                                expire_at : Int]
    OBVIOUS
  <2>1. CASE slot = AbsentSlot
    BY <2>1 DEF AbsentSlot, NoExpire
  <2>2. CASE slot \in [present : {TRUE}, value : Value,
                      expire_at : ExpireTimes \cup {NoExpire}]
    <3>1. ExpireTimes \cup {NoExpire} \subseteq Int
      BY ExpireTimesAssumption DEF NoExpire
    <3> QED
      BY <2>2, <3>1
  <2> QED
    BY <2>1, <2>2 DEF DrawnSlot
<1>4. Shaped(p)
  BY <1>2, <1>3 DEF Shaped, NewWorld
<1> QED
  BY <1>2, <1>4 DEF NewWorld

\* The world that most rules pin
LEMMA PinnedWorld ==
    ASSUME NEW w, Drawn(w)
    PROVE  /\ Shaped(Pinned(w)) /\ Pinned(w).mode = StandaloneMaster
           /\ Pinned(w).slots = w.slots /\ Pinned(w).clock = w.clock
           /\ Pinned(w).repl = <<>> /\ w.clock \in Nat
           /\ Sound(Pinned(w)) /\ Pinned(w).nesting = 0
<1>1. /\ Shaped(Pinned(w)) /\ Pinned(w).mode = StandaloneMaster
      /\ Pinned(w).slots = w.slots /\ Pinned(w).clock = w.clock
      /\ Pinned(w).repl = <<>>
      /\ w.slots \in [Key -> DrawnSlot] /\ w.clock \in Nat
      /\ Pinned(w) = NewWorld(w.slots, w.clock, StandaloneMaster)
  BY DrawnWorld DEF Pinned, Under
<1>2. Pinned(w) \in NondetWorld(w.clock, StandaloneMaster)
  BY <1>1 DEF NondetWorld
<1> QED
  BY <1>1, <1>2, NewWorldSound, PinnedAssumption

\* Where a rule puts a key
LEMMA PlacedWorld ==
    ASSUME NEW w, Shaped(w), NEW k \in Key, NEW at \in Int
    PROVE  LET p == Placed(w, k, at)
           IN /\ Shaped(p) /\ p.clock = w.clock /\ p.mode = w.mode /\ p.repl = w.repl
              /\ p.slots[k].present /\ p.slots[k].expire_at = at
              /\ p.slots[k].value = w.slots[k].value
<1> DEFINE old == w.slots[k]
           slot == [old EXCEPT !.present = TRUE, !.expire_at = at]
           slots == [w.slots EXCEPT ![k] = slot]
<1>1. old \in [present : BOOLEAN, value : Value \cup {EmptyStr}, expire_at : Int]
  BY DEF Shaped
<1>2. Placed(w, k, at) = [w EXCEPT !.slots = slots]
  BY DEF Placed, Shaped
<1> HIDE DEF old
<1>3. /\ slot \in [present : BOOLEAN, value : Value \cup {EmptyStr}, expire_at : Int]
      /\ slot.present /\ slot.expire_at = at /\ slot.value = old.value
  BY <1>1
<1> HIDE DEF slot
<1>4. slots \in [Key -> [present : BOOLEAN, value : Value \cup {EmptyStr}, expire_at : Int]]
      /\ slots[k] = slot
  BY <1>3 DEF Shaped
<1> HIDE DEF slots
<1> QED
  BY <1>2, <1>3, <1>4 DEF Shaped, old

\* A time of the past that is not the sentinel makes its key expired.
LEMMA PlacedInThePast ==
    ASSUME NEW w, Shaped(w), ~w.mode.allow_access_expired, NEW k \in Key,
           NEW at \in Elapsed(w.clock), at # NoExpire
    PROVE  Elapsing(Placed(w, k, at), k)
<1>1. at \in Int /\ w.clock > at
  BY SpreadAssumption DEF Elapsed, Shaped
<1> QED
  BY <1>1, PlacedWorld DEF Elapsing, KeyIsExpired

\* A key that was put in the past of a drawn world is expired, under any mode.
LEMMA PlacedDrawn ==
    ASSUME NEW w, Drawn(w), NEW mode, ~mode.allow_access_expired, NEW k \in Key,
           NEW at \in Elapsed(w.clock), at # NoExpire
    PROVE  LET p == Placed(Under(w, mode), k, at)
           IN Elapsing(p, k) /\ p.mode = mode /\ p.repl = <<>> /\ p.clock = w.clock
<1> DEFINE pinned == Under(w, mode)
<1>1. /\ Shaped(pinned) /\ pinned.clock = w.clock /\ pinned.mode = mode
      /\ pinned.repl = <<>> /\ w.clock \in Nat
  BY DrawnWorld
<1> HIDE DEF pinned
<1>2. at \in Int
  BY <1>1, SpreadAssumption DEF Elapsed
<1>3. Elapsing(Placed(pinned, k, at), k)
  BY <1>1, PlacedInThePast
<1> QED
  BY <1>1, <1>2, <1>3, PlacedWorld DEF pinned

LEMMA PlacedPinned ==
    ASSUME NEW w, Drawn(w), NEW k \in Key, NEW at \in Elapsed(w.clock), at # NoExpire
    PROVE  LET p == Placed(Pinned(w), k, at)
           IN Elapsing(p, k) /\ p.mode = StandaloneMaster /\ p.repl = <<>>
<1>1. Pinned(w) = Under(w, StandaloneMaster)
  BY DEF Pinned, Under
<1>2. ~StandaloneMaster.allow_access_expired
  BY DEF StandaloneMaster
<1> QED
  BY <1>1, <1>2, PlacedDrawn

-----------------------------------------------------------------------------
(***************************************************************************)
(* specs/string_rules.rs                                                   *)
(***************************************************************************)
LEMMA SetIntegrityRule == ASSUME Drawn(world), StringSetIntegrity PROVE RuleInv'
<1> DEFINE cmd(k, v) == PlainSet(k, v, "Always", NoTtl)
           replied(r) == r.reply = OkReply
           stored(r, k, v) ==
             r.world.slots[k] = [present |-> TRUE, value |-> v, expire_at |-> NoExpire]
           others(w, r, k) == \A j \in Key \ {k} :
             /\ r.world.slots[j].present = w.slots[j].present
             /\ r.world.slots[j].expire_at = w.slots[j].expire_at
           asserts(w, r, k, v) == <<replied(r), stored(r, k, v), others(w, r, k)>>
           p == Pinned(world)
<1>1. PICK k \in Key, v \in Value : \E w \in {p} : \E r \in Runs(w, cmd(k, v)) :
        Ran("string_set_integrity", r.world, FALSE, asserts(w, r, k, v))
  BY DEF StringSetIntegrity
<1> DEFINE q == Exec(p, cmd(k, v))
<1>2. NoTtl \in TtlArg /\ NoTtl.kind = "None" /\ "Always" \in SetCond
  BY DEF NoTtl, TtlArg, SetCond
<1>3. SetOutcome(p, q, k, v, "Always", NoTtl)
  BY <1>2, PinnedWorld, SetOnMaster
<1> HIDE DEF q, p
<1>4. /\ q.reply = OkReply
      /\ q.world.slots[k] = [present |-> TRUE, value |-> v, expire_at |-> NoExpire]
      /\ \A j \in Key \ {k} : q.world.slots[j] = p.slots[j]
  BY <1>2, <1>3 DEF SetOutcome, SetAllowed, NewExpire
<1> HIDE DEF asserts, cmd
<1>5. Ran("string_set_integrity", q.world, FALSE, asserts(p, q, k, v))
  BY <1>1 DEF Runs, q
<1>6. replied(q) /\ stored(q, k, v) /\ others(p, q, k)
  BY <1>4
<1> HIDE DEF replied, stored, others
<1>7. Passed(asserts(p, q, k, v))
  BY <1>6, PassedThree, Zenon DEF asserts
<1> QED
  BY <1>5, <1>7, RuleKeeps DEF F01Rule

LEMMA SetTtlRule == ASSUME Drawn(world), StringSetTtlArgument PROVE RuleInv'
<1> DEFINE cmd(k, v, ttl) == PlainSet(k, v, "Always", ttl)
           installed(w, r, k, ttl) == TtlInstalled(w, r.world, k, ttl)
           asserts(w, r, k, ttl) == <<installed(w, r, k, ttl)>>
           p == Pinned(world)
<1>1. PICK k \in Key, v \in Value, ttl \in TtlArg :
        \E w \in {p} : \E r \in Runs(w, cmd(k, v, ttl)) :
           Ran("string_set_ttl_argument", r.world, FALSE, asserts(w, r, k, ttl))
  BY DEF StringSetTtlArgument
<1> DEFINE q == Exec(p, cmd(k, v, ttl))
           exists == LogicallyPresent(p, k)
<1>2. SetOutcome(p, q, k, v, "Always", ttl)
  BY PinnedWorld, SetOnMaster DEF SetCond
<1> HIDE DEF q, p
<1>3. /\ q.world.clock = p.clock
      /\ ttl.kind = "PxAt" /\ ttl.at <= p.clock => ~q.world.slots[k].present
      /\ ~(ttl.kind = "PxAt" /\ ttl.at <= p.clock) =>
            q.world.slots[k] = [present |-> TRUE, value |-> v,
                                expire_at |-> NewExpire(p, k, ttl, exists)]
  BY <1>2 DEF SetOutcome, SetAllowed
<1> HIDE DEF asserts, cmd
<1>4. Ran("string_set_ttl_argument", q.world, FALSE, asserts(p, q, k, ttl))
  BY <1>1 DEF Runs, q
<1> HIDE DEF exists
<1>5. installed(p, q, k, ttl)
  <2>1. CASE ttl.kind = "None"
    BY <1>3, <2>1 DEF TtlInstalled, NewExpire
  <2>2. CASE ttl.kind = "Keep"
    BY <1>3, <2>2 DEF TtlInstalled, NewExpire, exists
  <2>3. CASE ttl.kind = "PxAt"
    <3>1. CASE ttl.at <= p.clock
      BY <1>3, <2>3, <3>1 DEF TtlInstalled
    <3>2. CASE ~(ttl.at <= p.clock)
      BY <1>3, <2>3, <3>2 DEF TtlInstalled, NewExpire
    <3> QED
      BY <3>1, <3>2
  <2> QED
    BY <2>1, <2>2, <2>3 DEF TtlArg, NoTtl, KeepTtl, PxAt
<1> HIDE DEF installed
<1>6. Passed(asserts(p, q, k, ttl))
  BY <1>5, PassedOne, Zenon DEF asserts
<1> QED
  BY <1>4, <1>6, RuleKeeps DEF F01Rule

LEMMA SetNxXxRule == ASSUME Drawn(world), StringSetNxXx PROVE RuleInv'
<1> DEFINE cmd(k, v, cond) == PlainSet(k, v, cond, NoTtl)
           replied(w, r, k, cond) ==
             (r.reply = OkReply) = (LogicallyPresent(w, k) = (cond = "Xx"))
           kept(w, r, k) ==
             r.reply # OkReply /\ r.world.slots[k].present
                => r.world.slots[k].value = w.slots[k].value
           asserts(w, r, k, cond) == <<replied(w, r, k, cond), kept(w, r, k)>>
           p == Pinned(world)
<1>1. PICK k \in Key, v \in Value, cond \in {"Nx", "Xx"} :
        \E w \in {p} : \E r \in Runs(w, cmd(k, v, cond)) :
           Ran("string_set_nx_xx_uses_logical_existence", r.world, FALSE,
               asserts(w, r, k, cond))
  BY DEF StringSetNxXx
<1> DEFINE q == Exec(p, cmd(k, v, cond))
           exists == LogicallyPresent(p, k)
           allowed == SetAllowed(cond, exists)
<1>2. SetOutcome(p, q, k, v, cond, NoTtl)
  <2>1. NoTtl \in TtlArg /\ NoTtl.kind = "None" /\ cond \in SetCond
    BY DEF NoTtl, TtlArg, SetCond
  <2> QED
    BY <2>1, PinnedWorld, SetOnMaster
<1> HIDE DEF p, q
<1>3. /\ q.reply = IF allowed THEN OkReply ELSE NilReply
      /\ ~allowed /\ q.world.slots[k].present => q.world.slots[k] = p.slots[k]
  BY <1>2 DEF SetOutcome
<1> HIDE DEF asserts, cmd
<1>4. Ran("string_set_nx_xx_uses_logical_existence", q.world, FALSE,
          asserts(p, q, k, cond))
  BY <1>1 DEF Runs, q
<1> HIDE DEF allowed
<1>5. q.reply = OkReply <=> allowed
  BY <1>3 DEF OkReply, NilReply
<1>6. exists \in BOOLEAN
  BY DEF LogicallyPresent, KeyIsExpired
<1> HIDE DEF exists
<1>7. allowed <=> (exists <=> cond = "Xx")
  BY <1>6 DEF SetAllowed, allowed
<1>8. replied(p, q, k, cond)
  BY <1>5, <1>6, <1>7 DEF exists
<1>9. kept(p, q, k)
  BY <1>3, <1>5
<1> HIDE DEF replied, kept
<1>10. Passed(asserts(p, q, k, cond))
  BY <1>8, <1>9, PassedTwo, Zenon DEF asserts
<1> QED
  BY <1>4, <1>10, RuleKeeps DEF F01Rule

-----------------------------------------------------------------------------
(***************************************************************************)
(* specs/expire_rules.rs                                                   *)
(***************************************************************************)
LEMMA RunsAre ==
    ASSUME NEW w, NEW k
    PROVE  /\ Exec(w, Scan("Keys")) = CmdKeys(w)
           /\ Exec(w, Scan("DbSize")) = CmdDbSize(w)
           /\ \A op \in {"Get", "Exists"} :
                Exec(w, On(op, k)) = Answered(LookupKeyRead(w, k), op, k)
  BY DEF Exec, Scan, On, LookupOp, CmdLookup

LEMMA VisibilitySplitRule == ASSUME RuleInv, ExpireVisibilitySplit PROVE RuleInv'
<1> DEFINE a1(w, k) == KeyIsExpired(w, k)
           a2(keys, k) == k \notin keys.reply.keys
           a3(keys, k) == keys.world.slots[k].present
           a4(w, keys) == Len(keys.world.repl) = Len(w.repl)
           a5(n, k) == n.world.slots[k].present
           a6(e) == e.reply = IntReply(0)
           a7(e, k) == ~e.world.slots[k].present
           a8(n, m) == m.reply.n = n.reply.n - 1
           asserts(w, keys, n, e, m, k) ==
             <<a1(w, k), a2(keys, k), a3(keys, k), a4(w, keys), a5(n, k), a6(e), a7(e, k),
               a8(n, m)>>
           placed(k, at) == Placed(Pinned(world), k, at)
<1>1. PICK k \in Key, at \in Elapsed(world.clock) :
        \E w \in {placed(k, at)} : \E keys \in Runs(w, Scan("Keys")) :
        \E n \in Runs(keys.world, Scan("DbSize")) :
        \E e \in Runs(n.world, On("Exists", k)) : \E m \in Runs(e.world, Scan("DbSize")) :
           Ran("expire_visibility_split", m.world, at = NoExpire,
               asserts(w, keys, n, e, m, k))
  BY DEF ExpireVisibilitySplit
<1> DEFINE sentinel == at = NoExpire
           p == placed(k, at)
           keys == Exec(p, Scan("Keys"))
           n == Exec(keys.world, Scan("DbSize"))
           e == Exec(n.world, On("Exists", k))
           m == Exec(e.world, Scan("DbSize"))
<1> HIDE DEF asserts
<1>2. Ran("expire_visibility_split", m.world, sentinel, asserts(p, keys, n, e, m, k))
  BY <1>1 DEF Runs
<1>3. ASSUME ~sentinel PROVE Passed(asserts(p, keys, n, e, m, k))
  <2>1. /\ Elapsing(p, k) /\ p.mode = StandaloneMaster
    <3>1. Drawn(world)
      BY <1>2 DEF Ran, RuleInv
    <3> QED
      BY <1>3, <3>1, PlacedPinned
  <2>2. keys = CmdKeys(p) /\ n = CmdDbSize(keys.world)
        /\ e = Answered(LookupKeyRead(n.world, k), "Exists", k) /\ m = CmdDbSize(e.world)
    BY RunsAre
  <2> HIDE DEF p, keys, n, e, m
  <2> DEFINE read == LookupKeyRead(p, k)
             there(s) == {j \in Key : s[j].present}
  <2>3. keys.world = p /\ keys.reply.keys = VisibleKeys(p)
    BY <2>2 DEF CmdKeys, Result, KeySetReply
  <2>4. n.world = p /\ n.reply.n = Cardinality(there(p.slots))
    BY <2>2, <2>3 DEF CmdDbSize, Result, IntReply
  <2>5. /\ read.value = NoValue
        /\ read.world.slots = [p.slots EXCEPT ![k] = AbsentSlot]
    BY <2>1, ElapsedLookup DEF LookupKeyRead
  <2> HIDE DEF read
  <2>6. e.world = read.world /\ e.reply = IntReply(0)
    BY <2>2, <2>4, <2>5 DEF Answered, Result, LookupReply, read
  <2>7. m.reply.n = Cardinality(there(e.world.slots))
    BY <2>2 DEF CmdDbSize, Result, IntReply
  <2>8. there(e.world.slots) = there(p.slots) \ {k} /\ k \in there(p.slots)
    BY <2>1, <2>5, <2>6 DEF Elapsing, Shaped, AbsentSlot
  <2>9. m.reply.n = n.reply.n - 1
    <3>1. IsFiniteSet(there(p.slots))
      BY KeysAssumption, FS_Subset
    <3> HIDE DEF there
    <3> QED
      BY <2>4, <2>7, <2>8, <3>1, FS_RemoveElement
  <2>10. a1(p, k) /\ a2(keys, k) /\ a3(keys, k) /\ a4(p, keys)
    BY <2>1, <2>3 DEF Elapsing, VisibleKeys
  <2>11. a5(n, k) /\ a6(e) /\ a7(e, k) /\ a8(n, m)
    BY <2>1, <2>4, <2>5, <2>6, <2>9 DEF Elapsing, Shaped, AbsentSlot
  <2> HIDE DEF a1, a2, a3, a4, a5, a6, a7, a8
  <2> QED
    BY <2>10, <2>11, PassedEight, Zenon DEF asserts
<1> HIDE DEF p, keys, n, e, m
<1> QED
  BY <1>2, <1>3, RuleKeeps DEF F01Rule
LEMMA LazyActiveRule == ASSUME Drawn(world), ExpireLazyActiveBoundary PROVE RuleInv'
<1> DEFINE a1(w, k) == ~KeyIsExpired(w, k)
           a2(w, k) == ActiveCycleWouldExpire(w, k)
           a3(g) == g.reply # NilReply
           a4(g, k) == g.world.slots[k].present
           a5(u, k) == ~u.slots[k].present
           asserts(w, g, u, k) == <<a1(w, k), a2(w, k), a3(g), a4(g, k), a5(u, k)>>
           placed(k) == Placed(Pinned(world), k, world.clock)
<1>1. PICK k \in Key : \E w \in {placed(k)} : \E g \in Runs(w, On("Get", k)) :
        \E u \in {ActiveExpireCycle(g.world)} :
           Ran("expire_lazy_active_boundary", u, FALSE, asserts(w, g, u, k))
  BY DEF ExpireLazyActiveBoundary
<1> DEFINE p == placed(k)
           g == Exec(p, On("Get", k))
           u == ActiveExpireCycle(g.world)
<1> HIDE DEF asserts
<1>2. Ran("expire_lazy_active_boundary", u, FALSE, asserts(p, g, u, k))
  BY <1>1 DEF Runs
<1>3. /\ Shaped(p) /\ p.mode = StandaloneMaster
      /\ p.slots[k].present /\ p.slots[k].expire_at = p.clock /\ p.clock \in Nat
  BY PinnedWorld, PlacedWorld
<1>4. g = Answered(LookupKeyRead(p, k), "Get", k)
  BY RunsAre
<1> HIDE DEF p, g
<1>5. a1(p, k) /\ a2(p, k)
  BY <1>3 DEF KeyIsExpired, ActiveCycleWouldExpire, NoExpire
<1>6. LookupKeyRead(p, k) = [world |-> p, value |-> p.slots[k].value]
  BY <1>3, <1>5, MasterLookup DEF LookupKeyRead, LogicallyPresent
<1>7. g.world = p /\ g.reply = StrReply(p.slots[k].value)
  BY <1>4, <1>6 DEF Answered, Result, LookupReply
<1>8. a3(g) /\ a4(g, k)
  BY <1>3, <1>7, StringIsFound DEF StrReply, NilReply
<1> DEFINE due == {j \in Key : p.slots[j].present /\ ActiveCycleWouldExpire(p, j)}
<1>9. u = DeleteExpiredAndPropagate(p, due)
  BY <1>3, <1>7 DEF ActiveExpireCycle, StandaloneMaster
<1>10. k \in due /\ due \subseteq Key
  BY <1>3, <1>5
<1> HIDE DEF due, u
<1>11. u.slots = [j \in Key |-> IF j \in due THEN AbsentSlot ELSE p.slots[j]]
  BY <1>3, <1>9, <1>10, DeleteBlanks
<1>12. a5(u, k)
  BY <1>10, <1>11 DEF AbsentSlot
<1> HIDE DEF a1, a2, a3, a4, a5
<1>13. Passed(asserts(p, g, u, k))
  BY <1>5, <1>8, <1>12, PassedFive, Zenon DEF asserts
<1> QED
  BY <1>2, <1>13, RuleKeeps DEF F01Rule

\* EXPIRE on a standalone master, of a key that has not expired: refused, or its
\* TTL is assigned.
LEMMA ExpireOnMaster ==
    ASSUME NEW w, Shaped(w), w.mode = StandaloneMaster, NEW k \in Key,
           LogicallyPresent(w, k), NEW at \in Int, at > w.clock, NEW cond
    PROVE  LET refused == ExpireRefused(w.slots[k].expire_at, at, cond)
               r == CmdExpire(w, k, at, cond)
           IN /\ r.reply = IntReply(IF refused THEN 0 ELSE 1)
              /\ r.world.slots[k].expire_at =
                    IF refused THEN w.slots[k].expire_at ELSE at
<1> DEFINE old == w.slots[k]
           slot == [old EXCEPT !.expire_at = at]
           refused == ExpireRefused(old.expire_at, at, cond)
           u == WriteSlot(w, k, slot, PExpireAtEffect(k, at))
<1>1. LookupKeyWrite(w, k) = [world |-> w, value |-> old.value]
  BY MasterLookup DEF LookupKeyWrite
<1>2. old.value # NoValue
  BY StringIsFound
<1>3. ~CheckAlreadyExpired(w, at)
  BY DEF CheckAlreadyExpired, Shaped
<1>4. CmdExpire(w, k, at, cond) = IF refused THEN Result(w, IntReply(0))
                                  ELSE Result(u, IntReply(1))
  BY <1>1, <1>2, <1>3 DEF CmdExpire, ExpireFound
<1>5. old \in [present : BOOLEAN, value : Value \cup {EmptyStr}, expire_at : Int]
  BY DEF Shaped
<1> HIDE DEF refused
<1>6. ~refused => u.slots[k].expire_at = at
  <2> HIDE DEF old
  <2>1. slot \in [present : BOOLEAN, value : Value \cup {EmptyStr}, expire_at : Int]
        /\ slot.expire_at = at
    BY <1>5
  <2> HIDE DEF slot
  <2>2. u.slots = [w.slots EXCEPT ![k] = slot]
    BY <2>1, WriteAssigns
  <2> QED
    BY <2>1, <2>2 DEF Shaped
<1> HIDE DEF u
<1> QED
  BY <1>4, <1>6 DEF Result, refused

LEMMA ConditionRule == ASSUME Drawn(world), ExpireConditionSemantics PROVE RuleInv'
<1> DEFINE cmd(k, at, cond) == [op |-> "Expire", key |-> k, at |-> at, cond |-> cond]
           replied(r, current, at, cond) ==
             (r.reply = IntReply(1)) = ConditionMet(cond, current, at)
           timed(r, k, current, at) ==
             r.world.slots[k].expire_at = IF r.reply = IntReply(1) THEN at ELSE current
           asserts(r, k, current, at, cond) ==
             <<replied(r, current, at, cond), timed(r, k, current, at)>>
           placed(k, current) == Placed(Pinned(world), k, current)
<1>1. PICK k \in Key, current \in {NoExpire} \cup Coming(world.clock, Spread),
           at \in Coming(world.clock, 2 * Spread), cond \in ExpireCond :
        \E r \in Runs(placed(k, current), cmd(k, at, cond)) :
           Ran("expire_condition_semantics", r.world, FALSE,
               asserts(r, k, current, at, cond))
  BY DEF ExpireConditionSemantics
<1> DEFINE p == placed(k, current)
           r == Exec(p, cmd(k, at, cond))
           refused == ExpireRefused(current, at, cond)
<1> HIDE DEF asserts
<1>2. Ran("expire_condition_semantics", r.world, FALSE, asserts(r, k, current, at, cond))
  BY <1>1 DEF Runs
<1>3. /\ world.clock \in Nat /\ current \in Int /\ at \in Int /\ at > world.clock
      /\ current = NoExpire \/ current > world.clock
  <2>1. world.clock \in Nat
    BY PinnedWorld
  <2> QED
    BY <2>1, SpreadAssumption DEF Coming, NoExpire
<1>4. /\ Shaped(p) /\ p.mode = StandaloneMaster /\ p.clock = world.clock
      /\ p.slots[k].present /\ p.slots[k].expire_at = current
  <2> DEFINE w == Pinned(world)
  <2>1. Shaped(w) /\ w.mode = StandaloneMaster /\ w.clock = world.clock
    BY PinnedWorld
  <2> HIDE DEF w
  <2>2. LET v == Placed(w, k, current)
        IN /\ Shaped(v) /\ v.clock = w.clock /\ v.mode = w.mode
           /\ v.slots[k].present /\ v.slots[k].expire_at = current
    BY <1>3, <2>1, PlacedWorld
  <2> QED
    BY <2>1, <2>2 DEF w
<1> HIDE DEF p
<1>5. r = CmdExpire(p, k, at, cond)
  BY DEF Exec, LookupOp
<1> HIDE DEF r, cmd
<1>6. LogicallyPresent(p, k)
  BY <1>3, <1>4 DEF LogicallyPresent, KeyIsExpired
<1>7. /\ r.reply = IntReply(IF refused THEN 0 ELSE 1)
      /\ r.world.slots[k].expire_at = IF refused THEN current ELSE at
  BY <1>3, <1>4, <1>5, <1>6, ExpireOnMaster
<1>8. refused <=> ~ConditionMet(cond, current, at)
  <2>1. CASE cond \in {"None", "Nx", "Xx"}
    BY <2>1 DEF ExpireRefused, ConditionMet
  <2>2. CASE cond = "Gt"
    BY <1>3, <2>2 DEF ExpireRefused, ConditionMet
  <2>3. CASE cond = "Lt"
    BY <1>3, <2>3 DEF ExpireRefused, ConditionMet
  <2> QED
    BY <2>1, <2>2, <2>3 DEF ExpireCond
<1>9. ConditionMet(cond, current, at) \in BOOLEAN
  BY DEF ConditionMet, ExpireCond
<1> HIDE DEF refused
<1>10. r.reply = IntReply(1) <=> ~refused
  BY <1>7 DEF IntReply
<1>11. replied(r, current, at, cond)
  BY <1>8, <1>9, <1>10
<1>12. timed(r, k, current, at)
  BY <1>7, <1>10
<1> HIDE DEF replied, timed
<1>13. Passed(asserts(r, k, current, at, cond))
  BY <1>11, <1>12, PassedTwo, Zenon DEF asserts
<1> QED
  BY <1>2, <1>13, RuleKeeps DEF F01Rule

LEMMA PropagatesRule == ASSUME Drawn(world), ExpireLazyPropagates PROVE RuleInv'
<1> DEFINE a1(w, g) == Len(g.world.repl) = Len(w.repl) + 1
           a2(w, g, k) == /\ Len(g.world.repl) > Len(w.repl)
                          /\ g.world.repl[Len(w.repl) + 1] = DelEffect(k)
           asserts(w, g, k) == <<a1(w, g), a2(w, g, k)>>
           placed(k, at) == Placed(Pinned(world), k, at)
<1>1. PICK k \in Key, at \in Elapsed(world.clock) :
        \E w \in {placed(k, at)} : \E g \in Runs(w, On("Get", k)) :
           Ran("expire_lazy_propagates_bare_del", g.world, at = NoExpire, asserts(w, g, k))
  BY DEF ExpireLazyPropagates
<1> DEFINE sentinel == at = NoExpire
           p == placed(k, at)
           g == Exec(p, On("Get", k))
<1> HIDE DEF asserts
<1>2. Ran("expire_lazy_propagates_bare_del", g.world, sentinel, asserts(p, g, k))
  BY <1>1 DEF Runs
<1>3. ASSUME ~sentinel PROVE Passed(asserts(p, g, k))
  <2>1. Elapsing(p, k) /\ p.mode = StandaloneMaster /\ p.repl = <<>>
    BY <1>3, PlacedPinned
  <2>2. g = Answered(LookupKeyRead(p, k), "Get", k)
    BY RunsAre
  <2> HIDE DEF p, g
  <2>3. LookupKeyRead(p, k).world.repl = <<DelEffect(k)>>
    BY <2>1, ElapsedLookup DEF LookupKeyRead
  <2>4. g.world.repl = <<DelEffect(k)>>
    BY <2>2, <2>3 DEF Answered, Result
  <2>5. a1(p, g) /\ a2(p, g, k)
    BY <2>1, <2>4
  <2> HIDE DEF a1, a2
  <2> QED
    BY <2>5, PassedTwo, Zenon DEF asserts
<1> HIDE DEF p, g
<1> QED
  BY <1>2, <1>3, RuleKeeps DEF F01Rule

\* On a read-only replica a lookup deletes nothing.  Whether it hides an expired
\* key depends on who asks.
LEMMA ReplicaLookup ==
    ASSUME NEW w, NEW k \in Key, Elapsing(w, k), NEW caller \in {"Normal", "MasterLink"},
           w.mode = [StandaloneMaster EXCEPT !.role = "ReadOnlyReplica", !.caller = caller]
    PROVE  LookupKeyRead(w, k) =
             [world |-> w, value |-> IF caller = "MasterLink" THEN w.slots[k].value
                                     ELSE NoValue]
<1>1. w.mode.role = "ReadOnlyReplica" /\ w.mode.caller = caller
  BY DEF StandaloneMaster
<1> QED
  BY <1>1 DEF LookupKeyRead, Lookup, Found, ExpireIfNeeded, SeenFromMaster, HiddenInPlace,
              ReadFlags, Elapsing

LEMMA ReplicaHidesRule == ASSUME Drawn(world), ExpireReplicaHides PROVE RuleInv'
<1> DEFINE a1(g) == g.reply = NilReply
           a2(g, k) == g.world.slots[k].present
           a3(w, g) == Len(g.world.repl) = Len(w.repl)
           asserts(w, g, k) == <<a1(g), a2(g, k), a3(w, g)>>
           placed(k, at) == Placed(PinnedReplica(world, "Normal"), k, at)
<1>1. PICK k \in Key, at \in Elapsed(world.clock) :
        \E w \in {placed(k, at)} : \E g \in Runs(w, On("Get", k)) :
           Ran("expire_replica_hides_without_deleting", g.world, at = NoExpire,
               asserts(w, g, k))
  BY DEF ExpireReplicaHides
<1> DEFINE sentinel == at = NoExpire
           p == placed(k, at)
           g == Exec(p, On("Get", k))
           mode == [StandaloneMaster EXCEPT !.role = "ReadOnlyReplica",
                                            !.caller = "Normal"]
<1> HIDE DEF asserts
<1>2. Ran("expire_replica_hides_without_deleting", g.world, sentinel, asserts(p, g, k))
  BY <1>1 DEF Runs
<1>3. ASSUME ~sentinel PROVE Passed(asserts(p, g, k))
  <2>1. ~mode.allow_access_expired
    BY DEF StandaloneMaster
  <2>2. Elapsing(p, k) /\ p.mode = mode
    <3> HIDE DEF mode
    <3>1. PinnedReplica(world, "Normal") = Under(world, mode)
      BY DEF PinnedReplica, Under, mode
    <3> QED
      BY <1>3, <2>1, <3>1, PlacedDrawn
  <2>3. g = Answered(LookupKeyRead(p, k), "Get", k)
    BY RunsAre
  <2> HIDE DEF p, g
  <2>4. LookupKeyRead(p, k) = [world |-> p, value |-> NoValue]
    BY <2>2, ReplicaLookup
  <2>5. a1(g) /\ a2(g, k) /\ a3(p, g)
    BY <2>2, <2>3, <2>4 DEF Answered, Result, LookupReply, StrReply, Elapsing
  <2> HIDE DEF a1, a2, a3
  <2> QED
    BY <2>5, PassedThree, Zenon DEF asserts
<1> HIDE DEF p, g
<1> QED
  BY <1>2, <1>3, RuleKeeps DEF F01Rule
\* A rule may also assign the whole slot.
LEMMA PlacedValueWorld ==
    ASSUME NEW w, Shaped(w), NEW k \in Key, NEW v \in Value, NEW at \in Int
    PROVE  LET p == PlacedValue(w, k, v, at)
           IN /\ Shaped(p) /\ p.clock = w.clock /\ p.mode = w.mode /\ p.repl = w.repl
              /\ p.clients = w.clients /\ p.watched = w.watched
              /\ p.slots[k] = [present |-> TRUE, value |-> v, expire_at |-> at]
<1> DEFINE slot == [present |-> TRUE, value |-> v, expire_at |-> at]
           slots == [w.slots EXCEPT ![k] = slot]
<1>1. PlacedValue(w, k, v, at) = [w EXCEPT !.slots = slots]
  BY DEF PlacedValue, Shaped
<1>2. slot \in [present : BOOLEAN, value : Value \cup {EmptyStr}, expire_at : Int]
  OBVIOUS
<1> HIDE DEF slot
<1>3. slots \in [Key -> [present : BOOLEAN, value : Value \cup {EmptyStr}, expire_at : Int]]
      /\ slots[k] = slot
  BY <1>2 DEF Shaped
<1> HIDE DEF slots
<1>4. /\ Shaped([w EXCEPT !.slots = slots])
      /\ [w EXCEPT !.slots = slots].slots = slots
  BY <1>3 DEF Shaped
<1>5. LET p == [w EXCEPT !.slots = slots]
      IN /\ p.clock = w.clock /\ p.mode = w.mode /\ p.repl = w.repl
         /\ p.clients = w.clients /\ p.watched = w.watched
  BY DEF Shaped
<1> QED
  BY <1>1, <1>3, <1>4, <1>5 DEF slots, slot

LEMMA MasterLinkRule == ASSUME Drawn(world), ExpireMasterLink PROVE RuleInv'
<1> DEFINE a1(g) == g.reply # NilReply
           a2(g, k) == g.world.slots[k].present
           asserts(g, k) == <<a1(g), a2(g, k)>>
           placed(k, v, at) == PlacedValue(PinnedReplica(world, "MasterLink"), k, v, at)
<1>1. PICK k \in Key, v \in Value, at \in Elapsed(world.clock) :
        \E w \in {placed(k, v, at)} : \E g \in Runs(w, On("Get", k)) :
           Ran("expire_master_link_sees_expired_key_as_valid", g.world, at = NoExpire,
               asserts(g, k))
  BY DEF ExpireMasterLink
<1> DEFINE sentinel == at = NoExpire
           p == placed(k, v, at)
           g == Exec(p, On("Get", k))
           mode == [StandaloneMaster EXCEPT !.role = "ReadOnlyReplica",
                                            !.caller = "MasterLink"]
<1> HIDE DEF asserts
<1>2. Ran("expire_master_link_sees_expired_key_as_valid", g.world, sentinel, asserts(g, k))
  BY <1>1 DEF Runs
<1>3. ASSUME ~sentinel PROVE Passed(asserts(g, k))
  <2>1. ~mode.allow_access_expired
    BY DEF StandaloneMaster
  <2>2. Elapsing(p, k) /\ p.mode = mode
    <3> DEFINE pinned == Under(world, mode)
    <3> HIDE DEF mode
    <3>1. PinnedReplica(world, "MasterLink") = pinned
      BY DEF PinnedReplica, Under, mode
    <3>2. /\ Shaped(pinned) /\ pinned.clock = world.clock /\ pinned.mode = mode
          /\ world.clock \in Nat
      BY DrawnWorld
    <3> HIDE DEF pinned
    <3>3. at \in Int /\ world.clock > at
      BY <3>2, SpreadAssumption DEF Elapsed
    <3> DEFINE u == PlacedValue(pinned, k, v, at)
    <3>4. /\ Shaped(u) /\ u.clock = pinned.clock /\ u.mode = pinned.mode
          /\ u.slots[k] = [present |-> TRUE, value |-> v, expire_at |-> at]
      BY <3>2, <3>3, PlacedValueWorld
    <3>5. p = u
      BY <3>1
    <3> HIDE DEF u, p
    <3> QED
      BY <1>3, <2>1, <3>2, <3>3, <3>4, <3>5 DEF Elapsing, KeyIsExpired
  <2>3. g = Answered(LookupKeyRead(p, k), "Get", k)
    BY RunsAre
  <2> HIDE DEF p, g
  <2>4. LookupKeyRead(p, k) = [world |-> p, value |-> p.slots[k].value]
    BY <2>2, ReplicaLookup
  <2>5. p.slots[k].value # NoValue
    BY <2>2, StringIsFound DEF Elapsing
  <2>6. a1(g) /\ a2(g, k)
    BY <2>2, <2>3, <2>4, <2>5 DEF Answered, Result, LookupReply, StrReply, NilReply, Elapsing
  <2> HIDE DEF a1, a2
  <2> QED
    BY <2>6, PassedTwo, Zenon DEF asserts
<1> HIDE DEF p, g
<1> QED
  BY <1>2, <1>3, RuleKeeps DEF F01Rule

-----------------------------------------------------------------------------
(***************************************************************************)
(* specs/keyspace_rules.rs                                                 *)
(***************************************************************************)
LEMMA SubsetRule == ASSUME Drawn(world), ExpiresSubsetOfKeysRule PROVE RuleInv'
<1> DEFINE a(r) == NoTtlWithoutKey(r.world)
           asserts(r) == <<a(r)>>
           p == Pinned(world)
<1>1. PICK cmd \in DrawnCmd : \E w \in {p} : \E r \in {RunCmd(w, cmd)} :
        Ran("keyspace_expires_subset_of_keys", r.world, FALSE, asserts(r))
  BY DEF ExpiresSubsetOfKeysRule
<1> DEFINE r == RunCmd(p, cmd)
<1> HIDE DEF asserts
<1>2. Ran("keyspace_expires_subset_of_keys", r.world, FALSE, asserts(r))
  BY <1>1
<1>3. Sound(p) /\ p.nesting = 0
  BY PinnedWorld
<1> HIDE DEF p
<1>4. Sound(r.world)
  BY <1>3, RunCmdSound DEF DrawnCmd, Command
<1> HIDE DEF r
<1>5. a(r)
  BY <1>4 DEF Sound, AbsentSlotsAreBlank, NoTtlWithoutKey, AbsentSlot
<1> HIDE DEF a
<1>6. Passed(asserts(r))
  BY <1>5, PassedOne, Zenon DEF asserts
<1> QED
  BY <1>2, <1>6, RuleKeeps DEF F01Rule

LEMMA ActiveExpiryRule == ASSUME Drawn(world), ActiveExpiryOnlyRemoves PROVE RuleInv'
<1> DEFINE a(w, u) == OnlyRemoves(w, u)
           asserts(w, u) == <<a(w, u)>>
           p == Pinned(world)
           u == ActiveExpireCycle(p)
           due == {k \in Key : p.slots[k].present /\ ActiveCycleWouldExpire(p, k)}
<1> HIDE DEF asserts
<1>1. Ran("keyspace_active_expiry_only_removes", u, FALSE, asserts(p, u))
  BY DEF ActiveExpiryOnlyRemoves, asserts
<1>2. Shaped(p) /\ p.mode = StandaloneMaster
  BY PinnedWorld
<1> HIDE DEF p
<1>3. u = DeleteExpiredAndPropagate(p, due)
  BY <1>2 DEF ActiveExpireCycle, StandaloneMaster
<1>4. \A k \in due : /\ p.slots[k].present /\ p.slots[k].expire_at # NoExpire
                     /\ p.clock >= p.slots[k].expire_at
  BY DEF ActiveCycleWouldExpire
<1>5. \A k \in Key : p.clock \in Int /\ p.slots[k].expire_at \in Int
  BY <1>2 DEF Shaped
<1>6. due \in SUBSET Key
  OBVIOUS
<1> HIDE DEF due
<1>7. DeleteExpiredAndPropagate(p, due).slots =
        [k \in Key |-> IF k \in due THEN AbsentSlot ELSE p.slots[k]]
  BY <1>2, <1>6, DeleteBlanks
<1> HIDE DEF u
<1>8. a(p, u)
  BY <1>3, <1>4, <1>5, <1>7 DEF OnlyRemoves, AbsentSlot
<1> HIDE DEF a
<1>9. Passed(asserts(p, u))
  BY <1>8, PassedOne, Zenon DEF asserts
<1> QED
  BY <1>1, <1>9, RuleKeeps DEF F01Rule

LEMMA DbSizeRule == ASSUME Drawn(world), DbSizeCountsPhysical PROVE RuleInv'
<1> DEFINE a1(w, r) ==
             r.reply = IntReply(Cardinality({k \in Key : w.slots[k].present}))
           a2(w, r) == \A k \in Key : r.world.slots[k].present = w.slots[k].present
           a3(w, r) == Len(r.world.repl) = Len(w.repl)
           asserts(w, r) == <<a1(w, r), a2(w, r), a3(w, r)>>
           p == Pinned(world)
           r == Exec(p, Scan("DbSize"))
<1> HIDE DEF asserts
<1>1. Ran("keyspace_dbsize_counts_physical", r.world, FALSE, asserts(p, r))
  BY DEF DbSizeCountsPhysical, Runs, asserts
<1>2. r = CmdDbSize(p)
  BY RunsAre
<1> HIDE DEF r, p
<1>3. a1(p, r) /\ a2(p, r) /\ a3(p, r)
  BY <1>2 DEF CmdDbSize, Result
<1> HIDE DEF a1, a2, a3
<1>4. Passed(asserts(p, r))
  BY <1>3, PassedThree, Zenon DEF asserts
<1> QED
  BY <1>1, <1>4, RuleKeeps DEF F01Rule
-----------------------------------------------------------------------------
(***************************************************************************)
(* specs/multi_rules.rs                                                    *)
(***************************************************************************)
\* SET of a plain value on a key that is there is one write.
LEMMA SetWrites ==
    ASSUME NEW w, Shaped(w), w.mode = StandaloneMaster, NEW k \in Key,
           LogicallyPresent(w, k), NEW v \in Value
    PROVE  Exec(w, PlainSet(k, v, "Always", NoTtl)).world =
             WriteSlot(w, k, [present |-> TRUE, value |-> v, expire_at |-> NoExpire],
                       SetEffect(k, v, NoExpire))
<1> DEFINE cmd == PlainSet(k, v, "Always", NoTtl)
           write == [world |-> w, value |-> w.slots[k].value]
<1>1. cmd.op = "Set" /\ cmd.key = k /\ cmd.val = v /\ cmd.cond = "Always"
      /\ cmd.ttl.kind = "None" /\ ~cmd.get
  BY DEF PlainSet, NoTtl
<1> HIDE DEF cmd
<1>2. LookupKeyWrite(w, k) = write
  BY MasterLookup DEF LookupKeyWrite
<1>3. Exec(w, cmd) = SetFound(LookupKeyWrite(w, k), NoValue, cmd)
  BY <1>1 DEF Exec, CmdSet, SetAfterGet, LookupOp
<1>4. write.world = w /\ write.value # NoValue
  BY StringIsFound
<1> HIDE DEF write
<1>5. NewExpire(w, k, cmd.ttl, TRUE) = NoExpire
  BY <1>1 DEF NewExpire
<1>6. SetFound(write, NoValue, cmd) =
        Result(WriteSlot(w, k, [present |-> TRUE, value |-> v, expire_at |-> NoExpire],
                         SetEffect(k, v, NoExpire)),
               SetReply(cmd, NoValue))
  BY <1>1, <1>4, <1>5 DEF SetFound, SetAllowed
<1> QED
  BY <1>2, <1>3, <1>6 DEF Result, cmd

LEMMA ValueBlindRule == ASSUME Drawn(world), WatchIsValueBlind PROVE RuleInv'
<1> DEFINE slot(v) == [present |-> TRUE, value |-> v, expire_at |-> NoExpire]
           a1(w, c) == ~w.clients[c].dirty_cas
           a2(r, k, v) == r.world.slots[k].value = v
           a3(r, c) == r.world.clients[c].dirty_cas
           asserts(w, r, k, v, c) == <<a1(w, c), a2(r, k, v), a3(r, c)>>
           placed(k, v) == PlacedValue(Pinned(world), k, v, NoExpire)
<1>1. PICK k \in Key, v \in Value, watcher \in Client :
        \E w \in {WatchKey(placed(k, v), watcher, k)} :
        \E r \in Runs(w, PlainSet(k, v, "Always", NoTtl)) :
           Ran("multi_watch_is_value_blind", r.world, FALSE, asserts(w, r, k, v, watcher))
  BY DEF WatchIsValueBlind
<1> DEFINE p == placed(k, v)
           w == WatchKey(p, watcher, k)
           r == Exec(w, PlainSet(k, v, "Always", NoTtl))
<1> HIDE DEF asserts
<1>2. Ran("multi_watch_is_value_blind", r.world, FALSE, asserts(w, r, k, v, watcher))
  BY <1>1 DEF Runs
<1>3. /\ Sound(p) /\ p.mode = StandaloneMaster /\ p.slots[k] = slot(v)
      /\ p.clients = [c \in Client |-> FreshClient]
  <2> DEFINE slots == [world.slots EXCEPT ![k] = slot(v)]
             master == Under(world, StandaloneMaster)
  <2>1. world.slots \in [Key -> DrawnSlot] /\ world.clock \in Nat
        /\ master = NewWorld(world.slots, world.clock, StandaloneMaster)
    BY DrawnWorld
  <2>2. p = NewWorld(slots, world.clock, StandaloneMaster)
    <3>1. p = [master EXCEPT !.slots = [master.slots EXCEPT ![k] = slot(v)]]
      BY DEF PlacedValue, Pinned, Under
    <3> HIDE DEF master
    <3> QED
      BY <2>1, <3>1 DEF NewWorld
  <2>3. slot(v) \in DrawnSlot
    BY DEF DrawnSlot
  <2>4. slots \in [Key -> DrawnSlot] /\ slots[k] = slot(v)
    <3> HIDE DEF slot
    <3> QED
      BY <2>1, <2>3
  <2> HIDE DEF slots, p, slot
  <2>5. p \in NondetWorld(world.clock, StandaloneMaster)
    BY <2>2, <2>4 DEF NondetWorld
  <2>6. Sound(p)
    BY <2>1, <2>5, NewWorldSound, PinnedAssumption
  <2> QED
    BY <2>2, <2>4, <2>6 DEF NewWorld
<1> HIDE DEF p
<1>4. /\ Sound(w) /\ w.slots = p.slots /\ w.mode = p.mode
      /\ k \in w.clients[watcher].watching /\ a1(w, watcher)
  <2>1. k \notin p.clients[watcher].watching /\ ~p.clients[watcher].dirty_cas
        /\ p.clients \in [Client -> ClientState]
    <3>1. p.clients[watcher] = FreshClient
      BY <1>3
    <3>2. FreshClient.watching = {} /\ FreshClient.dirty_cas = FALSE
      BY DEF FreshClient
    <3>3. p.clients \in [Client -> ClientState]
      BY <1>3 DEF Sound, World
    <3> QED
      BY <3>1, <3>2, <3>3
  <2>2. Sound(w)
    BY <1>3, WatchKeySound DEF SameUnit
  <2>3. w.slots = p.slots /\ w.mode = p.mode
    BY <2>1 DEF WatchKey, World
  <2> QED
    BY <2>1, <2>2, <2>3 DEF WatchKey, ClientState
<1> HIDE DEF w
<1>5. /\ Shaped(w) /\ w.mode = StandaloneMaster /\ LogicallyPresent(w, k)
      /\ ForcesDelete(w.mode) /\ Unflagged(w, k) /\ watcher \in Watchers(w, k)
  BY <1>3, <1>4, SoundShaped
     DEF LogicallyPresent, KeyIsExpired, ForcesDelete, SeenFromMaster, StandaloneMaster,
         Sound, FlagsAreFresh, Unflagged, TableIsConsistent
<1> DEFINE u == WriteSlot(w, k, slot(v), SetEffect(k, v, NoExpire))
<1>6. r.world = u
  BY <1>5, SetWrites
<1> HIDE DEF r
<1>7. slot(v) \in Slot /\ slot(v).present /\ SetEffect(k, v, NoExpire) \in Effect
  BY DEF Slot, Effect, SetEffect
<1> HIDE DEF slot
<1>8. u.slots = [w.slots EXCEPT ![k] = slot(v)]
  BY <1>4, <1>7, WriteSlotSlots
<1>9. Dirtied(w, u, k)
  BY <1>4, <1>5, <1>7, WriteSlotSound
<1> HIDE DEF u
<1>10. a2(r, k, v)
  BY <1>5, <1>6, <1>8 DEF Shaped, slot
<1>11. a3(r, watcher)
  BY <1>5, <1>6, <1>9 DEF Dirtied, Unflagged
<1> HIDE DEF a1, a2, a3
<1>12. Passed(asserts(w, r, k, v, watcher))
  BY <1>4, <1>10, <1>11, PassedThree, Zenon DEF asserts
<1> QED
  BY <1>2, <1>12, RuleKeeps DEF F01Rule
\* WATCH of a key that the client does not watch, in any world
WatchOutcome(w, u, c, k) ==
    /\ Shaped(u) /\ u.slots = w.slots /\ u.mode = w.mode /\ u.clock = w.clock
    /\ u.clients \in [Client -> ClientState]
    /\ \A d \in Client \ {c} : u.clients[d] = w.clients[d]
    /\ u.clients[c].dirty_cas = w.clients[c].dirty_cas
    /\ k \in u.clients[c].watched_expired <=> w.slots[k].present /\ KeyIsExpired(w, k)
    /\ u.watched \in [Key -> SUBSET (Client \X Client)]
    /\ u.watched[k] = AddTail(w.watched[k], c)

LEMMA WatchAssigns ==
    ASSUME NEW w, Shaped(w), NEW c \in Client, NEW k \in Key,
           w.clients \in [Client -> ClientState], k \notin w.clients[c].watching,
           w.watched \in [Key -> SUBSET (Client \X Client)]
    PROVE  WatchOutcome(w, WatchKey(w, c, k), c, k)
<1> DEFINE u == WatchKey(w, c, k)
           expired_now == w.slots[k].present /\ KeyIsExpired(w, k)
           old == w.clients[c]
           client == [old EXCEPT
                        !.watching = @ \cup {k},
                        !.watched_expired =
                            IF expired_now THEN @ \cup {k} ELSE @ \ {k}]
           list == [w.watched EXCEPT ![k] = AddTail(@, c)]
           clients == [w.clients EXCEPT ![c] = client]
<1>1. u = [w EXCEPT !.clients = clients, !.watched = list]
  BY DEF WatchKey, Shaped
<1>2. old \in ClientState
  OBVIOUS
<1>7. /\ list \in [Key -> SUBSET (Client \X Client)]
      /\ list[k] = AddTail(w.watched[k], c)
  <2> DEFINE before == w.watched[k]
             added == {<<d, c>> : d \in Members(before) \cup {c}}
  <2>2. \A d \in Members(before) \cup {c} : <<d, c>> \in Client \X Client
    BY DEF Members
  <2>3. added \subseteq Client \X Client /\ before \subseteq Client \X Client
    BY <2>2
  <2>4. AddTail(before, c) \in {before, before \cup added}
    BY DEF AddTail
  <2> HIDE DEF added
  <2>1. AddTail(before, c) \in SUBSET (Client \X Client)
    BY <2>3, <2>4
  <2> QED
    BY <2>1
<1> HIDE DEF expired_now, old, list
<1>3. /\ client \in ClientState
      /\ client.watched_expired = IF expired_now THEN old.watched_expired \cup {k}
                                  ELSE old.watched_expired \ {k}
      /\ client.dirty_cas = old.dirty_cas
  BY <1>2 DEF ClientState
<1> HIDE DEF client
<1>4. /\ clients \in [Client -> ClientState] /\ clients[c] = client
      /\ \A d \in Client \ {c} : clients[d] = w.clients[d]
  BY <1>3
<1> HIDE DEF clients, u
<1>5. /\ Shaped(u) /\ u.slots = w.slots /\ u.mode = w.mode /\ u.clock = w.clock
      /\ u.clients = clients /\ u.watched = list
  BY <1>1 DEF Shaped
<1>6. k \in client.watched_expired <=> expired_now
  BY <1>3
<1> QED
  BY <1>3, <1>4, <1>5, <1>6, <1>7 DEF u, old, expired_now, WatchOutcome

\* A watcher at the head of a key's list that saw the key expired keeps a touch of
\* the key from everybody behind it.
LEMMA BlockedTouch ==
    ASSUME NEW w, Shaped(w), NEW k \in Key, NEW a \in Client, Blocks(w, k, a),
           w.clients \in [Client -> ClientState],
           \A c \in Watchers(w, k) : <<a, c>> \in w.watched[k]
    PROVE  \A c \in Client : Touch(w, {k}).clients[c].dirty_cas = w.clients[c].dirty_cas
<1> DEFINE dirtied == {c \in Client : \E j \in {k} :
                         c \in Reached(w, j) /\ j \notin w.clients[c].watched_expired}
           cleared(c) == {j \in {k} : c \in Reached(w, j)}
           after(c) == IF c \in dirtied
                       THEN [w.clients[c] EXCEPT !.dirty_cas = TRUE]
                       ELSE [w.clients[c] EXCEPT !.watched_expired = @ \ cleared(c)]
           clients == [c \in Client |-> after(c)]
           flagged == [w EXCEPT !.clients = clients]
<1>1. Touch(w, {k}) = UnwatchAll(flagged, dirtied)
  BY DEF Touch
<1>2. Reached(w, k) = {}
  BY DEF Reached
<1>3. dirtied = {}
  BY <1>2
<1>4. \A c \in Client : after(c).dirty_cas = w.clients[c].dirty_cas
  <2> SUFFICES ASSUME NEW c \in Client PROVE after(c).dirty_cas = w.clients[c].dirty_cas
    OBVIOUS
  <2> DEFINE old == w.clients[c]
             new == [old EXCEPT !.watched_expired = @ \ cleared(c)]
  <2>1. old \in ClientState /\ after(c) = new
    BY <1>3
  <2> HIDE DEF old, cleared, after
  <2>2. new.dirty_cas = old.dirty_cas
    BY <2>1 DEF ClientState
  <2> QED
    BY <2>1, <2>2 DEF old
<1> HIDE DEF after, dirtied
<1>5. \A c \in Client : clients[c].dirty_cas = w.clients[c].dirty_cas
  BY <1>4
<1> HIDE DEF clients
<1>6. flagged.clients = clients /\ DOMAIN flagged = DOMAIN w
  BY DEF Shaped
<1> HIDE DEF flagged
<1>7. UnwatchAll(flagged, {}).clients = [c \in Client |-> flagged.clients[c]]
  BY <1>6 DEF UnwatchAll, Shaped
<1> QED
  BY <1>1, <1>3, <1>5, <1>6, <1>7
\* F-01: the first watcher saw the key expired, the second did not, the key has
\* come back, and the touch stops at the first.
LEMMA TouchRule == ASSUME RuleInv, TouchDirtiesEveryWatcher PROVE RuleInv'
<1> DEFINE a1(w, k, c) == k \in w.clients[c].watched_expired
           a2(u, k, c) == k \notin u.clients[c].watched_expired
           a3(t, c) == t.clients[c].dirty_cas
           asserts(w, u, t, k, a, b) == <<a1(w, k, a), a2(u, k, b), a3(t, b)>>
           placed(k, v, at) == PlacedValue(Pinned(world), k, v, at)
<1>1. PICK k \in Key, v \in Value, at \in Elapsed(world.clock), a, b \in Client :
        /\ a # b
        /\ \E w \in {WatchKey(placed(k, v, at), a, k)} :
           \E u \in {WatchKey(Placed(w, k, NoExpire), b, k)} :
           \E t \in {Touch(u, {k})} :
              Ran("multi_touch_dirties_every_watcher", t, at = NoExpire,
                  asserts(w, u, t, k, a, b))
  BY DEF TouchDirtiesEveryWatcher
<1> DEFINE sentinel == at = NoExpire
           p == placed(k, v, at)
           w == WatchKey(p, a, k)
           back == Placed(w, k, NoExpire)
           u == WatchKey(back, b, k)
           t == Touch(u, {k})
<1> HIDE DEF asserts
<1>2. Ran("multi_touch_dirties_every_watcher", t, sentinel, asserts(w, u, t, k, a, b))
  BY <1>1
<1>3. ASSUME ~sentinel PROVE a1(w, k, a) /\ a2(u, k, b) /\ t.clients[b].dirty_cas = FALSE
  <2>1. /\ Shaped(p) /\ p.mode = StandaloneMaster /\ p.slots[k].present
        /\ KeyIsExpired(p, k)
        /\ p.watched = [j \in Key |-> {}] /\ p.clients = [c \in Client |-> FreshClient]
    <3> DEFINE master == Pinned(world)
    <3>6. Drawn(world)
      BY <1>2 DEF Ran, RuleInv
    <3>1. /\ Shaped(master) /\ master.mode = StandaloneMaster
          /\ master.clock = world.clock /\ world.clock \in Nat
      BY <3>6, PinnedWorld
    <3>2. /\ master.watched = [j \in Key |-> {}]
          /\ master.clients = [c \in Client |-> FreshClient]
      BY <3>6, DrawnWorld DEF Pinned, Under, NewWorld
    <3> HIDE DEF master
    <3>3. at \in Int /\ world.clock > at
      BY <3>1, SpreadAssumption DEF Elapsed
    <3>4. p = PlacedValue(master, k, v, at)
      BY DEF master
    <3> HIDE DEF p
    <3>5. /\ Shaped(p) /\ p.clock = master.clock /\ p.mode = master.mode
          /\ p.clients = master.clients /\ p.watched = master.watched
          /\ p.slots[k] = [present |-> TRUE, value |-> v, expire_at |-> at]
      BY <3>1, <3>3, <3>4, PlacedValueWorld
    <3> QED
      BY <1>3, <3>1, <3>2, <3>3, <3>5 DEF KeyIsExpired, StandaloneMaster
  <2> HIDE DEF p
  <2>2. /\ p.clients \in [Client -> ClientState]
        /\ \A c \in Client : k \notin p.clients[c].watching /\ p.clients[c].dirty_cas = FALSE
        /\ p.watched \in [Key -> SUBSET (Client \X Client)]
    BY <2>1 DEF FreshClient, ClientState
  <2>3. /\ Shaped(w) /\ w.slots = p.slots /\ w.mode = p.mode
        /\ w.clients \in [Client -> ClientState]
        /\ \A c \in Client \ {a} : w.clients[c] = p.clients[c]
        /\ k \in w.clients[a].watched_expired
        /\ w.watched \in [Key -> SUBSET (Client \X Client)]
        /\ w.watched[k] = AddTail(p.watched[k], a)
    <3>1. WatchOutcome(p, w, a, k)
      BY <2>1, <2>2, WatchAssigns
    <3> HIDE DEF w
    <3> QED
      BY <2>1, <3>1 DEF WatchOutcome
  <2> HIDE DEF w
  <2>4. w.watched[k] = {<<a, a>>}
    <3>1. AddTail({}, a) = {<<a, a>>}
      BY MemberRoom DEF AddTail, Members
    <3> QED
      BY <2>1, <2>3, <3>1
  <2>5. /\ Shaped(back) /\ back.mode = StandaloneMaster
        /\ back.slots[k].present /\ back.slots[k].expire_at = NoExpire
    BY <2>1, <2>3, PlacedWorld DEF NoExpire
  <2>6. back.clients = w.clients /\ back.watched = w.watched
    BY <2>3 DEF Placed, Shaped
  <2> HIDE DEF back
  <2>7. ~KeyIsExpired(back, k)
    BY <2>5 DEF KeyIsExpired
  <2>8. /\ Shaped(u) /\ u.slots = back.slots
        /\ u.clients \in [Client -> ClientState]
        /\ \A c \in Client \ {b} : u.clients[c] = w.clients[c]
        /\ u.clients[b].dirty_cas = w.clients[b].dirty_cas
        /\ k \notin u.clients[b].watched_expired
        /\ u.watched[k] = AddTail(w.watched[k], b)
    <3>1. k \notin back.clients[b].watching
      BY <1>1, <2>2, <2>3, <2>6
    <3>2. WatchOutcome(back, u, b, k)
      BY <2>3, <2>5, <2>6, <3>1, WatchAssigns
    <3> HIDE DEF u
    <3> QED
      BY <2>6, <2>7, <3>2 DEF WatchOutcome
  <2> HIDE DEF u
  <2>9. \A c \in Watchers(u, k) : <<a, c>> \in u.watched[k]
    <3>1. AddTail({<<a, a>>}, b) = {<<a, a>>, <<a, b>>, <<b, b>>}
      BY <1>1, MemberRoom DEF AddTail, Members
    <3>2. u.watched[k] = {<<a, a>>, <<a, b>>, <<b, b>>}
      BY <2>4, <2>8, <3>1
    <3> QED
      BY <3>2 DEF Watchers, Members
  <2>10. Blocks(u, k, a)
    BY <1>1, <2>3, <2>5, <2>8 DEF Blocks
  <2>11. t.clients[b].dirty_cas = u.clients[b].dirty_cas
    BY <2>8, <2>9, <2>10, BlockedTouch
  <2> HIDE DEF t
  <2>12. u.clients[b].dirty_cas = FALSE
    BY <1>1, <2>2, <2>3, <2>8
  <2> QED
    BY <2>3, <2>8, <2>11, <2>12
<1> HIDE DEF p, w, back, u, t
<1>4. ASSUME ~sentinel PROVE asserts(w, u, t, k, a, b) = <<TRUE, TRUE, FALSE>>
  <2>1. a1(w, k, a) = TRUE /\ a2(u, k, b) = TRUE /\ a3(t, b) = FALSE
    BY <1>3, <1>4
  <2> HIDE DEF a1, a2, a3
  <2> QED
    BY <2>1, Zenon DEF asserts
<1> HIDE DEF sentinel
<1> QED
  BY <1>2, <1>4 DEF Ran, RuleInv, NotRun, RulesHold, F01RuleFails, F01Rule

-----------------------------------------------------------------------------
LEMMA RuleInitInv == RuleInit => RuleInv
<1> SUFFICES ASSUME RuleInit PROVE RuleInv
  OBVIOUS
<1>1. Drawn(world)
  BY TimesAssumption DEF RuleInit, Drawn
<1> QED
  BY <1>1 DEF RuleInit, RuleInv, NotRun, RulesHold, F01RuleFails, F01Rule, Passed

\* A rule runs once, from a drawn world.
LEMMA RuleNextInv == RuleInv /\ [RuleNext]_ruleVars => RuleInv'
<1> SUFFICES ASSUME RuleInv, [RuleNext]_ruleVars PROVE RuleInv'
  OBVIOUS
<1>1. CASE UNCHANGED ruleVars
  BY <1>1 DEF ruleVars, RuleInv, RulesHold, F01RuleFails
<1>2. CASE ExpireVisibilitySplit \/ TouchDirtiesEveryWatcher
  BY <1>2, VisibilitySplitRule, TouchRule
<1>3. CASE RuleNext /\ ~ExpireVisibilitySplit /\ ~TouchDirtiesEveryWatcher
  <2>1. outcome = NotRun
    <3>1. StringSetIntegrity \/ StringSetTtlArgument \/ StringSetNxXx => outcome = NotRun
      BY Zenon DEF Ran, StringSetIntegrity, StringSetTtlArgument, StringSetNxXx
    <3>2. ExpireLazyActiveBoundary \/ ExpireConditionSemantics => outcome = NotRun
      BY Zenon DEF Ran, ExpireLazyActiveBoundary, ExpireConditionSemantics
    <3>3. ExpireLazyPropagates \/ ExpireReplicaHides \/ ExpireMasterLink
            => outcome = NotRun
      BY Zenon DEF Ran, ExpireLazyPropagates, ExpireReplicaHides, ExpireMasterLink
    <3>4. ExpiresSubsetOfKeysRule \/ ActiveExpiryOnlyRemoves \/ DbSizeCountsPhysical
            => outcome = NotRun
      BY Zenon DEF Ran, ExpiresSubsetOfKeysRule, ActiveExpiryOnlyRemoves,
                   DbSizeCountsPhysical
    <3>5. WatchIsValueBlind => outcome = NotRun
      BY Zenon DEF Ran, WatchIsValueBlind
    <3> QED
      BY <1>3, <3>1, <3>2, <3>3, <3>4, <3>5 DEF RuleNext
  <2>2. Drawn(world)
    BY <2>1 DEF RuleInv
  <2> QED
    BY <1>3, <2>2, SetIntegrityRule, SetTtlRule, SetNxXxRule, LazyActiveRule,
       ConditionRule, PropagatesRule, ReplicaHidesRule, MasterLinkRule, SubsetRule,
       ActiveExpiryRule, DbSizeRule, ValueBlindRule
       DEF RuleNext
<1> QED
  BY <1>1, <1>2, <1>3

LEMMA RuleSpecInv == RuleSpec => []RuleInv
<1>1. RuleInit => RuleInv
  BY RuleInitInv
<1>2. RuleInv /\ [RuleNext]_ruleVars => RuleInv'
  BY RuleNextInv
<1> QED
  BY <1>1, <1>2, PTL DEF RuleSpec

\* The thirteen rules of specs/*.rs that all_rules_execute expects to hold pass
\* every assertion, in every world and for every parameter they can draw, unless
\* the time drawn for an elapsed key is the sentinel.
THEOREM RulesAlwaysHold == RuleSpec => []RulesHold
<1>1. RuleInv => RulesHold
  BY DEF RuleInv
<1> QED
  BY <1>1, RuleSpecInv, PTL

\* multi_touch_dirties_every_watcher fails in every world it can draw: its set-up
\* holds, and the second watcher is not dirtied (FINDINGS.md F-01).
THEOREM F01RuleAlwaysFails == RuleSpec => []F01RuleFails
<1>1. RuleInv => F01RuleFails
  BY DEF RuleInv
<1> QED
  BY <1>1, RuleSpecInv, PTL
=============================================================================
