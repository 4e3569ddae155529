------------------------------ MODULE DiffTest -----------------------------
(***************************************************************************)
(* Differential testing: driver/difftest.rs, and the test of               *)
(* tests/difftest.rs that runs one schedule after the other.  The driver   *)
(* executes each command on its model world, then sends it to a server and *)
(* waits for the reply; at the end it compares two snapshots.              *)
(*                                                                         *)
(* The server is external: a world that runs the same commands, but with a *)
(* clock that moves all the time, with an active expire cycle until it is  *)
(* told not to, and possibly with a bug (MayDeviate).  Times are counted   *)
(* from the `base` of the schedule, so that any number of schedules fits.  *)
(***************************************************************************)
EXTENDS Cmd, RespValues

CONSTANTS
    Base,         \* the server's time when a schedule begins
    Past, Soon, Far,   \* the offsets of the TTLs that are drawn
    TickMs,       \* TICK_MS, the length of one sleep
    MaxDrift,     \* how far the server's clock gets ahead of the model's in
                  \* one schedule, snapshot included
    Steps,        \* `len`, the steps of one schedule
    MayDeviate    \* whether the server may have bugs

\* A deadline of a schedule is `base` plus an offset.  A server with a bug may
\* come to any deadline, so ExpireTimes may have others.
DrawnTimes == {Base + Past, Base + Soon, Base + Far}

ASSUME OffsetsAssumption ==
    /\ {Base, Soon, Far, TickMs, MaxDrift, Steps} \subseteq Nat
    /\ Past \in Int
    /\ DrawnTimes \subseteq ExpireTimes

\* Both sides are standalone masters (pin_standalone_master).
ASSUME StandaloneAssumption == StandaloneMaster \in Modes

\* The margins that make "is it expired" the same question on both sides for
\* the deadlines that a schedule draws: the
\* whole drift of a schedule stays below SOON, one tick crosses SOON, and no
\* number of ticks reaches FAR.
ASSUME MarginsAssumption ==
    /\ Past < 0
    /\ MaxDrift < Soon /\ Soon < TickMs
    /\ Steps * TickMs + MaxDrift < Far

VARIABLES
    pc,        \* where the driver is
    model,     \* its world, `w` of run_schedule
    server,    \* the server's keyspace and clock
    active,    \* the server's active expire cycle is on
    call,      \* the command in flight and the model's reply to it
    done,      \* steps of the schedule done
    shot,      \* the server's snapshot as far as it has been read
    verdict,   \* what run_schedule returned
    deviated   \* history: a bug of the server showed in this schedule

diffVars == <<pc, model, server, active, call, done, shot, verdict, deviated>>

NoCall == [cmd |-> [op |-> "None"], reply |-> NilReply]

\* `todo`: the listed keys not yet asked for; `got`: the key whose value has
\* arrived and whose PTTL has not; `listed`: history, the server as KEYS found it
NoShot == [dbsize |-> -1, visible |-> {}, todo |-> {}, got |-> {}, values |-> {},
           listed |-> EmptyWorld(Base)]

-----------------------------------------------------------------------------
(***************************************************************************)
(* Rendering a command as the arguments to send                            *)
(***************************************************************************)
Word(w) == [word |-> w]
KeyArg(k) == [key |-> k]
ValArg(v) == [val |-> v]
NumArg(n) == [num |-> n]

Name == [Get |-> "GET", Del |-> "DEL", Exists |-> "EXISTS", Type |-> "TYPE",
         Persist |-> "PERSIST", Pttl |-> "PTTL", Keys |-> "KEYS", DbSize |-> "DBSIZE"]

CondArgs(cond) ==
    CASE cond = "Nx" -> <<Word("NX")>>
      [] cond = "Xx" -> <<Word("XX")>>
      [] cond = "Gt" -> <<Word("GT")>>
      [] cond = "Lt" -> <<Word("LT")>>
      [] cond \in {"Always", "None"} -> <<>>

\* Mutant of TtlArgs: KEEPTTL is not sent
TtlArgsWithoutKeep(ttl) ==
    IF ttl.kind = "PxAt" THEN <<Word("PXAT"), NumArg(ttl.at)>> ELSE <<>>

TtlArgs(ttl) ==
    CASE ttl.kind = "None" -> <<>>
      [] ttl.kind = "Keep" -> <<Word("KEEPTTL")>>
      [] ttl.kind = "PxAt" -> <<Word("PXAT"), NumArg(ttl.at)>>

Render(cmd) ==
    CASE cmd.op = "Set" ->
           <<Word("SET"), KeyArg(cmd.key), ValArg(cmd.val)>> \o CondArgs(cmd.cond)
             \o TtlArgs(cmd.ttl) \o (IF cmd.get THEN <<Word("GET")>> ELSE <<>>)
      [] cmd.op = "Expire" ->
           <<Word("PEXPIREAT"), KeyArg(cmd.key), NumArg(cmd.at)>> \o CondArgs(cmd.cond)
      [] cmd.op \in LookupOp \cup {"Del", "Persist"} ->
           <<Word(Name[cmd.op]), KeyArg(cmd.key)>>
      [] cmd.op = "Keys" -> <<Word("KEYS"), Word("*")>>
      [] cmd.op = "DbSize" -> <<Word("DBSIZE")>>

\* What the server makes of the arguments: options are words in any order.
Given(args, w) == \E i \in DOMAIN args : args[i] = Word(w)
Following(args, w) == args[(CHOOSE i \in DOMAIN args : args[i] = Word(w)) + 1].num

ParsedCond(args, otherwise) ==
    CASE Given(args, "NX") -> "Nx"
      [] Given(args, "XX") -> "Xx"
      [] Given(args, "GT") -> "Gt"
      [] Given(args, "LT") -> "Lt"
      [] OTHER -> otherwise

ParsedTtl(args) ==
    CASE Given(args, "KEEPTTL") -> KeepTtl
      [] Given(args, "PXAT") -> [kind |-> "PxAt", at |-> Following(args, "PXAT")]
      [] OTHER -> NoTtl

Parsed(args) ==
    CASE args[1] = Word("SET") ->
           [op |-> "Set", key |-> args[2].key, val |-> args[3].val,
            cond |-> ParsedCond(args, "Always"), ttl |-> ParsedTtl(args),
            get |-> Given(args, "GET")]
      [] args[1] = Word("PEXPIREAT") ->
           [op |-> "Expire", key |-> args[2].key, at |-> args[3].num,
            cond |-> ParsedCond(args, "None")]
      [] args[1].word \in {"KEYS", "DBSIZE"} ->
           [op |-> CHOOSE op \in DOMAIN Name : args[1] = Word(Name[op])]
      [] OTHER ->
           [op |-> CHOOSE op \in DOMAIN Name : args[1] = Word(Name[op]),
            key |-> args[2].key]

-----------------------------------------------------------------------------
(***************************************************************************)
(* Comparing replies                                                       *)
(***************************************************************************)
\* A reply as the server writes it
OnTheWire(reply) ==
    CASE reply.kind = "Ok" -> SimpleResp("OK")
      [] reply.kind = "Nil" -> NilResp
      [] reply.kind = "Int" -> IntResp(reply.n)
      [] reply.kind = "Str" -> BulkResp(reply.val)
      [] reply.kind = "KeySet" ->
           ArrayResp([i \in 1..Cardinality(reply.keys) |->
                         BulkResp(SetToSeq(reply.keys)[i])])
      [] reply.kind = "Type" -> SimpleResp("string")
      [] reply.kind = "NoType" -> SimpleResp("none")

\* Mutant of Bucket: remaining times are compared to the millisecond
BucketByValue(n) == n

\* PTTL is compared by what it means: no key, no TTL, some time left
Bucket(n) == IF n <= -2 THEN -2 ELSE IF n = -1 THEN -1 ELSE 0

SameItems(keys, items) ==
    /\ Len(items) = Cardinality(keys)
    /\ {items[i].bytes : i \in DOMAIN items} = keys

RepliesAgree(m, s, was_pttl) ==
    IF was_pttl
    THEN m.kind = "Int" /\ IsInt(s) /\ Bucket(m.n) = Bucket(s.n)
    ELSE \/ m.kind = "Ok" /\ s = SimpleResp("OK")
         \/ m.kind = "Nil" /\ IsNil(s)
         \/ m.kind = "Int" /\ IsInt(s) /\ m.n = s.n
         \/ m.kind = "Str" /\ IsBulk(s) /\ m.val = s.bytes
         \/ m.kind = "Type" /\ s = SimpleResp("string")
         \/ m.kind = "NoType" /\ s = SimpleResp("none")
         \/ m.kind = "KeySet" /\ s.tag = "Array" /\ SameItems(m.keys, s.items)

\* model_snapshot: physical count, visible keys, and per visible key its value
\* and whether it has a TTL; not the TTL itself
ModelSnapshot(w) ==
    [dbsize |-> Cardinality({k \in Key : w.slots[k].present}),
     visible |-> VisibleKeys(w),
     values |-> {[key |-> k, val |-> w.slots[k].value,
                  ttl |-> w.slots[k].expire_at # NoExpire] : k \in VisibleKeys(w)}]

\* Mutant of SnapshotsAgree: DBSIZE is left out
SnapshotsAgreeOnValues(ms, ss) == ms.visible = ss.visible /\ ms.values = ss.values

SnapshotsAgree(ms, ss) ==
    ms.dbsize = ss.dbsize /\ ms.visible = ss.visible /\ ms.values = ss.values

-----------------------------------------------------------------------------
(***************************************************************************)
(* The server                                                              *)
(***************************************************************************)
\* Neither side of the comparison reads the log or the counter of changes.
Uncounted(r) == Result([r.world EXCEPT !.dirty = 0], r.reply)

Run(w, cmd) == Uncounted(Exec(w, cmd))

\* The server gets one slot wrong while it executes a command of a schedule: the
\* key, its value or its deadline, which may pass at any moment.
Deviations(w) ==
    {[w EXCEPT !.slots[k] = s] : k \in Key, s \in DrawnSlot} \ {w}

\* What the server's clock is measured against
ModelTime == IF pc = "flush" THEN Base ELSE model.clock

\* Time passes on the server while the driver works and waits.
Elapse ==
    /\ pc \notin {"debug", "time", "decided", "panicked"}
    /\ server.clock < ModelTime + MaxDrift
    /\ server' = [server EXCEPT !.clock = @ + 1]
    /\ UNCHANGED <<pc, model, active, call, done, shot, verdict, deviated>>

ServerCycle ==
    /\ active
    /\ server' = [ActiveExpireCycle(server) EXCEPT !.dirty = 0]
    /\ UNCHANGED <<pc, model, active, call, done, shot, verdict, deviated>>

-----------------------------------------------------------------------------
(***************************************************************************)
(* The test: DEBUG SET-ACTIVE-EXPIRE 0 once, then per seed TIME, a drawn   *)
(* schedule, and run_schedule.  A failing socket panics in unwrap().       *)
(***************************************************************************)
DiffInit ==
    /\ pc = "debug"
    /\ server \in {NewWorld(s, Base, StandaloneMaster) : s \in [Key -> {AbsentSlot}]}
    /\ model = EmptyWorld(Base)
    /\ active = TRUE
    /\ call = NoCall /\ done = 0 /\ shot = NoShot
    /\ verdict = "none" /\ deviated = FALSE

\* Mutant of DisableActiveExpire: the reply to DEBUG is not looked at
DebugUnchecked ==
    /\ pc = "debug"
    /\ active' \in BOOLEAN
    /\ pc' = "time"
    /\ UNCHANGED <<model, server, call, done, shot, verdict, deviated>>

\* A server that refuses DEBUG fails the assertion on its reply.
DisableActiveExpire ==
    /\ pc = "debug"
    /\ \/ active' = FALSE /\ pc' = "time"
       \/ UNCHANGED active /\ pc' = "panicked"
    /\ UNCHANGED <<model, server, call, done, shot, verdict, deviated>>

\* base = server_mstime(): from here on time is counted from this instant.
Shifted(slot, d) ==
    IF slot.expire_at = NoExpire THEN slot
    ELSE [slot EXCEPT !.expire_at = IF @ <= d THEN 0 ELSE @ - d]

ReadTime ==
    /\ pc = "time"
    /\ server' = [server EXCEPT
         !.clock = Base,
         !.slots = [k \in Key |-> Shifted(server.slots[k], server.clock - Base)]]
    /\ pc' = "flush"
    /\ verdict' = "none" /\ deviated' = FALSE
    /\ UNCHANGED <<model, active, call, done, shot>>

FlushAll ==
    /\ pc = "flush"
    /\ server' = [server EXCEPT !.slots = [k \in Key |-> AbsentSlot]]
    /\ model' = EmptyWorld(Base)
    /\ pc' = "step" /\ done' = 0 /\ shot' = NoShot
    /\ UNCHANGED <<active, call, verdict, deviated>>

\* The commands that draw_diff_cmd draws: any, at the drawn deadlines
DeadlinesOf(cmd) ==
    IF cmd.op = "Set" /\ cmd.ttl.kind = "PxAt" THEN {cmd.ttl.at}
    ELSE IF cmd.op = "Expire" THEN {cmd.at} ELSE {}

ScheduleCmd == {cmd \in KeyCmd \cup ScanCmd : DeadlinesOf(cmd) \subseteq DrawnTimes}

\* A command: the model executes it, then it goes to the server.
Issue(cmd) ==
    /\ pc = "step" /\ done < Steps
    /\ pc' = "await"
    /\ \E r \in {Run(model, cmd)} :
          model' = r.world /\ call' = [cmd |-> cmd, reply |-> r.reply]
    /\ UNCHANGED <<server, active, done, shot, verdict, deviated>>

\* Mutant of Tick: the length of the schedule is not looked at
TickPastTheEnd ==
    /\ pc = "step"
    /\ model' = [model EXCEPT !.clock = @ + TickMs]
    /\ server' = [server EXCEPT !.clock = @ + TickMs]
    /\ done' = done + 1
    /\ UNCHANGED <<pc, active, call, shot, verdict, deviated>>

\* Both clocks move by a tick; the sleep may take longer, see Elapse.
Tick ==
    /\ pc = "step" /\ done < Steps
    /\ model' = [model EXCEPT !.clock = @ + TickMs]
    /\ server' = [server EXCEPT !.clock = @ + TickMs]
    /\ done' = done + 1
    /\ UNCHANGED <<pc, active, call, shot, verdict, deviated>>

\* The server's reply arrives and is compared.  A bug of the server shows once
\* in a schedule.
Receive(r) ==
    /\ \/ server' = r.world /\ UNCHANGED deviated
       \/ MayDeviate /\ ~deviated /\ server' \in Deviations(r.world) /\ deviated' = TRUE
    /\ IF RepliesAgree(call.reply, OnTheWire(r.reply), call.cmd.op = "Pttl")
       THEN pc' = "step" /\ done' = done + 1 /\ UNCHANGED verdict
       ELSE pc' = "decided" /\ verdict' = "reply mismatch" /\ UNCHANGED done
    /\ call' = NoCall
    /\ UNCHANGED <<model, active, shot>>

Answer ==
    /\ pc = "await"
    /\ \E cmd \in {Parsed(Render(call.cmd))} : \E r \in {Run(server, cmd)} : Receive(r)

-----------------------------------------------------------------------------
(***************************************************************************)
(* server_snapshot: DBSIZE and KEYS first, then GET and, if there is a     *)
(* value, PTTL for each key that KEYS reported.  Each is a round trip, so  *)
(* the server's clock may move before every one of them.  The keys are     *)
(* taken in any order, that of their names included.                       *)
(***************************************************************************)
ReadDbSize ==
    /\ pc = "step" /\ done = Steps
    /\ shot' = [shot EXCEPT !.dbsize = Run(server, [op |-> "DbSize"]).reply.n]
    /\ pc' = "keys"
    /\ UNCHANGED <<model, server, active, call, done, verdict, deviated>>

\* Mutant of ReadKeys: every key is asked for, not only those KEYS reported
ReadAllKeys ==
    /\ pc = "keys"
    /\ shot' = [shot EXCEPT !.visible = Run(server, [op |-> "Keys"]).reply.keys,
                            !.todo = Key, !.listed = server]
    /\ pc' = "values"
    /\ UNCHANGED <<model, server, active, call, done, verdict, deviated>>

ReadKeys ==
    /\ pc = "keys"
    /\ shot' = [shot EXCEPT !.visible = Run(server, [op |-> "Keys"]).reply.keys,
                            !.todo = Run(server, [op |-> "Keys"]).reply.keys,
                            !.listed = server]
    /\ pc' = "values"
    /\ UNCHANGED <<model, server, active, call, done, verdict, deviated>>

\* Mutant of GotValue: a key that has been read stays on the list
GotValueAgain(k, reply) ==
    /\ shot' = IF reply = NilReply THEN [shot EXCEPT !.todo = @ \ {k}]
               ELSE [shot EXCEPT !.got = {[key |-> k, val |-> reply.val]}]
    /\ pc' = IF reply = NilReply THEN "values" ELSE "ttl"

\* A value: its PTTL comes next; a key that is gone is passed over.
GotValue(k, reply) ==
    /\ shot' = [shot EXCEPT !.todo = @ \ {k},
                            !.got = IF reply = NilReply THEN {}
                                    ELSE {[key |-> k, val |-> reply.val]}]
    /\ pc' = IF reply = NilReply THEN "values" ELSE "ttl"

ReadGet(k) ==
    /\ pc = "values" /\ k \in shot.todo
    /\ \E r \in {Run(server, [op |-> "Get", key |-> k])} :
          server' = r.world /\ GotValue(k, r.reply)
    /\ UNCHANGED <<model, active, call, done, verdict, deviated>>

\* Whether a TTL goes with the value: a key that has gone since GET has none.
ReadTtl ==
    /\ pc = "ttl" /\ pc' = "values"
    /\ \E got \in shot.got : \E r \in {Run(server, [op |-> "Pttl", key |-> got.key])} :
          /\ server' = r.world
          /\ shot' = [shot EXCEPT !.got = {},
                       !.values = @ \cup {[key |-> got.key, val |-> got.val,
                                           ttl |-> r.reply.n >= 0]}]
    /\ UNCHANGED <<model, active, call, done, verdict, deviated>>

Compare ==
    /\ pc = "values" /\ shot.todo = {}
    /\ verdict' = IF SnapshotsAgree(ModelSnapshot(model), shot)
                  THEN "agreed" ELSE "snapshot mismatch"
    /\ pc' = "decided"
    /\ UNCHANGED <<model, server, active, call, done, shot, deviated>>

\* The next seed: a divergence is recorded and the loop goes on.
NextSchedule ==
    /\ pc = "decided"
    /\ pc' = "time"
    /\ UNCHANGED <<model, server, active, call, done, shot, verdict, deviated>>

\* The socket fails while the driver waits for a reply.
WaitsForServer ==
    \/ pc \in {"debug", "time", "flush", "await", "keys", "ttl"}
    \/ pc = "step" /\ done = Steps
    \/ pc = "values" /\ shot.todo # {}

SocketFails ==
    /\ WaitsForServer
    /\ pc' = "panicked"
    /\ UNCHANGED <<model, server, active, call, done, shot, verdict, deviated>>

-----------------------------------------------------------------------------
DoIssue == \E cmd \in ScheduleCmd : Issue(cmd)
DoReadGet == \E k \in Key : ReadGet(k)

\* What the driver and the server's replies bring about
Proceed ==
    \/ DisableActiveExpire \/ ReadTime \/ FlushAll
    \/ Tick \/ DoIssue \/ Answer
    \/ ReadDbSize \/ ReadKeys \/ DoReadGet \/ ReadTtl \/ Compare
    \/ NextSchedule

DiffNext == Proceed \/ Elapse \/ ServerCycle \/ SocketFails

DiffSpec == DiffInit /\ [][DiffNext]_diffVars

\* The driver is a loop that does not stop by itself, and the server answers;
\* nothing obliges time to pass or the socket to fail.
FairDiffSpec == DiffSpec /\ WF_diffVars(Proceed)

-----------------------------------------------------------------------------
(***************************************************************************)
(* Properties                                                              *)
(***************************************************************************)
\* The driver's state: where it is, what it waits for, what it has read.
DiffTypeOK ==
    /\ pc \in {"debug", "time", "flush", "step", "await", "keys", "values",
               "ttl", "decided", "panicked"}
    /\ model \in World /\ done \in 0..Steps
    /\ verdict \in {"none", "agreed", "reply mismatch", "snapshot mismatch"}
    /\ shot.visible \subseteq Key /\ shot.todo \subseteq Key
    /\ active \in BOOLEAN /\ deviated \in BOOLEAN

\* Between two commands the model and a correct server hold the same keyspace,
\* although their clocks differ: what run_schedule's step-by-step comparison
\* relies on, and what a command that is rendered wrong would break without
\* its own reply showing it.
LockStep ==
    pc = "step" /\ ~deviated => model.slots = server.slots

\* Two clocks that drift apart never make a correct server look wrong: the
\* margins of PAST, SOON, FAR and TICK_MS, PTTL by bucket and the disabled
\* active cycle are enough (the module comment's "so the sign of `is it
\* expired` is never in doubt").
NoFalseAlarm ==
    ~deviated => verdict \in {"none", "agreed"}

\* The keys whose TTL the driver cannot tell from none: the model has none, the
\* server had one when KEYS listed them, and it has run out since.
RanOut(w) ==
    {k \in VisibleKeys(w) : /\ model.slots[k].expire_at = NoExpire
                            /\ w.slots[k].expire_at # NoExpire
                            /\ w.slots[k].expire_at < server.clock}

WithoutTtl(w, ks) ==
    [w EXCEPT !.slots = [k \in Key |-> IF k \in ks
                                       THEN [w.slots[k] EXCEPT !.expire_at = NoExpire]
                                       ELSE w.slots[k]]]

\* A server is let off with "agreed" only if, when KEYS was asked for, it held
\* the model's snapshot, although the snapshot is read by several commands at
\* different moments and a wrong deadline may pass between any two of them.
\* The one thing it gets away with is a TTL on a key that the model keeps for
\* ever, if that TTL runs out before PTTL is asked for: the code keeps `ttl >= 0`
\* of a reply that says "-2 (no key) / -1 (no TTL) / >=0 (has TTL)".
AgreedMeansEqual ==
    pc = "decided" /\ verdict = "agreed" =>
        ModelSnapshot(WithoutTtl(shot.listed, RanOut(shot.listed)))
            = ModelSnapshot(model)

\* Reading the snapshot of a correct server does not change what it measures:
\* the GETs after KEYS never meet a key that has expired (comment of
\* server_snapshot).
SnapshotObserves ==
    [][(pc \in {"keys", "values", "ttl"} /\ ~deviated
           => UNCHANGED (server.slots))]_diffVars

\* Every schedule that is started is decided, if the server answers and unless
\* the socket fails.
EveryScheduleIsDecided ==
    (pc = "flush") ~> (pc \in {"decided", "panicked"})
=============================================================================
