# A TLA+ model of redis-cvlr

`redis-cvlr` is an abstract state machine of Redis (`src/redis-cvlr/src/model/`), a set of
CVLR rules about it (`specs/`), and two drivers: one that executes the rules over seeded
streams and one that compares the machine with a real `redis-server` (`driver/`, `tests/`).
This directory specifies all of these in TLA+, model-checks them with TLC, and proves with
TLAPS every safety property that the runs check: of the state machine and what it promises
(CAS, replication, the refinement of an abstract store), of the loops below it, of the rules
and of both drivers with their client and their tests. Paths below are relative to
`src/redis-cvlr/`.

## The system

| Part | State it keeps | Operations | How it interacts |
|---|---|---|---|
| Commands (`cmd.rs`) | none | SET, GET, DEL, EXISTS, TYPE, EXPIRE, PERSIST, PTTL, KEYS, DBSIZE, WATCH, UNWATCH | call the lookups of Expiry, touch watchers, push effects |
| World (`state.rs`) | physical slots, client flags, ordered watcher lists, clock, role, caller, four switches, effect log, `dirty`, `nesting` | `add_tail`, `remove`, `push`, `nondet_world`, `empty`, `snapshot_visible` | shared by everything below as `&mut World` |
| WATCH (`watch.rs`) | `watching`, `watched_expired`, `dirty_cas` and the lists of World | `watch_key`, `unwatch_all`, `touch_watched_key` | touched by every write and every expiry |
| Expiry (`expire.rs`) | none | the two comparisons, `expire_if_needed`, lazy deletion, `active_expire_cycle` | called by every command that names a key |
| Steps (`step.rs`) | none | `step`: a command, an active cycle, a tick, in its execution unit | the schedule: all concurrency is here |
| Replication (`Effect`, `ReplLog`, PROPERTIES.md Dimension B) | the log | replaying the log through `exec_cmd` as `MasterLink` | two Worlds with two clocks |
| Rules (`specs/`) | none | assume/assert bodies over one drawn world | statements about the above |
| Concrete driver (`driver/concrete.rs`, `tests/concrete.rs`) | stream, rejected, failed, draws | `begin`, `end`, `CVT_*`, `exercise` | runs the rules |
| Differential driver (`driver/difftest.rs`) | model world, a server's keyspace, two clocks | `draw_schedule`, `render`, `replies_agree`, snapshots, `run_schedule` | lock-step with a real server |
| Differential tests (`tests/difftest.rs`) | the spawned server, its port, the guard | `start`, the three tests, `Server::drop` | parallel threads over processes |
| RESP client (`driver/resp.rs`) | a socket and its buffers | `cmd`, `read` | used by the differential driver |
| Build (`certora_build.py`, `confs/`, `justfile`, `scripts/`) | none | cargo, file dumps | outside the program |

Hard behaviours. Nothing runs in parallel (one `Step` is atomic, an axiom the source states),
but schedules interleave clients, reads that delete, active cycles and time. What a step
decides early is used late: the flag `watched_expired` is set at WATCH and trusted by every
later touch. The watcher loop has an early `return` whose reach depends on list order
(FINDINGS.md F-01). Two comparisons of the same deadline differ by one millisecond. Seven
early returns decide between visible, hidden and deleted. The log and the lists are bounded
and drop silently. The differential driver compares two machines whose clocks run apart, over
a stream that may end in the middle of a reply. `PROJECT.json` lists these hazards line by line.

What makes each part correct:

* World and WATCH: slots of absent keys are blank; the client's view of WATCH and the lists
  agree; a dirtied client keeps no watch; a standing watch has missed no change.
* Expiry: all observers that filter agree; hidden keys never come back except by SET; a
  replica deletes on its master's order only.
* Commands: the replies are those of a map in which expired keys do not exist; each change
  is counted and propagated once.
* Replication: the log reproduces the keyspace whatever the clocks say.
* Rules: they hold of the model in every world they draw, and the one that should fail does.
* Concrete driver: a verdict is what the executions deserve one by one.
* Differential driver: a correct server is never accused; one that is let off held the model's
  snapshot, but for a TTL that ran out while the snapshot was read.
* RESP client: one call, one reply, or an error.
* Differential tests: each talks to its own server, leaves none behind, and ends unless a live
  server keeps it waiting.

## Modules

| Module | Models | Correspondence |
|---|---|---|
| `Commands` | enums of `cmd.rs` | commands are records, replies too; strings are model values (`draw_str` draws one of four) |
| `State` | `state.rs` | a World is a record; `role`, `caller` and the switches, which no step assigns, are the sub-record `mode`; a watcher list is the reflexive total order on its members |
| `Watch` | `watch.rs`, `key_is_expired` | `fn f(w: &mut World, ..)` is an operator `F(w, ..)` that returns the new world; `Reached` is the part of the list before the `return` |
| `Expire` | `expire.rs` | `ExpireIfNeeded` returns the world and the `KeyStatus`; the early returns are disjuncts of `SeenFromMaster` and `HiddenInPlace` |
| `Cmd` | `cmd.rs` | `Exec` is `exec_cmd`; one operator per `cmd_*`; `WriteSlot` is the tail (assign, count, touch, propagate) that every write repeats |
| `Step` | `step.rs` | the state machine: variable `world`, one action per command, `ActiveExpire`, `ClockTick` |
| `Properties` | | invariants and action properties of one world |
| `LogicalStore` | | abstract specification: a map from keys to values with deadlines |
| `StoreRefinement` | `snapshot_visible` | `Step` with its replies made visible implements `LogicalStore`; the refinement mapping is `snapshot_visible` |
| `Cas` | | a history variable: what each client saw of each key it watches |
| `Replication` | Dimension B | master and replica, the log between them |
| `WatchCalls`, `WatchLoop` | `WatchTable`, `watch.rs` loops | the arrays and loops, one iteration per step, implement the atomic operators of `Watch` |
| `Rules` | `specs/*.rs` | one action per rule: it draws, calls `Exec` and its like, and records what its assertions came to |
| `ConcreteDriver` | `driver/concrete.rs`, `tests/concrete.rs` | the thread-local state, `begin`, the `CVT_*` functions, the loop of `exercise`; a machine word is the set of its bits; a rule is a script of calls for every stream |
| `DiffTest` | `driver/difftest.rs`, the schedule test | `w` of `run_schedule` is a world, the server another one with its own clock; commands are rendered to argument words and parsed again; each read of the snapshot (DBSIZE, KEYS, every GET, every PTTL) is a round trip of its own |
| `RespValues`, `RespClient` | `driver/resp.rs` | the stream in both directions as token sequences; recursion over arrays is the stack of open arrays |
| `RespCall` | | abstract specification: a remote call |
| `Harness` | `tests/difftest.rs` | tests are threads, servers are processes, ports belong to whoever bound them; a probe connects, then waits for the reply to PING |
| `MC*` | | instances and symmetry sets for TLC |
| `*Proofs` | | TLAPS proofs, see below |

A command runs inside one action because the code runs it inside one execution unit: the
helpers compose as operators on worlds, in the order of the source. The same operators are
used by `Step`, `Replication` (two worlds), `WatchCalls`, `Rules` and `DiffTest` (model and
server), so that a faithful definition is written once. Two data abstractions are themselves
checked: the lists as orders and the keys of one active cycle taken together, both by
`WatchLoop`.

In `RespClient` a header (tag byte with number or text) is one token, but CR, LF and the bytes of
a bulk string are tokens of their own, so that a line end inside a value is not told from a real
one by what it is. What the server writes for a value is the constant `Wire`, a function on the
values it has: an array is its header and what `Wire` gives for its items (`WireAssumption`),
which says of every nesting what a recursive operator would. In `DiffTest` times are counted from
the `base` of the schedule, so that any number of schedules runs in a bounded space.

`in_multi`, `dirty_exec`, `Effect::Multi`, `Effect::Exec`, `Reply::Error` and the fourth
status of a key exist in the source without being produced, and are left out. `u64`/`i64`
counters do not come near their width: times are drawn below 2 000 000 and one unit adds at
most K+1 to `dirty`. The stream of the concrete driver does use all its 64 bits, and is
modelled with them; the multiplication that makes a drawn number of it is left out, since
no step depends on it.

What is external. The replication link delivers in order and exactly once. The server of
`DiffTest` executes the model's commands correctly, except that once per schedule, while it
executes a command of it, it may get one slot wrong: the key, its value, or its deadline, which
is then any time of the instance, also one that passes while the snapshot is read. The server of
`RespClient` writes well-formed RESP and may die between any two bytes; a number that does not
parse, which the client reads as 0, is therefore not modelled. The processes of `Harness` may
boot late, find their port taken, never answer, die, or be orphaned when the test process is
killed; a port may also belong to a stranger from the start.

Some definitions are followed or preceded by one marked `Mutant of`: a plausible bug in that
definition. The specification never uses it; replacing the definition by it makes a property
fail, which shows that the property depends on the code.

## What is checked

| Run | Instance | Shows |
|---|---|---|
| `watch` | 2 keys, 2 values, 2 clients, times {0,1}, clock 0..2, every drawn mode that forces deletion | `TypeOK`, `ExpiresSubsetOfKeys` (P-05), `WatchTableConsistent`, `NoStaleExpiredFlag` (F-01), `WriteDirtiesEveryWatcher` (P-07, P-08), `WatchSeesEveryChange`, `DirtyingClearsWatches` |
| `visibility` | 2 keys, 1 client, all 64 modes | `KeysAgreesWithGet`, `ActiveCycleReconcilesDbSize` (P-12), `PttlIsUnambiguous`, `OnlySetRevives`, `ReplicaWaitsForWrites` (P-10, P-11) |
| `refinement` | 1 key, 2 values, every mode that hides expired keys | `ImplementsLogicalStore`: every reply of every schedule is one the map could give |
| `replication` | 2 keys, log of 6, two clocks | `ChangesArePropagatedOnce`, `ReplicaConverges`, `ReplicaRelaysTheLog`, `ReplicaDeletesOnOrder` |
| `watch_loop` | 3 clients, 2 keys, iteration by iteration | `ReturnsWhatWatchSays`, `LoopVisitsWatchersOnce`, `ImplementsWatchCalls` |
| `rules` | every rule, 2 keys, 2 clients, every drawn world | `RulesHold`: thirteen rules hold; `F01RuleFails`: the fourteenth fails in every world, with its set-up assertions true and its last one false |
| `concrete` | 64-bit words, 7 seeds, 5 scripts per stream | `StatusIsHonest`, `FailuresReproduce`, `NeverZero`, `StreamsInPairs`, `EveryRunEnds` |
| `difftest` | 2 keys, schedules of 3 steps, drift 1, a server with at most one wrong slot | `DiffTypeOK`, `LockStep`, `NoFalseAlarm`, `AgreedMeansEqual`, `SnapshotObserves`, `EveryScheduleIsDecided` |
| `resp` | 3 requests, 12 replies, a crash at any byte | `NothingLeftOver`, `ReaderStaysAligned`, `ImplementsCall`, `EveryCallReturns` |
| `harness` | 2 tests, 3 probes each, 2 killed runs | `OwnServer`, `NoServerLeftBehind`, `TestsEndUnlessHeldUp` |
| `paused_watch` | 1 key, 2 clients, expiry paused | expected violation of `WriteDirtiesEveryWatcher` |
| `rules_sentinel` | as `rules` | expected violation of `ElapsedKeyIsExpired` |

Bounds. The clock needs three values: before, at and after a deadline, since the two comparisons
differ at the deadline itself; `MaxClock = 2` with deadline 1 gives them, and deadline 0 is a
time already elapsed at the start. `refinement` has `MaxClock = 1`, with the three positions
spread over the deadlines 0 and 1. Two watchers are enough for one to be skipped behind the
other; three for a removal in the middle of a list. Two keys let an active cycle delete several
and a client lose watches on keys other than the one touched. `ReplCap = 0` (a log that is always
full) keeps the log out of the state where no property reads it; symmetry on keys is used only
there or where no cycle logs anything, because a cycle orders its DELs. `replication` has no
clients: watchers do not influence slots or logs. `ReplicaWaitsForWrites` also says that a replica's reads log nothing; with `ReplCap = 0` that
conjunct shows nothing in `visibility`, and theorem `ReplicasWaitForTheirMaster` has it for every
capacity. `Spread = 2` in `rules` lets an elapsed time
lie one or two before the clock, and reaches the sentinel. In `concrete`, seven seeds contain
three pairs that share a stream and one seed by itself, more failures than are reported, and
every assignment of the five scripts to the streams. In `difftest` the margins keep the
proportions of the source (drift < SOON < TICK_MS, and FAR beyond all ticks;
`MarginsAssumption`), three steps are enough for a write, a tick and a command that sees the
result, and since schedules follow each other without end, what one leaves behind meets the next.
The margins are about the deadlines a schedule draws; a wrong server also has the deadline
`Base + TickMs`, which the drift does cross after the tick, between any two commands of the snapshot.
In `resp` values nest two arrays deep, are empty, absent or made of line ends. In `harness` three
probes let one find nobody, one lose its peer and the next meet another; tests share nothing but
the process, so that two are enough, and the theorems hold for any number.

Initial states are those of `nondet_world`: any well-formed slots, nobody watching. It draws
role and caller and pins the switches (`DrawnModes`). `visibility` and `refinement` also take
the other values of the switches, which are fields of `World` that a rule may set and that
`expire_if_needed` consults. `replication` and `difftest` start from `World::empty`.

Deadlock is checked where a step is always possible. `rules`, `concrete`, `difftest`, `resp`
and `harness` model programs that end, so there it is not.

Fairness. Nothing in `model/` obliges a step to happen (a schedule is drawn), so about the
state machine only safety is stated; PROPERTIES.md records replication liveness as not
expressible for the same reason. The drivers are loops of running threads:

* `ConcreteDriver`: weak fairness of the loop over finitely many seeds, whose rules return.
* `DiffTest`: weak fairness of the driver together with the server's answers. Nothing obliges
  time to pass, an active cycle to run or the socket to fail.
* `RespClient`: weak fairness of the client's reads and of the server as long as it lives.
  The socket has no read timeout (`driver/resp.rs:69`), so without the second no call need
  ever return.
* `Harness`: weak fairness of what a test can do by itself (`OwnStep`), and of a read whose
  peer is gone, which fails. None for the servers: they need not boot, answer or die. So a test
  that has sent PING or runs its body may wait for ever, because `connect` sets no read timeout
  and the 100 attempts (`tests/difftest.rs:50`) count only those that come back;
  `TestsEndUnlessHeldUp` says that nothing else keeps a test from ending.

### Findings

**Is the `break` of F-01 reachable by commands?** FINDINGS.md asks: it needs a flag
`watched_expired` on a key that is present and not expired. The model gives both halves of
the answer.

* Where a write lookup of an expired key deletes it (`ForcesDelete`: the caller is not the
  replication link, the expire action is not paused) it cannot. `NoStaleExpiredFlag` is
  checked by `watch` and proved for every number of keys and clients.
* "Every ordinary write path lazy-expires first" (FINDINGS.md:131) does not hold elsewhere.
  With `expire_paused`, `expire_if_needed` returns `Expired` before it deletes, and an
  ordinary SET overwrites the key in place (run `paused_watch`). On a replica, a SET that
  comes over the link is `Valid` before anything is deleted (`expire.rs:96`), which has the
  same consequence; replica application is one of the routes FINDINGS.md:116 lists as not
  tried. In both, the next write skips a client that watched the live key.

**A rule can draw the sentinel.** `expire_rules.rs:29` draws a time "strictly in the past" as
`clock - 1 - r`. With `r = clock` that is -1, which is `NO_EXPIRE`: the key has no TTL and the
rule's first assertion fails (run `rules_sentinel`). The same expression occurs at
`expire_rules.rs:148`, `177`, `205` and `multi_rules.rs:71`. Seeded streams do not meet it; a
prover would.

Smaller differences between text and code, which the passing properties state as the code
has them:

* README.md:28 counts 20 000 seeded streams. `seed | 1` gives the seeds 2k and 2k+1 the same
  stream, so 10 001 are distinct (`StreamsInPairs`). Schedules of the differential test are
  drawn from the same seeds, two by two the same but for `base`.
* `tests/difftest.rs:7` says that the test skips if the server is absent. It also skips a
  server that has not answered 100 probes (line 58): a test that prints SKIP may have had one
  (`GiveUp`).
* `driver/difftest.rs:207` says that a snapshot holds "(key, value, has_ttl) for each visible
  key". GET and PTTL are two round trips, and `ttl >= 0` (line 251) makes one of "no TTL" and "no
  key", which line 161 keeps apart. A server that wrongly gives a key a TTL is therefore let off
  if that TTL runs out after GET and before PTTL, although it has lost the key by then: the
  exception `RanOut` of `AgreedMeansEqual`, without which TLC finds such a schedule of two steps.
  Nothing else of the world that KEYS listed can differ from the model's snapshot. A correct
  server is not concerned: no deadline of a schedule can pass there.
* README.md:38 says that the test spawns the server itself. It accepts whoever answers PING
  on its port (line 51): after a killed run that may be the server of the run before, the
  second disjunct of `OwnServer`.

Other things worth knowing that no property is about: the drift of `NoFalseAlarm` adds up
over a whole schedule up to the next tick, not over one command ("jitter is well under 5ms"),
so the longer schedules of `DIFFTEST_LEN=24` have less of the 30 ms margin; WATCH and UNWATCH,
which `render` turns into PING, are never drawn; an error in reply to FLUSHALL goes
unnoticed, and a TIME reply of the wrong shape gives `base` 0, after which every deadline is
long past on the server and not in the model.

These are statements about the program in this repository. Whether a `redis-server` behaves
as `model/` does is what the differential driver samples.

`ReplicaConverges` needs `LogHasRoom`: `push` drops effects when the log is full, and what is
dropped is never replayed. `MasterStep` therefore stops while the next unit might not fit.

## What is proved

Every invariant and every action property of the passing runs, and every refinement: all but
liveness. The theorems hold for every finite set of keys and clients, every set of values,
times and ticks, every log capacity and every set of modes, and for the drivers every number
of tests, probes, seeds, bits, steps and milliseconds of drift and every set of requests and
replies, under the assumptions named below and in the modules:

| Module | Theorem | Statement |
|---|---|---|
| `StepProofs` | `TypeCorrect` | `Spec => []TypeOK` |
| | `ExpiresStaySubsetOfKeys` | `Spec => []ExpiresSubsetOfKeys` |
| | `WatchTableStaysConsistent` | `Spec => []WatchTableConsistent` |
| | `ExpiredFlagsStayFresh` | `Spec => []NoStaleExpiredFlag` |
| | `WritesDirtyEveryWatcher` | `Spec => [](ForcesDelete(world.mode) => WriteDirtiesEveryWatcher)` |
| | `KeysAndGetAgree` | `Spec => []KeysAgreesWithGet` |
| | `PttlNeverLies` | `Spec => []PttlIsUnambiguous` |
| | `CyclesReconcileDbSize` | `Spec => []ActiveCycleReconcilesDbSize` |
| | `HiddenKeysStayHidden` | `Spec => []OnlySetRevives` |
| | `ReplicasWaitForTheirMaster` | `Spec => []ReplicaWaitsForWrites` |
| `ReplicationProofs` | `EachChangeIsPropagatedOnce` | `Spec => []ChangesArePropagatedOnce` |
| | `ReplicasConverge` | `ReplSpec => []ReplicaConverges` |
| | `ReplicasRelayTheLog` | `ReplSpec => []ReplicaRelaysTheLog` |
| | `ReplicasDeleteOnOrder` | `ReplSpec => ReplicaDeletesOnOrder` |
| `ClientViewProofs` | `StoreIsImplemented` | `ObservedSpec => ImplementsLogicalStore` |
| | `StandingWatchesMissNothing` | `CasSpec => []WatchSeesEveryChange` |
| | `DirtyClientsWatchNothing` | `Spec => DirtyingClearsWatches` |
| `WatchLoopProofs` | `LoopReturnsWhatWatchSays` | `LoopSpec => []ReturnsWhatWatchSays` |
| | `LoopVisitsWatchers` | `LoopSpec => []LoopVisitsWatchersOnce` |
| | `LoopImplementsCalls` | `LoopSpec => ImplementsWatchCalls` |
| `RulesProofs` | `RulesAlwaysHold` | `RuleSpec => []RulesHold` |
| | `F01RuleAlwaysFails` | `RuleSpec => []F01RuleFails` |
| `DriverProofs` | `StreamsNeverDie` | `DriverSpec => []NeverZero` |
| | `ReportedSeedsFail` | `DriverSpec => []FailuresReproduce` |
| | `VerdictsAreHonest` | `DriverSpec => []StatusIsHonest` |
| | `SeedsComeInPairs` | `DriverSpec => []StreamsInPairs` |
| | `TestsTalkToTheirServers` | `HarnessSpec => []OwnServer` |
| | `ServersAreReaped` | `HarnessSpec => []NoServerLeftBehind` |
| `DiffTestProofs` | `DriverTyped` | `DiffSpec => []DiffTypeOK` |
| | `SidesInLockStep` | `DiffSpec => []LockStep` |
| | `NoCorrectServerAccused` | `DiffSpec => []NoFalseAlarm` |
| | `AgreementIsEquality` | `DiffSpec => []AgreedMeansEqual` |
| | `ReadingChangesNothing` | `DiffSpec => SnapshotObserves` |
| `RespProofs` | `NothingIsLeftOver` | `RespSpec => []NothingLeftOver` |
| | `ReaderIsAligned` | `RespSpec => []ReaderStaysAligned` |
| | `ClientImplementsCall` | `RespSpec => ImplementsCall` |

**Soundness** (`StepProofs`). The inductive invariant `IInv` says that the world is `Sound`
and no unit is open. `Sound` joins the four invariants because none of the interesting ones
is inductive alone: flags stay fresh after a deletion only because a touch visits every
flagged client, which needs flags and lists to agree; lists stay orders only because a client
that already watches is not added again. The key step is `LookupSound`: a fresh flag means
the key is expired, so a write lookup deletes it and the touch with the key absent clears the
flag; what the rest of the write touches carries no flag, so nothing blocks and everybody is
dirtied. `Evolves(w, u, k)` states this for any sequence of operations on one key in one unit;
it is transitive, so each command is a short composition. Every later proof rests on `IInv`
and is built the same way, from a transitive relation between worlds.

**Visibility.** `LookupFinds`: where expired keys are hidden, a lookup finds a key exactly when
KEYS would list it, whichever early return it takes, and removes only what was out of sight.

**Propagation and replication.** `Story(es, s, t)`: carrying out the effects `es` leads from
keyspace `s` to keyspace `t`, and each effect finds what it needs. A unit's slots, its count
and its pushed effects tell one story. The invariant of replication is that the effects still
to be applied are a story from the replica's keyspace to its master's: a step of the master
appends to it, an applied effect takes the first sentence away. What the replica could do
wrong with an effect, treat it as elapsed or miss its key, is excluded because the link sees
no key as expired. `LinkModesAssumption` (`DrawnModes \subseteq Modes`) is that a replica's
two modes are among those typed.

**Refinement.** `Seen(w)` is what the map holds while the model is in `w`. A lookup returns
what is seen and changes nothing of it; a write changes what is seen of one key, to what can
be seen of the new slot. One lemma per command, a cycle is a lapse of the keys due or a
stutter, a tick lets time pass. `HidingAssumption` (`Modes \subseteq HidingModes`) leaves out
the modes in which expired keys are visible on purpose; the map knows none.

**CAS.** `Guards(w, u)`: a client that still watches a key sees of it what it saw, and one that
was dirtied watches nothing. That a touch reaches every watcher comes from `Sound`. A tick
changes what is seen only by letting a deadline pass, which a standing watch allows.

**Watch loop.** Who is still to be visited by the running call is known at every iteration: the
rest of the snapshot up to the first watcher that blocks, and the watchers of every key still
to be deleted. `LoopIInv` ties the arrays to the lists (`TablesTied`: an array holds each
watcher once, in list order), says where the loop is (`FrameIsSound`) and that visiting all of
those at once gives the result that `Watch` gave for the whole call (`ResultIsAhead`). An
iteration moves one client from the ones to be visited into the state. `PlacesAreRanks` and
`RemoveIs` are about `WatchTable::remove`: its write index counts the entries kept, so the array
stays without holes and in order.
`NobodyAssumption`: `None` is no client.

**Rules.** Each rule is followed from the drawn world through its commands: the lemmas on
lookups and writes give the slots, the flags and the propagated effects after each, and those
decide its assertions. The lemmas about watchers need a `Sound` world; those about slots do
not, since a rule puts a deadline of its own. `PinnedAssumption`: the rules pin a standalone
master, and the log holds an effect (`REPL_CAP` is 8). `RulesHold` excepts a drawn time that
is the sentinel, see the findings.

**Concrete driver.** A word xored with itself shifted right keeps its highest bit, shifted left
its lowest: no stream becomes 0. While a rule runs, what is recorded is what the executed part
of its script deserves. `ScriptsAssumption`, that rules assume before they assert, holds of all
rules in `specs/`; a rule that assumed later would lose an earlier failure (`concrete.rs:122`).
A number is its half and whether it is odd, so numbers with the same bits are equal, and seeds
whose lowest bit has been set begin on one stream exactly when their halves are equal;
`SeedsAssumption` is that a seed is a `u64`. `HalvesExists` shows that the recursive function
`Bits` exists at all, without which nothing follows from its equation.

**Harness.** A test's peer is right because only its own server can have its port, or whoever had
it before the tests started, and the port is free in the end because only a server that is up has
one.

**Differential driver.** `Aligned(w, v)`: one keyspace, and no deadline that a schedule draws
lies between the two clocks. Every command takes aligned worlds to aligned worlds with replies that
`replies_agree` accepts; the server parses back the words that `render` wrote; and no GET or
PTTL of a correct server's snapshot meets a key that expired since KEYS listed it. That the worlds stay aligned
is arithmetic on `MarginsAssumption` (the drift of a schedule is less than SOON, SOON less than
a tick, and FAR out of reach of all ticks, with PAST negative: `driver/difftest.rs:24-27`): each
deadline is on one side of both clocks from the tick that passes it on. `DiffIInv` joins this
with what the driver knows of the call and the snapshot under way, and with the two verdicts.
Of a wrong server it says less: each listed key still has the slot that KEYS found, or that
slot's deadline has passed and it may be blank (`Lost`), and each entry read is the listed value,
with a TTL only if the listed slot has one, and without one only if it has none or it ran out
(`Told`). An agreed snapshot has an entry for every listed key, which is what `AgreedMeansEqual`
needs.
`StandaloneAssumption`: both sides run as standalone masters, `pin_standalone_master`.

**RESP client.** What is still to come, on the wire and unwritten, is known at every step: what
is left of the value being read, then for each open array the items behind it. `Within` ties
the stack of open arrays to the reply the server decided on, and `At` says where in a value the
client is. A token read, an item pushed or a header understood takes the same from both sides.
The bytes of a bulk string are never looked at, because its length came before them. Two
requests that look the same on the wire are the same (`SameRequest`), so what the server heard
is what was asked. `RequestsAssumption` types the requests; `WireAssumption` is that the server
writes RESP2.

The runs check the parts of the inductive invariants that are properties of their own: `watch`
the four conjuncts of `Sound` and the history invariant, `replication` the prefix of the log,
`difftest` types, lock step and the two verdicts, `watch_loop` and `concrete` the ghost results.
The other parts only serve the proofs and are checked by them.

Only model-checked: the liveness properties `EveryRunEnds`, `EveryScheduleIsDecided`,
`EveryCallReturns` and `TestsEndUnlessHeldUp`, since the prover treats neither fairness nor the ENABLED
it is made of. The abstract calls and the abstract store state no fairness, so their refinements
are proved whole. The two expected violations are counterexamples and need no proof.

## Not modelled

* `tests/difftest.rs:119-220`: the test that plants a bug and the SWAPDB probe are straight
  lines of commands, MULTI/EXEC and a second database among them, with nothing of the model
  on the other side. `Harness` models their start and end only.
* `certora_build.py`, `confs/`, `justfile`, `scripts/wasm_shape.py`: build orchestration and a
  file dump, no state of their own. The transcript is generated HTML.
* Byte contents of strings, MULTI/EXEC, aggregates and cluster slots are not in the source.
* The Prover's own interpretation of `CVT_*`: a rule here runs as the concrete driver runs it.

## Plan

Done: everything above; no invariant, action property or refinement that a run checks is left
without a theorem. What could still be added:

1. A theorem that the F-01 counterexamples are the only ones: that a skipped watcher needs the
   expire action paused or a SET over the replication link.
2. A refinement of the whole differential test: `RespClient` below `DiffTest`, so that a call of
   the driver is a call on the wire. Today they meet in `RespCall` by inspection only.
3. MULTI/EXEC, when the source has it: `in_multi` and `dirty_exec` are there already, and
   `Cas` is what EXEC has to consult.
