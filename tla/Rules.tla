-------------------------------- MODULE Rules -------------------------------
(***************************************************************************)
(* The rules of specs/*.rs.  A rule draws a world and its parameters, calls *)
(* the model and asserts; here a rule is an action, which records what its *)
(* assertions came to.  Neither an assertion nor an assumption stops a     *)
(* rule in the concrete driver, so a rule always runs to its end.          *)
(*                                                                         *)
(* A rule that puts a key in the past does so with                         *)
(* `clock - 1 - nondet_range(1000)`, which can be NO_EXPIRE: `sentinel`    *)
(* says that it was.                                                       *)
(***************************************************************************)
EXTENDS Step

CONSTANT Spread    \* the 1000 of nondet_range(1000): how far times are drawn

ASSUME SpreadAssumption == Spread \in Nat
\* What every rule pins, and a log (REPL_CAP) that holds at least one effect
ASSUME PinnedAssumption == StandaloneMaster \in Modes /\ ReplCap > 0

VARIABLE outcome   \* what the rule that was run has asserted

ruleVars == <<world, outcome>>

NotRun == [rule |-> "none", asserts |-> <<>>, sentinel |-> FALSE]

RuleInit ==
    /\ \E clock \in 0..MaxClock, mode \in DrawnModes : world \in NondetWorld(clock, mode)
    /\ outcome = NotRun

-----------------------------------------------------------------------------
Pinned(w) == [w EXCEPT !.mode = StandaloneMaster]
PinnedReplica(w, caller) ==
    [w EXCEPT !.mode = [StandaloneMaster EXCEPT !.role = "ReadOnlyReplica",
                                                !.caller = caller]]

\* A rule puts a key where it wants it by writing to the slot.
Placed(w, k, at) ==
    [w EXCEPT !.slots[k] = [@ EXCEPT !.present = TRUE, !.expire_at = at]]
PlacedValue(w, k, v, at) ==
    [w EXCEPT !.slots[k] = [present |-> TRUE, value |-> v, expire_at |-> at]]

Elapsed(clock) == {clock - 1 - r : r \in 0..(Spread - 1)}
Coming(clock, spread) == {clock + 1 + r : r \in 0..(spread - 1)}

\* exec_cmd has one result: `\E r \in Runs(w, cmd)` names it.
Runs(w, cmd) == {Exec(w, cmd)}
PlainSet(k, v, cond, ttl) ==
    [op |-> "Set", key |-> k, val |-> v, cond |-> cond, ttl |-> ttl, get |-> FALSE]
On(op, k) == [op |-> op, key |-> k]
Scan(op) == [op |-> op]

LogicallyPresent(w, k) == w.slots[k].present /\ ~KeyIsExpired(w, k)

\* The rule has run: the world it ends with and what it asserted, in order
Ran(rule, w, sentinel, asserts) ==
    /\ outcome = NotRun
    /\ world' = w
    /\ outcome' = [rule |-> rule, asserts |-> asserts, sentinel |-> sentinel]

-----------------------------------------------------------------------------
(***************************************************************************)
(* specs/string_rules.rs                                                   *)
(***************************************************************************)
StringSetIntegrity ==
    \E k \in Key, v \in Value, w \in {Pinned(world)} :
    \E r \in Runs(w, PlainSet(k, v, "Always", NoTtl)) :
        Ran("string_set_integrity", r.world, FALSE,
            <<r.reply = OkReply,
              r.world.slots[k] = [present |-> TRUE, value |-> v, expire_at |-> NoExpire],
              \A j \in Key \ {k} :
                 /\ r.world.slots[j].present = w.slots[j].present
                 /\ r.world.slots[j].expire_at = w.slots[j].expire_at>>)

TtlInstalled(w, u, k, ttl) ==
    CASE ttl.kind = "None" -> u.slots[k].expire_at = NoExpire
      [] ttl.kind = "PxAt" -> IF ttl.at <= u.clock THEN ~u.slots[k].present
                              ELSE u.slots[k].expire_at = ttl.at
      [] ttl.kind = "Keep" -> u.slots[k].expire_at =
             IF LogicallyPresent(w, k) THEN w.slots[k].expire_at ELSE NoExpire

StringSetTtlArgument ==
    \E k \in Key, v \in Value, ttl \in TtlArg, w \in {Pinned(world)} :
    \E r \in Runs(w, PlainSet(k, v, "Always", ttl)) :
        Ran("string_set_ttl_argument", r.world, FALSE,
            <<TtlInstalled(w, r.world, k, ttl)>>)

StringSetNxXx ==
    \E k \in Key, v \in Value, cond \in {"Nx", "Xx"}, w \in {Pinned(world)} :
    \E r \in Runs(w, PlainSet(k, v, cond, NoTtl)) :
        Ran("string_set_nx_xx_uses_logical_existence", r.world, FALSE,
            <<(r.reply = OkReply) = (LogicallyPresent(w, k) = (cond = "Xx")),
              r.reply # OkReply /\ r.world.slots[k].present
                  => r.world.slots[k].value = w.slots[k].value>>)

-----------------------------------------------------------------------------
(***************************************************************************)
(* specs/expire_rules.rs                                                   *)
(***************************************************************************)
ExpireVisibilitySplit ==
    \E k \in Key, at \in Elapsed(world.clock) :
    \E w \in {Placed(Pinned(world), k, at)} :
    \E keys \in Runs(w, Scan("Keys")) :
    \E n \in Runs(keys.world, Scan("DbSize")) :
    \E e \in Runs(n.world, On("Exists", k)) :
    \E m \in Runs(e.world, Scan("DbSize")) :
        Ran("expire_visibility_split", m.world, at = NoExpire,
            <<KeyIsExpired(w, k),
              k \notin keys.reply.keys,
              keys.world.slots[k].present,
              Len(keys.world.repl) = Len(w.repl),
              n.world.slots[k].present,
              e.reply = IntReply(0),
              ~e.world.slots[k].present,
              m.reply.n = n.reply.n - 1>>)

ExpireLazyActiveBoundary ==
    \E k \in Key : \E w \in {Placed(Pinned(world), k, world.clock)} :
    \E g \in Runs(w, On("Get", k)) :
    \E u \in {ActiveExpireCycle(g.world)} :
        Ran("expire_lazy_active_boundary", u, FALSE,
            <<~KeyIsExpired(w, k),
              ActiveCycleWouldExpire(w, k),
              g.reply # NilReply,
              g.world.slots[k].present,
              ~u.slots[k].present>>)

ConditionMet(cond, current, at) ==
    CASE cond = "None" -> TRUE
      [] cond = "Nx" -> current = NoExpire
      [] cond = "Xx" -> current # NoExpire
      [] cond = "Gt" -> current # NoExpire /\ at > current
      [] cond = "Lt" -> current = NoExpire \/ at < current

ExpireConditionSemantics ==
    \E k \in Key, current \in {NoExpire} \cup Coming(world.clock, Spread),
       at \in Coming(world.clock, 2 * Spread), cond \in ExpireCond :
    \E r \in Runs(Placed(Pinned(world), k, current),
                  [op |-> "Expire", key |-> k, at |-> at, cond |-> cond]) :
        Ran("expire_condition_semantics", r.world, FALSE,
            <<(r.reply = IntReply(1)) = ConditionMet(cond, current, at),
              r.world.slots[k].expire_at =
                  IF r.reply = IntReply(1) THEN at ELSE current>>)

\* The rule's third assertion, that the effect is no MULTI, follows from the
\* second: the model has no MULTI effect.
ExpireLazyPropagates ==
    \E k \in Key, at \in Elapsed(world.clock) :
    \E w \in {Placed(Pinned(world), k, at)} :
    \E g \in Runs(w, On("Get", k)) :
        Ran("expire_lazy_propagates_bare_del", g.world, at = NoExpire,
            <<Len(g.world.repl) = Len(w.repl) + 1,
              Len(g.world.repl) > Len(w.repl)
                /\ g.world.repl[Len(w.repl) + 1] = DelEffect(k)>>)

ExpireReplicaHides ==
    \E k \in Key, at \in Elapsed(world.clock) :
    \E w \in {Placed(PinnedReplica(world, "Normal"), k, at)} :
    \E g \in Runs(w, On("Get", k)) :
        Ran("expire_replica_hides_without_deleting", g.world, at = NoExpire,
            <<g.reply = NilReply,
              g.world.slots[k].present,
              Len(g.world.repl) = Len(w.repl)>>)

ExpireMasterLink ==
    \E k \in Key, v \in Value, at \in Elapsed(world.clock) :
    \E w \in {PlacedValue(PinnedReplica(world, "MasterLink"), k, v, at)} :
    \E g \in Runs(w, On("Get", k)) :
        Ran("expire_master_link_sees_expired_key_as_valid", g.world, at = NoExpire,
            <<g.reply # NilReply, g.world.slots[k].present>>)

-----------------------------------------------------------------------------
(***************************************************************************)
(* specs/keyspace_rules.rs                                                 *)
(***************************************************************************)
NoTtlWithoutKey(w) == \A k \in Key : w.slots[k].present \/ w.slots[k].expire_at = NoExpire

\* The commands that draw_cmd draws: TYPE and UNWATCH are not among them.
DrawnCmd == {cmd \in KeyCmd \cup ScanCmd \cup WatchCmd : cmd.op # "Type"}

\* The rule's cvlr_assume, NoTtlWithoutKey of the drawn world, is the guard.
ExpiresSubsetOfKeysRule ==
    \E cmd \in DrawnCmd, w \in {Pinned(world)} : \E r \in {RunCmd(w, cmd)} :
        /\ NoTtlWithoutKey(w)
        /\ Ran("keyspace_expires_subset_of_keys", r.world, FALSE,
               <<NoTtlWithoutKey(r.world)>>)

OnlyRemoves(w, u) ==
    \A k \in Key :
        /\ u.slots[k].present => w.slots[k].present /\ u.slots[k] = w.slots[k]
        /\ w.slots[k].present /\ ~u.slots[k].present =>
              w.slots[k].expire_at # NoExpire /\ w.slots[k].expire_at <= w.clock

ActiveExpiryOnlyRemoves ==
    \E w \in {Pinned(world)} : \E u \in {ActiveExpireCycle(w)} :
        Ran("keyspace_active_expiry_only_removes", u, FALSE, <<OnlyRemoves(w, u)>>)

DbSizeCountsPhysical ==
    \E w \in {Pinned(world)} : \E r \in Runs(w, Scan("DbSize")) :
        Ran("keyspace_dbsize_counts_physical", r.world, FALSE,
            <<r.reply = IntReply(Cardinality({k \in Key : w.slots[k].present})),
              \A k \in Key : r.world.slots[k].present = w.slots[k].present,
              Len(r.world.repl) = Len(w.repl)>>)

-----------------------------------------------------------------------------
(***************************************************************************)
(* specs/multi_rules.rs.  Clients 0 and 1 are any two different clients;   *)
(* who writes does not matter to exec_cmd.                                 *)
(***************************************************************************)
WatchIsValueBlind ==
    \E k \in Key, v \in Value, watcher \in Client :
    \E w \in {WatchKey(PlacedValue(Pinned(world), k, v, NoExpire), watcher, k)} :
    \E r \in Runs(w, PlainSet(k, v, "Always", NoTtl)) :
        Ran("multi_watch_is_value_blind", r.world, FALSE,
            <<~w.clients[watcher].dirty_cas,
              r.world.slots[k].value = v,
              r.world.clients[watcher].dirty_cas>>)

TouchDirtiesEveryWatcher ==
    \E k \in Key, v \in Value, at \in Elapsed(world.clock),
       a, b \in Client :
    /\ a # b
    /\ \E w \in {WatchKey(PlacedValue(Pinned(world), k, v, at), a, k)} :
       \E u \in {WatchKey(Placed(w, k, NoExpire), b, k)} :
       \E t \in {Touch(u, {k})} :
          Ran("multi_touch_dirties_every_watcher", t, at = NoExpire,
              <<k \in w.clients[a].watched_expired,
                k \notin u.clients[b].watched_expired,
                t.clients[b].dirty_cas>>)

-----------------------------------------------------------------------------
RuleNext ==
    \/ StringSetIntegrity \/ StringSetTtlArgument \/ StringSetNxXx
    \/ ExpireVisibilitySplit \/ ExpireLazyActiveBoundary \/ ExpireConditionSemantics
    \/ ExpireLazyPropagates \/ ExpireReplicaHides \/ ExpireMasterLink
    \/ ExpiresSubsetOfKeysRule \/ ActiveExpiryOnlyRemoves \/ DbSizeCountsPhysical
    \/ WatchIsValueBlind \/ TouchDirtiesEveryWatcher

RuleSpec == RuleInit /\ [][RuleNext]_ruleVars

-----------------------------------------------------------------------------
(***************************************************************************)
(* Properties                                                              *)
(***************************************************************************)
F01Rule == "multi_touch_dirties_every_watcher"

Passed(asserts) == \A i \in DOMAIN asserts : asserts[i]

\* The thirteen rules that all_rules_execute expects to hold do so for every
\* world and parameter they can draw, as long as the time drawn for an elapsed
\* key is not the sentinel: what no Prover has been asked yet, and what the
\* seeded streams only sample.
RulesHold == outcome.rule # F01Rule /\ ~outcome.sentinel => Passed(outcome.asserts)

\* The rule that is expected to fail (FINDINGS.md F-01) fails in every world,
\* and for the reason given there: its set-up assertions hold and the last one,
\* that the second watcher is dirtied, does not.
F01RuleFails ==
    outcome.rule = F01Rule /\ ~outcome.sentinel => outcome.asserts = <<TRUE, TRUE, FALSE>>

\* The key that expire_visibility_split draws is "strictly in the past"
\* (specs/expire_rules.rs:29), which its first assertion checks.
ElapsedKeyIsExpired ==
    outcome.rule = "expire_visibility_split" => outcome.asserts[1]
=============================================================================
