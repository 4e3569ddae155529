----------------------------- MODULE Properties ----------------------------
(***************************************************************************)
(* What a schedule of steps promises, for one world.  The numbers P-xx are *)
(* those of PROPERTIES.md.                                                 *)
(***************************************************************************)
EXTENDS Step

(***************************************************************************)
(* Configurations                                                          *)
(***************************************************************************)

\* A write lookup of an expired key really deletes it: nobody is asking over
\* the replication link and the expire action is not paused.
ForcesDelete(mode) == ~SeenFromMaster(mode) /\ ~mode.expire_paused

\* An expired key is hidden from the client that asks
HidesExpired(mode) == ~SeenFromMaster(mode) /\ ~mode.allow_access_expired

DrawnForcingModes == {m \in DrawnModes : ForcesDelete(m)}
HidingModes == {m \in AllModes : HidesExpired(m)}

-----------------------------------------------------------------------------
(***************************************************************************)
(* Invariants                                                              *)
(***************************************************************************)

\* Every field has its type, and between steps no execution unit is open
\* (step() closes the unit it opens).
TypeOK == world \in World /\ world.nesting = 0

\* An absent slot carries no TTL, nor a value.
AbsentSlotsAreBlank(w) ==
    \A k \in Key : ~w.slots[k].present => w.slots[k] = AbsentSlot

\* A list is a total order on its members.
Ordered(list) ==
    /\ list \subseteq Members(list) \X Members(list)
    /\ \A c, d \in Members(list) :
         /\ <<c, d>> \in list \/ <<d, c>> \in list
         /\ <<c, d>> \in list /\ <<d, c>> \in list => c = d
    /\ \A b, c, d \in Members(list) :
         <<b, c>> \in list /\ <<c, d>> \in list => <<b, d>> \in list

\* A client stands in a key's list exactly when its own `watching` says so, and
\* an "expired" flag never outlives its watch.
TableIsConsistent(w) ==
    /\ \A k \in Key : Ordered(w.watched[k])
    /\ \A k \in Key, c \in Client :
         k \in w.clients[c].watching <=> c \in Watchers(w, k)
    /\ \A c \in Client : w.clients[c].watched_expired \subseteq w.clients[c].watching

\* A flag "already expired" tells the truth about a key that is there.
FlagsAreFresh(w) ==
    \A c \in Client : \A k \in w.clients[c].watched_expired :
        w.slots[k].present /\ KeyIsExpired(w, k)

\* P-05: whatever path removed a key (lazy expiry, active expiry, DEL, EXPIRE
\* or SET with an elapsed time), it left nothing behind.
ExpiresSubsetOfKeys == AbsentSlotsAreBlank(world)

\* watch_key, unwatch_all and touch_watched_key, which add and remove watches
\* in both places, keep the two views of WATCH in step and the order of each
\* list total, and add_tail never finds a list full.
WatchTableConsistent == TableIsConsistent(world)

\* FINDINGS.md F-01: while write lookups delete, no schedule leaves an
\* "already expired" flag on a key that is absent or has come back to life.
\* The state that multi_touch_dirties_every_watcher builds by hand is
\* therefore unreachable by commands.
NoStaleExpiredFlag == ForcesDelete(world.mode) => FlagsAreFresh(world)

\* P-07 and P-08: a command that changes its key, even back to the value it
\* had, dirties every client that watches the key and did not already see it
\* expired, wherever that client stands in the watcher list.
WriteDirtiesEveryWatcher ==
    \A cmd \in KeyCmd :
        LET after == RunCmd(world, cmd).world
        IN after.dirty > 0 =>
             \A c \in Watchers(world, cmd.key) :
                 \/ after.clients[c].dirty_cas
                 \/ cmd.key \in world.clients[c].watched_expired

\* KEYS, which filters for itself, and GET, which goes through the lookup and
\* its seven early returns, agree on which keys exist.
KeysAgreesWithGet ==
    HidesExpired(world.mode) =>
        RunCmd(world, [op |-> "Keys"]).reply =
            KeySetReply({k \in Key :
                RunCmd(world, [op |-> "Get", key |-> k]).reply # NilReply})

\* P-12 against P-03: the two expiry comparisons differ by one millisecond in
\* the safe direction, so that right after an active cycle DBSIZE, which does
\* not filter, counts exactly the keys that KEYS returns.
ActiveCycleReconcilesDbSize ==
    world.mode.role = "Master" /\ ~world.mode.expire_paused =>
        LET after == RunActiveExpire(world)
        IN RunCmd(after, [op |-> "DbSize"]).reply =
               IntReply(Cardinality(RunCmd(after, [op |-> "Keys"]).reply.keys))

\* PTTL's three replies keep their meaning: where expired keys are hidden, the
\* remaining time is never so negative that it reads as "no TTL" or "no key".
PttlIsUnambiguous ==
    HidesExpired(world.mode) =>
        \A k \in Key :
            LET n == RunCmd(world, [op |-> "Pttl", key |-> k]).reply.n
            IN /\ n = -2 <=> k \notin VisibleKeys(world)
               /\ n = -1 <=> k \in VisibleKeys(world)
                             /\ world.slots[k].expire_at = NoExpire
               /\ n >= -2

\* A key comes into sight through SET only: EXPIRE, PERSIST and the lookups
\* never bring back a key whose time has passed, even one that an early return
\* of expire_if_needed left in place.
OnlySetRevives ==
    HidesExpired(world.mode) =>
        \A cmd \in KeyCmd \ SetCmd :
            VisibleKeys(RunCmd(world, cmd).world) \subseteq VisibleKeys(world)

\* P-10 and P-11: on a replica no read and no active cycle removes a key,
\* propagates anything or touches a watcher: that waits for a write.
NothingHappens(before, after) ==
    /\ after.slots = before.slots /\ after.repl = before.repl
    /\ after.clients = before.clients /\ after.watched = before.watched

ReplicaWaitsForWrites ==
    world.mode.role = "ReadOnlyReplica" =>
        /\ \A cmd \in LookupCmd \cup ScanCmd :
             NothingHappens(world, RunCmd(world, cmd).world)
        /\ NothingHappens(world, RunActiveExpire(world))

\* A unit's `dirty` and the effects it propagates tell the same story: each
\* change is counted once and pushed once (unless the log is full), a unit
\* that counts nothing has changed no slot, and one active cycle counts every
\* key it removes.
PropagatedOnce(before, after) ==
    LET pushed == Len(after.repl) - Len(before.repl)
    IN /\ \/ pushed = after.dirty
          \/ pushed < after.dirty /\ Len(after.repl) = ReplCap
       /\ after.dirty = 0 => after.slots = before.slots

ChangesArePropagatedOnce ==
    /\ \A cmd \in KeyCmd : PropagatedOnce(world, RunCmd(world, cmd).world)
    /\ PropagatedOnce(world, RunActiveExpire(world))

-----------------------------------------------------------------------------
(***************************************************************************)
(* Action properties                                                       *)
(***************************************************************************)

\* A dirty client stays dirty and has no watch left from before: a client that
\* was dirtied can never be caught by a later touch as if it still watched.
DirtyingClearsWatches ==
    [][\A c \in Client :
         /\ world.clients[c].dirty_cas => world'.clients[c].dirty_cas
         /\ ~world.clients[c].dirty_cas /\ world'.clients[c].dirty_cas =>
                world'.clients[c].watching = {}
                /\ \A k \in Key : c \notin Watchers(world', k)]_vars
=============================================================================
