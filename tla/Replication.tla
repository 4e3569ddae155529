----------------------------- MODULE Replication ---------------------------
(***************************************************************************)
(* Two worlds joined by the propagation log: a standalone master, and a    *)
(* read-only replica that replays the master's log through the very same   *)
(* exec_cmd, as the caller MasterLink, while its own clients read and      *)
(* watch as Normal callers and its own clock runs apart.  The link itself  *)
(* is Redis's and not in the source: it delivers effects in order, once.   *)
(***************************************************************************)
EXTENDS Properties

VARIABLES
    replica,  \* the replica's world; `world` is the master's
    applied   \* how many effects of the master's log it has replayed

replVars == <<world, replica, applied>>

ReplicaMode == [StandaloneMaster EXCEPT !.role = "ReadOnlyReplica"]

\* Both worlds, for both kinds of caller, run in a mode that nondet_world draws.
ASSUME LinkModesAssumption == DrawnModes \subseteq Modes

ReplicaFresh == [EmptyWorld(0) EXCEPT !.mode = ReplicaMode]

ReplInit == world = EmptyWorld(0) /\ replica = ReplicaFresh /\ applied = 0

\* What the replica executes for an effect it reads from the wire
AsCommand(e) ==
    CASE e.op = "Set" -> [op |-> "Set", key |-> e.key, val |-> e.val, cond |-> "Always",
                          ttl |-> IF e.pxat = NoExpire THEN NoTtl
                                  ELSE [kind |-> "PxAt", at |-> e.pxat],
                          get |-> FALSE]
      [] e.op = "PExpireAt" -> [op |-> "Expire", key |-> e.key, at |-> e.at,
                                cond |-> "None"]
      [] e.op \in {"Del", "Persist"} -> e

\* One replica, two kinds of caller: `caller` is set for the command it runs.
RunAs(caller, w, cmd) ==
    [RunCmd([w EXCEPT !.mode.caller = caller], cmd).world EXCEPT !.mode = w.mode]

\* A unit appends at most one effect per key, and SET one more for the write;
\* while that many fit, push() drops nothing.
LogHasRoom(w) == Len(w.repl) + Cardinality(Key) + 1 <= ReplCap

MasterStep == LogHasRoom(world) /\ Next /\ UNCHANGED <<replica, applied>>

Apply ==
    /\ applied < Len(world.repl)
    /\ replica' = RunAs("MasterLink", replica, AsCommand(world.repl[applied + 1]))
    /\ applied' = applied + 1
    /\ UNCHANGED world

ReplicaClient ==
    /\ \E cmd \in LookupCmd \cup ScanCmd \cup WatchCmd \cup UnwatchCmd :
         replica' = RunAs("Normal", replica, cmd)
    /\ UNCHANGED <<world, applied>>

ReplicaActiveExpire ==
    replica' = RunActiveExpire(replica) /\ UNCHANGED <<world, applied>>

ReplicaTick ==
    /\ \E d \in Ticks :
         replica.clock + d <= MaxClock /\ replica' = RunClockTick(replica, d)
    /\ UNCHANGED <<world, applied>>

ReplNext ==
    MasterStep \/ Apply \/ ReplicaClient \/ ReplicaActiveExpire \/ ReplicaTick

ReplSpec == ReplInit /\ [][ReplNext]_replVars

-----------------------------------------------------------------------------
\* Dimension B: replaying the log reproduces the master's keyspace, physical
\* presence and absolute deadlines included, whatever the two clocks say and
\* whatever the replica's own clients looked at in between.
ReplicaConverges == applied = Len(world.repl) => replica.slots = world.slots

\* A replica propagates exactly the effects it applied, in order: no lookup of
\* its own adds a DEL, and no effect of the master falls flat.
ReplicaRelaysTheLog == replica.repl = SubSeq(world.repl, 1, applied)

\* P-10: on the replica a key is removed by an effect from the master only.
ReplicaDeletesOnOrder ==
    [][\A k \in Key :
         replica.slots[k].present /\ ~replica'.slots[k].present =>
             applied' = applied + 1 /\ world.repl[applied + 1].key = k]_replVars
=============================================================================
