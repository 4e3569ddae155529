--------------------------- MODULE StoreRefinement -------------------------
(***************************************************************************)
(* The steps of the model, observed through commands and replies, implement*)
(* the logical store wherever expired keys are hidden from the caller: on  *)
(* a master or a replica, paused or not, whatever the lazy-expire setting. *)
(***************************************************************************)
EXTENDS Properties

\* The caller is one that expired keys are hidden from.
ASSUME HidingAssumption == Modes \subseteq HidingModes

VARIABLE last   \* the last command and the reply it got

observedVars == <<world, last>>

ObservedInit == Init /\ last = [cmd |-> [op |-> "None"], reply |-> NilReply]

Request ==
    \E cmd \in Command :
        LET r == RunCmd(world, cmd)
        IN world' = r.world /\ last' = [cmd |-> cmd, reply |-> r.reply]

Background == (ActiveExpire \/ ClockTick) /\ UNCHANGED last

ObservedNext == Request \/ Background

ObservedSpec == ObservedInit /\ [][ObservedNext]_observedVars

-----------------------------------------------------------------------------
\* snapshot_visible: what is left of the keyspace when expired keys are hidden
SnapshotVisible ==
    [k \in Key |->
        IF k \in VisibleKeys(world)
        THEN [value |-> world.slots[k].value, at |-> world.slots[k].expire_at]
        ELSE [value |-> NoValue, at |-> NoExpire]]

Logical == INSTANCE LogicalStore WITH store <- SnapshotVisible, now <- world.clock

\* Lazy deletion, hiding in place, active cycles and propagation are invisible:
\* every reply, and the effect of every command on later replies, is the one
\* the map of keys to values with deadlines would give.
ImplementsLogicalStore == Logical!StoreSpec
=============================================================================
