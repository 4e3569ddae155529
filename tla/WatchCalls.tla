----------------------------- MODULE WatchCalls ----------------------------
(***************************************************************************)
(* The calls that the rest of the model makes into Watch, each taken as    *)
(* one atomic step on a world: what module WatchLoop must implement.       *)
(***************************************************************************)
EXTENDS Watch

VARIABLE world

CallsInit == world \in NondetWorld(MaxClock, StandaloneMaster)

\* watch_key and unwatch_all
Watching == \E c \in Client, k \in Key : world' = WatchKey(world, c, k)
Unwatching == \E c \in Client : world' = UnwatchAll(world, {c})

\* key_modified after an assignment
Modification ==
    \E k \in Key, slot \in DrawnSlot :
        world' = Touch([world EXCEPT !.slots[k] = slot], {k})

\* The keys that one active cycle deletes, taken together
Expiry ==
    \E ks \in SUBSET Key :
        world' = Touch([world EXCEPT
            !.slots = [k \in Key |-> IF k \in ks THEN AbsentSlot ELSE @[k]]], ks)

CallsNext == Watching \/ Unwatching \/ Modification \/ Expiry

CallsSpec == CallsInit /\ [][CallsNext]_world
=============================================================================
