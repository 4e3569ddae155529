--------------------------------- MODULE Cas -------------------------------
(***************************************************************************)
(* Optimistic locking end to end.  WATCH promises that a client which is   *)
(* not dirty may still act on what it saw.  The history variable `seen`    *)
(* keeps what each client could see of each key when it watched it.        *)
(***************************************************************************)
EXTENDS Properties

VARIABLE seen

casVars == <<world, seen>>

\* What a client sees of a key (one entry of snapshot_visible)
LogicalSlot(w, k) == IF k \in VisibleKeys(w) THEN w.slots[k] ELSE AbsentSlot

Unseen == [c \in Client |-> [k \in Key |-> AbsentSlot]]

CasInit == Init /\ seen = Unseen

\* A watch that a step adds is a fresh look, a watch it drops is forgotten.
Remember ==
    seen' = [c \in Client |-> [k \in Key |->
        IF k \notin world'.clients[c].watching THEN AbsentSlot
        ELSE IF k \notin world.clients[c].watching THEN LogicalSlot(world', k)
        ELSE seen[c][k]]]

CasNext == Next /\ Remember

CasSpec == CasInit /\ [][CasNext]_casVars

-----------------------------------------------------------------------------
\* The only change a watcher may miss: the key it saw had a deadline, the
\* deadline has passed, and nobody has put anything in its place.
Lapsed(s, w, k) ==
    /\ s.expire_at # NoExpire /\ w.clock > s.expire_at
    /\ LogicalSlot(w, k) = AbsentSlot

\* P-07, P-08 over whole schedules: as long as a client's watch of a key
\* stands, the key is as the client saw it, or has merely run out of time.  No
\* interleaving of writes, lazy deletions by reads, active cycles and earlier
\* or later watchers of the same key lets a change slip by.
WatchSeesEveryChange ==
    ForcesDelete(world.mode) =>
        \A c \in Client : \A k \in world.clients[c].watching :
            \/ LogicalSlot(world, k) = seen[c][k]
            \/ Lapsed(seen[c][k], world, k)
=============================================================================
