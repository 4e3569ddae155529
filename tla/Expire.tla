------------------------------- MODULE Expire -------------------------------
(***************************************************************************)
(* Lazy and active expiry: model/expire.rs, the transcription of           *)
(* keyIsExpired, expireIfNeeded and the active expire cycle.               *)
(***************************************************************************)
EXTENDS Watch

\* The active cycle expires at now >= when, one ms before a lookup does.
ActiveCycleWouldExpire(w, k) ==
    /\ w.slots[k].expire_at # NoExpire
    /\ w.clock >= w.slots[k].expire_at

ReadFlags == [allow_access_expired |-> FALSE, force_delete_expired |-> FALSE,
              avoid_delete_expired |-> FALSE]
\* Mutant of WriteFlags: a write lookup does not force the deletion
WriteFlagsUnforced == ReadFlags

WriteFlags == [ReadFlags EXCEPT !.force_delete_expired = TRUE]

(***************************************************************************)
(* delete_expired_key_and_propagate for each key of ks: one key on the     *)
(* lookup path, all due keys in an active cycle.  Bare DELs, never framed  *)
(* by MULTI/EXEC.  The order of the DELs of one cycle is left to SetToSeq: *)
(* they are DELs of different keys.                                        *)
(***************************************************************************)
DeleteExpiredAndPropagate(w, ks) ==
    LET order == SetToSeq(ks)
    IN Touch([w EXCEPT
                !.slots = [k \in Key |-> IF k \in ks THEN AbsentSlot ELSE w.slots[k]],
                !.repl = Push(@, [i \in DOMAIN order |-> DelEffect(order[i])]),
                !.dirty = @ + Cardinality(ks)],
             ks)

\* Mutant of SeenFromMaster: the role is forgotten, cluster mode alone counts
SeenFromMasterInCluster(mode) == mode.cluster_enabled /\ mode.caller = "MasterLink"

\* A command that arrives over the replication link sees no key as expired.
SeenFromMaster(mode) ==
    /\ mode.role = "ReadOnlyReplica" \/ mode.cluster_enabled
    /\ mode.caller = "MasterLink"

\* Mutant of HiddenInPlace: a replica deletes like a master
HiddenOnMaster(mode, flags) ==
    \/ ~flags.force_delete_expired /\ ~mode.conf_allows_expire_del
    \/ flags.avoid_delete_expired
    \/ mode.expire_paused

\* The early returns that hide an expired key and leave it in place
HiddenInPlace(mode, flags) ==
    \/ mode.role = "ReadOnlyReplica" /\ ~flags.force_delete_expired
    \/ ~flags.force_delete_expired /\ ~mode.conf_allows_expire_del
    \/ flags.avoid_delete_expired
    \/ mode.expire_paused

\* expire_if_needed: the world after it, and the KeyStatus it returns
ExpireIfNeeded(w, k, flags) ==
    IF \/ flags.allow_access_expired
       \/ ~KeyIsExpired(w, k)
       \/ SeenFromMaster(w.mode)
    THEN [world |-> w, status |-> "Valid"]
    ELSE IF HiddenInPlace(w.mode, flags)
    THEN [world |-> w, status |-> "Expired"]
    ELSE [world |-> DeleteExpiredAndPropagate(w, {k}), status |-> "Deleted"]

\* Mutant of Found: only a deleted key is reported as missing
FoundUnlessDeleted(w, k, e) ==
    [world |-> e.world,
     value |-> IF e.status = "Deleted" THEN NoValue ELSE w.slots[k].value]

\* What a lookup of a key that is there returns, given what expire_if_needed did:
\* an expired key is as invisible as a deleted one
Found(w, k, e) ==
    [world |-> e.world,
     value |-> IF e.status = "Valid" THEN w.slots[k].value ELSE NoValue]

\* lookup_key_read and lookup_key_write, which differ in their flags only:
\* the world after the lookup and the value found, or NoValue
Lookup(w, k, flags) ==
    IF ~w.slots[k].present
    THEN [world |-> w, value |-> NoValue]
    ELSE Found(w, k, ExpireIfNeeded(w, k, flags))

LookupKeyRead(w, k) == Lookup(w, k, ReadFlags)
LookupKeyWrite(w, k) == Lookup(w, k, WriteFlags)

\* Mutant of ActiveExpireCycle: it obeys the lazy-expire switch
ActiveExpireIfConfigured(w) ==
    IF w.mode.role = "ReadOnlyReplica" \/ w.mode.expire_paused
       \/ ~w.mode.conf_allows_expire_del
    THEN w
    ELSE DeleteExpiredAndPropagate(w,
            {k \in Key : w.slots[k].present /\ ActiveCycleWouldExpire(w, k)})

\* active_expire_cycle: nothing on a replica or while expiry is paused
ActiveExpireCycle(w) ==
    IF w.mode.role = "ReadOnlyReplica" \/ w.mode.expire_paused THEN w
    ELSE DeleteExpiredAndPropagate(w,
            {k \in Key : w.slots[k].present /\ ActiveCycleWouldExpire(w, k)})
=============================================================================
