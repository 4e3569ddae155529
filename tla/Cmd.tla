-------------------------------- MODULE Cmd --------------------------------
(***************************************************************************)
(* Commands and replies: model/cmd.rs.  Exec(w, cmd) is exec_cmd, the body *)
(* of one execution unit: the world after the command, and its reply.      *)
(***************************************************************************)
EXTENDS Expire

Result(w, reply) == [world |-> w, reply |-> reply]

\* Mutant of CheckAlreadyExpired: the role is not looked at
CheckOnAnyRole(w, at) == at <= w.clock

\* check_already_expired: never on a replica
CheckAlreadyExpired(w, at) == at <= w.clock /\ w.mode.role = "Master"

\* Mutant of WriteSlot: key_modified is not called
WriteSlotUntouched(w, k, slot, effect) ==
    [w EXCEPT !.slots[k] = slot, !.dirty = @ + 1, !.repl = Push(@, <<effect>>)]

\* The tail of every write path: assign the slot, count one change, call
\* key_modified, then propagate one effect.
WriteSlot(w, k, slot, effect) ==
    LET touched == Touch([w EXCEPT !.slots[k] = slot, !.dirty = @ + 1], {k})
    IN [touched EXCEPT !.repl = Push(@, <<effect>>)]

\* Mutant of DeleteSlot: only the `present` bit is cleared
DeleteLeavingTtl(w, k) ==
    WriteSlot(w, k, [w.slots[k] EXCEPT !.present = FALSE], DelEffect(k))

DeleteSlot(w, k) == WriteSlot(w, k, AbsentSlot, DelEffect(k))

-----------------------------------------------------------------------------
(***************************************************************************)
(* SET.  GET reads the old value first, through the read path.  NX and XX  *)
(* test existence after the write lookup, which deletes an expired key     *)
(* even if the command is then refused.                                    *)
(***************************************************************************)
SetAllowed(cond, exists) ==
    \/ cond = "Always"
    \/ cond = "Nx" /\ ~exists
    \/ cond = "Xx" /\ exists

\* Mutant of NewExpire: KEEPTTL keeps the TTL of a hidden key too
NewExpireOfHidden(w, k, ttl, exists) ==
    IF ttl.kind = "Keep" THEN w.slots[k].expire_at ELSE ttl.at

NewExpire(w, k, ttl, exists) ==
    CASE ttl.kind = "None" -> NoExpire
      [] ttl.kind = "Keep" -> IF exists THEN w.slots[k].expire_at ELSE NoExpire
      [] ttl.kind = "PxAt" -> ttl.at

\* The reply of a SET that was not refused
SetReply(cmd, old) == IF cmd.get THEN StrReply(old) ELSE OkReply

\* SET after its lookups: `old` is the value that GET returns
SetFound(write, old, cmd) ==
    LET u == write.world
        k == cmd.key
        exists == write.value # NoValue
        at == NewExpire(u, k, cmd.ttl, exists)
    IN IF ~SetAllowed(cmd.cond, exists)
       THEN Result(u, StrReply(old))
       ELSE IF cmd.ttl.kind = "PxAt" /\ CheckAlreadyExpired(u, cmd.ttl.at)
       THEN Result(IF exists \/ u.slots[k].present THEN DeleteSlot(u, k) ELSE u,
                   SetReply(cmd, old))
       ELSE Result(WriteSlot(u, k,
                       [present |-> TRUE, value |-> cmd.val, expire_at |-> at],
                       SetEffect(k, cmd.val, at)),
                   SetReply(cmd, old))

SetAfterGet(read, cmd) ==
    SetFound(LookupKeyWrite(read.world, cmd.key), read.value, cmd)

CmdSet(w, cmd) ==
    SetAfterGet(IF cmd.get THEN LookupKeyRead(w, cmd.key)
                ELSE [world |-> w, value |-> NoValue], cmd)

\* DEL, EXPIRE and PERSIST after their write lookup
DelFound(write, k) ==
    IF write.value = NoValue
    THEN Result(write.world, IntReply(0))
    ELSE Result(DeleteSlot(write.world, k), IntReply(1))

CmdDel(w, k) == DelFound(LookupKeyWrite(w, k), k)

\* A key without TTL counts as infinitely far: GT always fails, LT never does.
ExpireRefused(current, at, cond) ==
    \/ cond = "Nx" /\ current # NoExpire
    \/ cond = "Xx" /\ current = NoExpire
    \/ cond = "Gt" /\ (current = NoExpire \/ at <= current)
    \/ cond = "Lt" /\ (current # NoExpire /\ at >= current)

ExpireFound(write, k, at, cond) ==
    LET u == write.world
    IN IF write.value = NoValue \/ ExpireRefused(u.slots[k].expire_at, at, cond)
       THEN Result(u, IntReply(0))
       ELSE IF CheckAlreadyExpired(u, at)
       THEN Result(DeleteSlot(u, k), IntReply(1))
       ELSE Result(WriteSlot(u, k, [u.slots[k] EXCEPT !.expire_at = at],
                             PExpireAtEffect(k, at)),
                   IntReply(1))

CmdExpire(w, k, at, cond) == ExpireFound(LookupKeyWrite(w, k), k, at, cond)

PersistFound(write, k) ==
    LET u == write.world
    IN IF write.value = NoValue \/ u.slots[k].expire_at = NoExpire
       THEN Result(u, IntReply(0))
       ELSE Result(WriteSlot(u, k, [u.slots[k] EXCEPT !.expire_at = NoExpire],
                             PersistEffect(k)),
                   IntReply(1))

CmdPersist(w, k) == PersistFound(LookupKeyWrite(w, k), k)

-----------------------------------------------------------------------------
(***************************************************************************)
(* Reads.  GET, EXISTS, TYPE and PTTL look the key up, and so may delete   *)
(* it; KEYS filters without deleting; DBSIZE does not even filter.         *)
(***************************************************************************)
\* PTTL: -2 without the key, -1 without a TTL, else what is left of it,
\* which is not clamped at 0
PttlReply(u, k, v) ==
    IntReply(IF v = NoValue THEN -2
             ELSE IF u.slots[k].expire_at = NoExpire THEN -1
             ELSE u.slots[k].expire_at - u.clock)

LookupReply(op, u, k, v) ==
    CASE op = "Get" -> StrReply(v)
      [] op = "Exists" -> IntReply(IF v = NoValue THEN 0 ELSE 1)
      [] op = "Type" -> IF v = NoValue THEN NoTypeReply ELSE TypeReply
      [] op = "Pttl" -> PttlReply(u, k, v)

Answered(read, op, k) == Result(read.world, LookupReply(op, read.world, k, read.value))

CmdLookup(w, op, k) == Answered(LookupKeyRead(w, k), op, k)

\* Mutant of VisibleKeys: KEYS filters with the active cycle's comparison
VisibleBeforeDeadline(w) ==
    {k \in Key : w.slots[k].present /\ ~ActiveCycleWouldExpire(w, k)}

VisibleKeys(w) == {k \in Key : w.slots[k].present /\ ~KeyIsExpired(w, k)}

CmdKeys(w) == Result(w, KeySetReply(VisibleKeys(w)))
CmdDbSize(w) == Result(w, IntReply(Cardinality({k \in Key : w.slots[k].present})))

-----------------------------------------------------------------------------
Exec(w, cmd) ==
    CASE cmd.op = "Set" -> CmdSet(w, cmd)
      [] cmd.op = "Del" -> CmdDel(w, cmd.key)
      [] cmd.op = "Expire" -> CmdExpire(w, cmd.key, cmd.at, cmd.cond)
      [] cmd.op = "Persist" -> CmdPersist(w, cmd.key)
      [] cmd.op \in LookupOp -> CmdLookup(w, cmd.op, cmd.key)
      [] cmd.op = "Keys" -> CmdKeys(w)
      [] cmd.op = "DbSize" -> CmdDbSize(w)
      [] cmd.op = "Watch" -> Result(WatchKey(w, cmd.client, cmd.key), OkReply)
      [] cmd.op = "Unwatch" -> Result(UnwatchAll(w, {cmd.client}), OkReply)
=============================================================================
