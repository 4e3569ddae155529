---------------------------- MODULE LogicalStore ---------------------------
(***************************************************************************)
(* What a client may rely on: a map from keys to values with deadlines, in *)
(* which a key whose deadline has passed is simply not there.  There is no *)
(* physical presence here, no lazy deletion, no replica, no pause and no   *)
(* propagation.  Module StoreRefinement shows that the steps of the model  *)
(* implement this map, as seen through commands and their replies.         *)
(*                                                                         *)
(* At the very millisecond of a deadline the promise is loose: the key may *)
(* still be there, or be gone already.                                     *)
(***************************************************************************)
EXTENDS Commands

CONSTANTS Ticks, MaxClock

VARIABLES
    store,  \* the entry of each key
    now,    \* the clock
    last    \* the last command and its reply

storeVars == <<store, now, last>>

Entry == [value : Value, at : ExpireTimes \cup {NoExpire}]
Absent == [value |-> NoValue, at |-> NoExpire]

Exists(k) == store[k] # Absent
Elapsed(at) == at # NoExpire /\ at < now
Due(at) == at # NoExpire /\ at <= now

\* What may be seen of a key once it is given an entry
Outcomes(entry) ==
    {e \in {entry} : ~Elapsed(e.at)} \cup {e \in {Absent} : Due(entry.at)}

Answer(cmd, reply) == last' = [cmd |-> cmd, reply |-> reply]
Assign(k, entry) == \E e \in Outcomes(entry) : store' = [store EXCEPT ![k] = e]

-----------------------------------------------------------------------------
NothingYet == [cmd |-> [op |-> "None"], reply |-> NilReply]

StoreInit ==
    /\ now \in 0..MaxClock
    /\ store \in [Key -> Entry \cup {Absent}]
    /\ \A k \in Key : ~Elapsed(store[k].at)
    /\ last = NothingYet

\* SET: NX wants the key absent, XX wants it there; without a TTL argument
\* the deadline goes away, and KEEPTTL keeps the one of an existing key.
\* With GET the reply is the old value, whether or not the SET happened.
Wanted(cmd) ==
    \/ cmd.cond = "Always"
    \/ cmd.cond = "Nx" /\ ~Exists(cmd.key)
    \/ cmd.cond = "Xx" /\ Exists(cmd.key)

Put(cmd) ==
    LET old == store[cmd.key]
        at == IF cmd.ttl = KeepTtl THEN old.at ELSE cmd.ttl.at
    IN \/ /\ Wanted(cmd)
          /\ Answer(cmd, IF cmd.get THEN StrReply(old.value) ELSE OkReply)
          /\ Assign(cmd.key, [value |-> cmd.val, at |-> at])
       \/ /\ ~Wanted(cmd)
          /\ Answer(cmd, IF cmd.get THEN StrReply(old.value) ELSE NilReply)
          /\ UNCHANGED store

Drop(cmd) ==
    /\ Answer(cmd, IntReply(IF Exists(cmd.key) THEN 1 ELSE 0))
    /\ store' = [store EXCEPT ![cmd.key] = Absent]

\* EXPIRE moves the deadline of an existing key if its condition holds: a key
\* without one counts as infinitely far.
Beats(at, cond, old) ==
    CASE cond = "None" -> TRUE
      [] cond = "Nx" -> old = NoExpire
      [] cond = "Xx" -> old # NoExpire
      [] cond = "Gt" -> old # NoExpire /\ at > old
      [] cond = "Lt" -> old = NoExpire \/ at < old

Retime(cmd) ==
    LET old == store[cmd.key]
        moves == Exists(cmd.key) /\ Beats(cmd.at, cmd.cond, old.at)
    IN /\ Answer(cmd, IntReply(IF moves THEN 1 ELSE 0))
       /\ IF moves THEN Assign(cmd.key, [old EXCEPT !.at = cmd.at]) ELSE UNCHANGED store

Keep(cmd) ==
    LET moves == Exists(cmd.key) /\ store[cmd.key].at # NoExpire
    IN /\ Answer(cmd, IntReply(IF moves THEN 1 ELSE 0))
       /\ store' = [store EXCEPT ![cmd.key].at = NoExpire]

\* DBSIZE may count keys that are not there any more, and nothing else.
Look(cmd) ==
    LET e == store[cmd.key]
    IN /\ Answer(cmd,
            CASE cmd.op = "Get" -> StrReply(e.value)
              [] cmd.op = "Exists" -> IntReply(IF e = Absent THEN 0 ELSE 1)
              [] cmd.op = "Type" -> IF e = Absent THEN NoTypeReply ELSE TypeReply
              [] cmd.op = "Pttl" -> IntReply(IF e = Absent THEN -2
                                             ELSE IF e.at = NoExpire THEN -1
                                             ELSE e.at - now))
       /\ UNCHANGED store

Scan(cmd) ==
    LET there == {k \in Key : Exists(k)}
    IN /\ \/ cmd.op = "Keys" /\ Answer(cmd, KeySetReply(there))
          \/ /\ cmd.op = "DbSize"
             /\ \E n \in Cardinality(there)..Cardinality(Key) : Answer(cmd, IntReply(n))
       /\ UNCHANGED store

\* WATCH and UNWATCH do not touch the store.
Register(cmd) == Answer(cmd, OkReply) /\ UNCHANGED store

Request ==
    /\ \/ \E cmd \in SetCmd : Put(cmd)
       \/ \E cmd \in ExpireCmd : Retime(cmd)
       \/ \E cmd \in RemoveCmd : cmd.op = "Del" /\ Drop(cmd)
       \/ \E cmd \in RemoveCmd : cmd.op = "Persist" /\ Keep(cmd)
       \/ \E cmd \in LookupCmd : Look(cmd)
       \/ \E cmd \in ScanCmd : Scan(cmd)
       \/ \E cmd \in WatchCmd \cup UnwatchCmd : Register(cmd)
    /\ UNCHANGED now

\* Keys may go at their deadline, ahead of the clock passing it.
Lapse ==
    /\ \E ks \in SUBSET {k \in Key : Due(store[k].at)} :
         store' = [k \in Key |-> IF k \in ks THEN Absent ELSE store[k]]
    /\ UNCHANGED <<now, last>>

\* When the clock passes a deadline its key is gone.
Pass ==
    \E d \in Ticks :
       /\ now + d <= MaxClock
       /\ now' = now + d
       /\ store' = [k \in Key |->
            IF store[k].at # NoExpire /\ store[k].at < now' THEN Absent ELSE store[k]]
       /\ UNCHANGED last

StoreNext == Request \/ Lapse \/ Pass

StoreSpec == StoreInit /\ [][StoreNext]_storeVars
=============================================================================
