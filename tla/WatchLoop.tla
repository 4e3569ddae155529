------------------------------ MODULE WatchLoop ----------------------------
(***************************************************************************)
(* The watcher table as the source has it, arrays and loops: order[k] is   *)
(* an array of C options with len[k] of them in use, touch_watched_key is  *)
(* a loop over a snapshot of it, one step per iteration, and the active    *)
(* cycle deletes and touches one key after the other.                      *)
(***************************************************************************)
EXTENDS Watch

CONSTANT Nobody   \* Option::None of an array element

ASSUME NobodyAssumption == Nobody \notin Client

VARIABLES
    order,   \* WatchTable::order
    len,     \* WatchTable::len
    heap,    \* the rest of the world; its field `watched` is not used
    frame    \* the locals of touch_watched_key, or Idle; its `result` is a
             \* history field: what the whole call will have done, by Watch

loopVars == <<order, len, heap, frame>>

C == Cardinality(Client)
Idle == [calling |-> FALSE]

\* Mutant of Compacted: the last element is moved into the hole
CompactedBySwap(k, c) ==
    [i \in 1..C |->
        IF i >= len[k] THEN Nobody
        ELSE IF order[k][i] = c THEN order[k][len[k]] ELSE order[k][i]]

\* WatchTable::remove: the elements other than c move to the front, and the
\* rest of the array is cleared.  place(i) is the loop's w, counted from 1.
Kept(k, c) == {i \in 1..len[k] : order[k][i] # c}
Compacted(k, c) ==
    LET place(i) == Cardinality({h \in Kept(k, c) : h <= i})
    IN [j \in 1..C |->
           IF \E i \in Kept(k, c) : place(i) = j
           THEN order[k][CHOOSE i \in Kept(k, c) : place(i) = j]
           ELSE Nobody]

\* unwatch_all(w, c), with the flags of c as they are in client
Unwatch(c, client) ==
    LET ks == client.watching
    IN /\ heap' = [heap EXCEPT !.clients[c] =
            [client EXCEPT !.watching = {}, !.watched_expired = @ \ ks]]
       /\ order' = [k \in Key |-> IF k \in ks THEN Compacted(k, c) ELSE order[k]]
       /\ len' = [k \in Key |->
            IF k \in ks THEN Cardinality(Kept(k, c)) ELSE len[k]]

-----------------------------------------------------------------------------
\* The world that module Watch would have: positions become the order
AsWorld(h, o, n) ==
    [h EXCEPT !.watched = [k \in Key |->
        UNION {{<<o[k][i], o[k][j]>> : j \in i..n[k]} : i \in 1..n[k]}]]

LoopInit ==
    /\ order = [k \in Key |-> [i \in 1..C |-> Nobody]]
    /\ len = [k \in Key |-> 0]
    /\ heap \in NondetWorld(MaxClock, StandaloneMaster)
    /\ frame = Idle

\* Mutant of DoWatchKey: no early return for a client that watches already
DoWatchKeyAgain(c, k) ==
    /\ frame = Idle /\ len[k] < C
    /\ heap' = [heap EXCEPT !.clients[c].watching = @ \cup {k}]
    /\ order' = [order EXCEPT ![k][len[k] + 1] = c]
    /\ len' = [len EXCEPT ![k] = @ + 1]
    /\ UNCHANGED frame

\* watch_key with add_tail
DoWatchKey(c, k) ==
    /\ frame = Idle /\ k \notin heap.clients[c].watching
    /\ heap' = [heap EXCEPT
         !.clients[c].watching = @ \cup {k},
         !.clients[c].watched_expired =
             IF heap.slots[k].present /\ KeyIsExpired(heap, k) THEN @ \cup {k} ELSE @ \ {k}]
    /\ IF len[k] < C
       THEN /\ order' = [order EXCEPT ![k][len[k] + 1] = c]
            /\ len' = [len EXCEPT ![k] = @ + 1]
       ELSE UNCHANGED <<order, len>>
    /\ UNCHANGED frame

DoUnwatchAll(c) ==
    frame = Idle /\ Unwatch(c, heap.clients[c]) /\ UNCHANGED frame

\* `let order = w.watched.order[k]; let n = w.watched.len[k]`
Snapshot(k, todo, result) ==
    [calling |-> TRUE, key |-> k, order |-> order[k], n |-> len[k], i |-> 1,
     todo |-> todo, result |-> result]

\* A write assigns its slot and calls touch_watched_key.
CallTouch(k, slot) ==
    /\ frame = Idle
    /\ heap' = [heap EXCEPT !.slots[k] = slot]
    /\ frame' = Snapshot(k, {}, Touch(AsWorld(heap', order, len), {k}))
    /\ UNCHANGED <<order, len>>

\* An active cycle deletes the first of the keys it finds due and touches it;
\* the other keys of ks follow one at a time.
CallCycle(ks) ==
    /\ frame = Idle
    /\ \E k \in ks :
         /\ heap' = [heap EXCEPT !.slots[k] = AbsentSlot]
         /\ frame' = Snapshot(k, ks \ {k}, Touch(
              [AsWorld(heap, order, len) EXCEPT
                 !.slots = [j \in Key |-> IF j \in ks THEN AbsentSlot ELSE @[j]]], ks))
    /\ UNCHANGED <<order, len>>

InLoop == frame.calling /\ frame.i <= frame.n
Current == frame.order[frame.i]
Advance == frame' = [frame EXCEPT !.i = @ + 1]
Exempt == frame.key \in heap.clients[Current].watched_expired

\* The watcher saw the key expired, and the key is gone: skip this client
SkipClient ==
    /\ InLoop /\ Exempt /\ ~heap.slots[frame.key].present
    /\ heap' = [heap EXCEPT !.clients[Current].watched_expired = @ \ {frame.key}]
    /\ Advance
    /\ UNCHANGED <<order, len>>

\* Mutant of Abandon: `continue` in the place of `return`
AbandonOneOnly ==
    /\ InLoop /\ Exempt /\ heap.slots[frame.key].present
    /\ Advance
    /\ UNCHANGED <<order, len, heap>>

\* The watcher saw the key expired, and the key is there: the `return`
Abandon ==
    /\ InLoop /\ Exempt /\ heap.slots[frame.key].present
    /\ frame' = [frame EXCEPT !.i = frame.n + 1]
    /\ UNCHANGED <<order, len, heap>>

DirtyClient ==
    /\ InLoop /\ ~Exempt
    /\ Unwatch(Current, [heap.clients[Current] EXCEPT !.dirty_cas = TRUE])
    /\ Advance

NextKey ==
    /\ frame.calling /\ frame.i > frame.n
    /\ \E k \in frame.todo :
         /\ heap' = [heap EXCEPT !.slots[k] = AbsentSlot]
         /\ frame' = Snapshot(k, frame.todo \ {k}, frame.result)
    /\ UNCHANGED <<order, len>>

Finished == frame.calling /\ frame.i > frame.n /\ frame.todo = {}

Return ==
    /\ Finished
    /\ frame' = Idle
    /\ UNCHANGED <<order, len, heap>>

LoopNext ==
    \/ \E c \in Client, k \in Key : DoWatchKey(c, k)
    \/ \E c \in Client : DoUnwatchAll(c)
    \/ \E k \in Key, slot \in DrawnSlot : CallTouch(k, slot)
    \/ \E ks \in SUBSET Key : CallCycle(ks)
    \/ SkipClient \/ Abandon \/ DirtyClient \/ NextKey \/ Return

LoopSpec == LoopInit /\ [][LoopNext]_loopVars

-----------------------------------------------------------------------------
\* A call takes effect when it is made: until it returns, the world is the
\* one that module Watch gives for the whole call.
Calls == INSTANCE WatchCalls WITH
    world <- IF frame = Idle THEN AsWorld(heap, order, len) ELSE frame.result

\* The loop over a snapshot of the list, with clients leaving lists as it
\* runs and with its early return, and the one-key-at-a-time cycle, do exactly
\* what the atomic operators of module Watch say.
ImplementsWatchCalls == Calls!CallsSpec

\* When the call has run to its end, the arrays hold the world that module
\* Watch computed when it was made.
ReturnsWhatWatchSays ==
    Finished => AsWorld(heap, order, len) = frame.result

\* The loop meets only clients that still watch the key: `None` elements and
\* clients that were already removed are never visited, and add_tail never
\* finds the array full.
LoopVisitsWatchersOnce ==
    /\ \A k \in Key : Cardinality({c \in Client : k \in heap.clients[c].watching}) = len[k]
    /\ InLoop => /\ Current \in Client
                 /\ frame.key \in heap.clients[Current].watching
=============================================================================
