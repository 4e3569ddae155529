------------------------------- MODULE Watch -------------------------------
(***************************************************************************)
(* WATCH and CAS invalidation: model/watch.rs, the transcription of        *)
(* touchWatchedKey with its `break`.                                       *)
(***************************************************************************)
EXTENDS State

\* key_is_expired of model/expire.rs, which watch_key consults: strict
\* comparison, and DEBUG SET-ALLOW-ACCESS-EXPIRED switches it off.
KeyIsExpired(w, k) ==
    /\ ~w.mode.allow_access_expired
    /\ w.slots[k].expire_at # NoExpire
    /\ w.clock > w.slots[k].expire_at

Watchers(w, k) == Members(w.watched[k])

\* Mutant of WatchKey: a key at its deadline is flagged as already expired
WatchKeyAtDeadline(w, c, k) ==
    LET due == w.slots[k].expire_at # NoExpire /\ w.clock >= w.slots[k].expire_at
    IN IF k \in w.clients[c].watching THEN w
       ELSE [w EXCEPT
               !.clients[c].watching = @ \cup {k},
               !.clients[c].watched_expired = IF due THEN @ \cup {k} ELSE @ \ {k},
               !.watched[k] = AddTail(@, c)]

WatchKey(w, c, k) ==
    LET expired_now == w.slots[k].present /\ KeyIsExpired(w, k)
    IN IF k \in w.clients[c].watching THEN w
       ELSE [w EXCEPT
               !.clients[c].watching = @ \cup {k},
               !.clients[c].watched_expired =
                   IF expired_now THEN @ \cup {k} ELSE @ \ {k},
               !.watched[k] = AddTail(@, c)]

\* Mutant of UnwatchAll: the flags "already expired" are not reset
UnwatchKeepingFlags(w, cs) ==
    [w EXCEPT
       !.clients = [c \in Client |-> IF c \in cs
                                     THEN [w.clients[c] EXCEPT !.watching = {}]
                                     ELSE w.clients[c]],
       !.watched = [k \in Key |->
           Dequeue(w.watched[k], {c \in cs : k \in w.clients[c].watching})]]

\* unwatch_all for every client of cs: a client leaves the lists it watches
UnwatchAll(w, cs) ==
    [w EXCEPT
       !.clients = [c \in Client |->
           IF c \in cs
           THEN [watching |-> {},
                 watched_expired |-> w.clients[c].watched_expired
                                       \ w.clients[c].watching,
                 dirty_cas |-> w.clients[c].dirty_cas]
           ELSE w.clients[c]],
       !.watched = [k \in Key |->
           Dequeue(w.watched[k], {c \in cs : k \in w.clients[c].watching})]]

\* A watcher that saw k already expired while k is now present: the `return`
\* at the point of multi.c's `break`, which abandons the rest of the list.
Blocks(w, k, c) == k \in w.clients[c].watched_expired /\ w.slots[k].present

\* Mutant of Reached: the loop goes on where multi.c has its `break`
ReachedWithoutBreak(w, k) == {c \in Watchers(w, k) : ~Blocks(w, k, c)}

\* The watchers of k that the loop visits before it is abandoned
Reached(w, k) ==
    {c \in Watchers(w, k) :
        \A d \in Client : <<d, c>> \in w.watched[k] => ~Blocks(w, k, d)}

\* Mutant of Touch: a client that is dirtied keeps its watches
TouchKeepingWatches(w, ks) ==
    [w EXCEPT !.clients = [c \in Client |->
        IF \E k \in ks : c \in Reached(w, k) /\ k \notin w.clients[c].watched_expired
        THEN [w.clients[c] EXCEPT !.dirty_cas = TRUE]
        ELSE [w.clients[c] EXCEPT !.watched_expired = @ \ {k \in ks : c \in Reached(w, k)}]]]

(***************************************************************************)
(* touch_watched_key, for each key of ks.  A visited watcher whose flag    *)
(* says "already expired" finds the key gone and only loses the flag; any  *)
(* other visited watcher becomes dirty and loses all its watches.          *)
(*                                                                         *)
(* ks is one key, or several keys that are all absent (the active expire   *)
(* cycle).  With absent keys nothing blocks, so the calls for the keys of  *)
(* ks commute and taking them together gives the same world.               *)
(***************************************************************************)
Touch(w, ks) ==
    LET dirtied == {c \in Client : \E k \in ks :
                       c \in Reached(w, k) /\ k \notin w.clients[c].watched_expired}
        cleared(c) == {k \in ks : c \in Reached(w, k)}
        flagged == [w EXCEPT !.clients = [c \in Client |->
                      IF c \in dirtied
                      THEN [w.clients[c] EXCEPT !.dirty_cas = TRUE]
                      ELSE [w.clients[c] EXCEPT !.watched_expired = @ \ cleared(c)]]]
    IN UnwatchAll(flagged, dirtied)
=============================================================================
