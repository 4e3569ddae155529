------------------------------- MODULE State -------------------------------
(***************************************************************************)
(* The abstract Redis state of model/state.rs: physical keyspace slots,    *)
(* the per-key ordered watcher table, client CAS flags, the bounded        *)
(* propagation log, and the worlds that the rules start from.              *)
(*                                                                         *)
(* A world is a record, and every function of the source that takes        *)
(* `&mut World` is an operator from a world to a world, so that a command  *)
(* composes its helpers inside one atomic step exactly as the code does.   *)
(***************************************************************************)
EXTENDS Commands, Sequences, SequencesExt

CONSTANTS
    EmptyStr,     \* Str::empty() of an absent slot; draw_str() may return it too
    Ticks,        \* how far one ClockTick may advance time
    MaxClock,     \* bound on the clock (a TLC bound, any natural number)
    ReplCap,      \* REPL_CAP, capacity of the propagation log
    Modes         \* the configurations a world may be created with

(***************************************************************************)
(* Types                                                                   *)
(***************************************************************************)
Slot == [present : BOOLEAN, value : Value \cup {EmptyStr},
         expire_at : ExpireTimes \cup {NoExpire}]

\* Slot::absent()
AbsentSlot == [present |-> FALSE, value |-> EmptyStr, expire_at |-> NoExpire]

\* The world fields that no step ever assigns: role, caller and the four
\* configuration switches that expire_if_needed consults.
AllModes == [role : {"Master", "ReadOnlyReplica"},
             caller : {"Normal", "MasterLink"},
             allow_access_expired : BOOLEAN,
             expire_paused : BOOLEAN,
             cluster_enabled : BOOLEAN,
             conf_allows_expire_del : BOOLEAN]

\* pin_standalone_master()
StandaloneMaster == [role |-> "Master", caller |-> "Normal",
                     allow_access_expired |-> FALSE, expire_paused |-> FALSE,
                     cluster_enabled |-> FALSE, conf_allows_expire_del |-> TRUE]

\* What nondet_world() draws: any role and any caller, every switch pinned.
DrawnModes == [role : {"Master", "ReadOnlyReplica"},
               caller : {"Normal", "MasterLink"},
               allow_access_expired : {FALSE}, expire_paused : {FALSE},
               cluster_enabled : {FALSE}, conf_allows_expire_del : {TRUE}]

SetEffect(k, v, at) == [op |-> "Set", key |-> k, val |-> v, pxat |-> at]
DelEffect(k) == [op |-> "Del", key |-> k]
PExpireAtEffect(k, at) == [op |-> "PExpireAt", key |-> k, at |-> at]
PersistEffect(k) == [op |-> "Persist", key |-> k]

Effect == [op : {"Set"}, key : Key, val : Value, pxat : ExpireTimes \cup {NoExpire}]
          \cup [op : {"Del", "Persist"}, key : Key]
          \cup [op : {"PExpireAt"}, key : Key, at : ExpireTimes]

\* in_multi and dirty_exec are never written by the source and are left out.
ClientState == [watching : SUBSET Key, watched_expired : SUBSET Key,
                dirty_cas : BOOLEAN]

World == [slots : [Key -> Slot],
          watched : [Key -> SUBSET (Client \X Client)],
          clients : [Client -> ClientState],
          clock : Nat,
          mode : Modes,
          repl : Seq(Effect),
          dirty : Nat,
          nesting : Nat]

ASSUME EmptyStrAssumption == EmptyStr # NoValue
ASSUME TimesAssumption == Ticks \subseteq Nat /\ MaxClock \in Nat
ASSUME ReplAssumption == ReplCap \in Nat
ASSUME ModesAssumption == Modes \subseteq AllModes

-----------------------------------------------------------------------------
(***************************************************************************)
(* WatchTable.  A client has at most one entry in a key's list, so the     *)
(* list is the reflexive order on its members: <<d, c>> is in it when d    *)
(* stands at or before c.  Module WatchLoop has the arrays themselves.   *)
(***************************************************************************)
Members(list) == {c \in Client : <<c, c>> \in list}

\* add_tail: appended only while the array has room
AddTail(list, c) ==
    IF Cardinality(Members(list)) < Cardinality(Client)
    THEN list \cup {<<d, c>> : d \in Members(list) \cup {c}}
    ELSE list

\* remove, for each client of cs
Dequeue(list, cs) == {p \in list : p[1] \notin cs /\ p[2] \notin cs}

\* ReplLog::push, once per effect of es: a full log drops the effect silently
Push(log, es) ==
    LET all == log \o es
    IN IF Len(all) <= ReplCap THEN all ELSE SubSeq(all, 1, ReplCap)

-----------------------------------------------------------------------------
FreshClient == [watching |-> {}, watched_expired |-> {}, dirty_cas |-> FALSE]

NewWorld(slots, clock, mode) ==
    [slots |-> slots, watched |-> [k \in Key |-> {}],
     clients |-> [c \in Client |-> FreshClient],
     clock |-> clock, mode |-> mode, repl |-> <<>>, dirty |-> 0, nesting |-> 0]

DrawnSlot == {AbsentSlot} \cup
    [present : {TRUE}, value : Value, expire_at : ExpireTimes \cup {NoExpire}]

\* World::nondet_world(): an arbitrary well-formed world with a fresh log
NondetWorld(clock, mode) == {NewWorld(s, clock, mode) : s \in [Key -> DrawnSlot]}

\* World::empty(clock)
EmptyWorld(clock) == NewWorld([k \in Key |-> AbsentSlot], clock, StandaloneMaster)
=============================================================================
