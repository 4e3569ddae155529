------------------------------ MODULE Commands -----------------------------
(***************************************************************************)
(* What a client sends and what it gets back: the enums Cmd, SetCond,      *)
(* TtlArg, ExpireCond and Reply of model/cmd.rs.                           *)
(***************************************************************************)
EXTENDS Integers, FiniteSets

CONSTANTS
    Key,          \* key ids 0..K-1
    Client,       \* client ids 0..C-1
    Value,        \* the distinct strings draw_str() can return
    NoValue,      \* Option::None of a lookup
    ExpireTimes   \* absolute ms timestamps drawn for PXAT, EXPIRE and TTLs

ASSUME KeysAssumption == IsFiniteSet(Key) /\ IsFiniteSet(Client)
ASSUME NoValueAssumption == NoValue \notin Value
ASSUME ExpireTimesAssumption == ExpireTimes \subseteq Nat

\* kvobjGetExpire(kv) == -1: the key has no TTL
NoExpire == -1

SetCond == {"Always", "Nx", "Xx"}
ExpireCond == {"None", "Nx", "Xx", "Gt", "Lt"}

NoTtl == [kind |-> "None", at |-> NoExpire]
KeepTtl == [kind |-> "Keep", at |-> NoExpire]
PxAt == [kind : {"PxAt"}, at : ExpireTimes]
TtlArg == {NoTtl, KeepTtl} \cup PxAt

SetCmd == [op : {"Set"}, key : Key, val : Value, cond : SetCond, ttl : TtlArg,
           get : BOOLEAN]
ExpireCmd == [op : {"Expire"}, key : Key, at : ExpireTimes, cond : ExpireCond]
RemoveCmd == [op : {"Del", "Persist"}, key : Key]
LookupOp == {"Get", "Exists", "Type", "Pttl"}
LookupCmd == [op : LookupOp, key : Key]
ScanCmd == [op : {"Keys", "DbSize"}]
WatchCmd == [op : {"Watch"}, client : Client, key : Key]
UnwatchCmd == [op : {"Unwatch"}, client : Client]

\* The commands that name a key of the keyspace, and all commands
KeyCmd == SetCmd \cup ExpireCmd \cup RemoveCmd \cup LookupCmd
Command == KeyCmd \cup ScanCmd \cup WatchCmd \cup UnwatchCmd

OkReply == [kind |-> "Ok"]
NilReply == [kind |-> "Nil"]
IntReply(n) == [kind |-> "Int", n |-> n]
StrReply(v) == IF v = NoValue THEN NilReply ELSE [kind |-> "Str", val |-> v]
KeySetReply(ks) == [kind |-> "KeySet", keys |-> ks]
TypeReply == [kind |-> "Type", type |-> "Str"]
NoTypeReply == [kind |-> "NoType"]
=============================================================================
