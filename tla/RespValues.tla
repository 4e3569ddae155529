----------------------------- MODULE RespValues ----------------------------
(***************************************************************************)
(* RESP2 values, the enum Resp of driver/resp.rs.  Texts, bulk bytes and   *)
(* array items are whatever the module that uses them puts there.          *)
(***************************************************************************)
EXTENDS Integers, Sequences

SimpleResp(text) == [tag |-> "Simple", text |-> text]
ErrorResp(text) == [tag |-> "Error", text |-> text]
IntResp(n) == [tag |-> "Int", n |-> n]
BulkResp(bytes) == [tag |-> "Bulk", bytes |-> bytes]
NilResp == [tag |-> "Nil"]
NilArrayResp == [tag |-> "NilArray"]
ArrayResp(items) == [tag |-> "Array", items |-> items]

\* as_int() and as_bulk() are Some exactly on these
IsInt(r) == r.tag = "Int"
IsBulk(r) == r.tag = "Bulk"
IsNil(r) == r.tag \in {"Nil", "NilArray"}
=============================================================================
