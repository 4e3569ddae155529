------------------------------- MODULE MCResp -------------------------------
(***************************************************************************)
(* Constants for model checking RespClient: every kind of value, bulk      *)
(* strings made of line ends, arrays of arrays.                            *)
(***************************************************************************)
EXTENDS RespClient

A == Byte("a")
MCChars == {"a", "CR", "LF"}
MCRequests == {<<<<A>>>>, <<<<A, A>>, <<>>>>, <<<<A>>, <<CR, LF>>>>}

Pair == ArrayResp(<<BulkResp(<<A>>), BulkResp(<<CR>>)>>)
Inner == ArrayResp(<<NilResp, ArrayResp(<<>>)>>)
Nested == ArrayResp(<<IntResp(1), Inner, SimpleResp("OK")>>)
MCReplies ==
    {SimpleResp("OK"), ErrorResp("ERR"), IntResp(-2), NilResp, NilArrayResp,
     BulkResp(<<>>), BulkResp(<<A>>), BulkResp(<<CR, LF>>), BulkResp(<<LF, CR, A>>),
     ArrayResp(<<>>), Pair, Nested}

\* The items of an array are written before it.
Extended(wire, values) ==
    [r \in DOMAIN wire \cup values |->
        IF r \in DOMAIN wire THEN wire[r] ELSE EncodedWith(wire, r)]

Scalars == {r \in MCReplies : r.tag # "Array"} \cup {BulkResp(<<CR>>), IntResp(1)}
Shallow == Extended(Extended(<<>>, Scalars), {ArrayResp(<<>>), Pair})
MCWire == Extended(Extended(Shallow, {Inner}), {Nested})
=============================================================================
