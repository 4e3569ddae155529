------------------------------ MODULE RespCall ------------------------------
(***************************************************************************)
(* What Client::cmd of driver/resp.rs promises: a remote call.  The server *)
(* hears the arguments that were sent, the caller gets the reply to those  *)
(* arguments, one call at a time; or the connection breaks and the caller  *)
(* gets an error.  Absence of a value is the empty set.                    *)
(***************************************************************************)
CONSTANTS
    Requests,   \* argument vectors
    Replies     \* RESP values

VARIABLES
    asked,      \* the arguments of the call that is open
    heard,      \* the arguments the server made out
    answer,     \* the server's reply to them
    result,     \* what the last call returned
    broken      \* the call failed

callVars == <<asked, heard, answer, result, broken>>

CallInit == asked = {} /\ heard = {} /\ answer = {} /\ result = {} /\ broken = FALSE

Ask(args) ==
    /\ asked = {} /\ ~broken
    /\ asked' = {args} /\ result' = {}
    /\ UNCHANGED <<heard, answer, broken>>

Reply(r) ==
    /\ asked # {} /\ answer = {}
    /\ heard' = asked /\ answer' = {r}
    /\ UNCHANGED <<asked, result, broken>>

Return ==
    /\ answer # {} /\ ~broken
    /\ result' = answer
    /\ asked' = {} /\ heard' = {} /\ answer' = {}
    /\ UNCHANGED broken

Break ==
    /\ asked # {} /\ ~broken
    /\ broken' = TRUE
    /\ UNCHANGED <<asked, heard, answer, result>>

CallNext ==
    \/ \E args \in Requests : Ask(args)
    \/ \E r \in Replies : Reply(r)
    \/ Return
    \/ Break

CallSpec == CallInit /\ [][CallNext]_callVars
=============================================================================
