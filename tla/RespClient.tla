----------------------------- MODULE RespClient -----------------------------
(***************************************************************************)
(* The blocking RESP2 client of driver/resp.rs, and a server at the other  *)
(* end of the stream.  The server's reply arrives a byte at a time and the *)
(* server may crash between any two of them.                               *)
(*                                                                         *)
(* On the wire a header, the tag byte with the number or the text behind   *)
(* it, is one token; CR and LF and the bytes of a bulk string are tokens   *)
(* of their own, so a CR or an LF inside a bulk string is not told from a  *)
(* line end by what it is but by where it is.                              *)
(***************************************************************************)
EXTENDS Integers, Sequences, SequencesExt, RespValues

CONSTANTS
    Chars,        \* the names of the bytes that strings are made of
    Requests,     \* argument vectors: sequences of byte strings
    Replies,      \* what the server may answer
    Wire          \* what it writes for each of its values, items included

Byte(b) == [byte |-> b]
Bytes == {Byte(b) : b \in Chars}
CR == Byte("CR")
LF == Byte("LF")
Sized(tag, n) == [tag |-> tag, n |-> n]
Text(tag, text) == [tag |-> tag, text |-> text]

VARIABLES
    up, down,     \* the two directions of the stream
    pending,      \* what the server has still to write
    alive,        \* the server has not crashed
    pc,           \* where the client is in cmd and read
    line,         \* what read_line has read
    need,         \* the length of the bulk string to come
    stack,        \* the arrays whose items are being read, innermost first
    value,        \* the value that a read has just returned
    asked, heard, answer, result    \* the call, see RespCall

connVars == <<up, down, pending, alive>>
readVars == <<line, need, stack, value>>
ghostVars == <<asked, heard, answer, result>>
respVars == <<up, down, pending, alive, pc, line, need, stack, value,
              asked, heard, answer, result>>

-----------------------------------------------------------------------------
\* cmd: the array header, then every argument with its length
RequestTokens(args) ==
    <<Sized("*", Len(args)), CR, LF>> \o
    FlattenSeq([i \in DOMAIN args |->
        <<Sized("$", Len(args[i])), CR, LF>> \o args[i] \o <<CR, LF>>])

\* What the server writes for a value, when it writes items as wire says
EncodedWith(wire, r) ==
    CASE r.tag = "Simple" -> <<Text("+", r.text), CR, LF>>
      [] r.tag = "Error" -> <<Text("-", r.text), CR, LF>>
      [] r.tag = "Int" -> <<Sized(":", r.n), CR, LF>>
      [] r.tag = "Bulk" -> <<Sized("$", Len(r.bytes)), CR, LF>> \o r.bytes \o <<CR, LF>>
      [] r.tag = "Nil" -> <<Sized("$", -1), CR, LF>>
      [] r.tag = "NilArray" -> <<Sized("*", -1), CR, LF>>
      [] r.tag = "Array" -> <<Sized("*", Len(r.items)), CR, LF>> \o
             FlattenSeq([i \in DOMAIN r.items |-> wire[r.items[i]]])

Encoded(r) == EncodedWith(Wire, r)

\* The values of the server, an array holds other values, and the tokens it
\* writes them with
Values == DOMAIN Wire
RespValue ==
    {NilResp, NilArrayResp}
      \cup [tag : {"Simple", "Error"}, text : STRING] \cup [tag : {"Int"}, n : Int]
      \cup [tag : {"Bulk"}, bytes : Seq(Bytes)]
      \cup [tag : {"Array"}, items : Seq(Values)]
Header == [tag : {"*", "$", ":"}, n : Int] \cup [tag : {"+", "-"}, text : STRING]
Token == Bytes \cup {CR, LF} \cup Header

ASSUME RequestsAssumption == Requests \subseteq Seq(Seq(Bytes))
\* The server speaks RESP2.
ASSUME WireAssumption ==
    /\ Replies \subseteq Values
    /\ Wire \in [Values -> Seq(Token)]
    /\ \A r \in Values : r \in RespValue /\ Wire[r] = Encoded(r)

-----------------------------------------------------------------------------
RespInit ==
    /\ up = <<>> /\ down = <<>> /\ pending = <<>> /\ alive = TRUE
    /\ pc = "idle" /\ line = <<>> /\ need = 0 /\ stack = <<>> /\ value = NilResp
    /\ asked = {} /\ heard = {} /\ answer = {} /\ result = {}

\* cmd writes the whole request and flushes it, then reads.
Send(args) ==
    /\ pc = "idle"
    /\ up' = up \o RequestTokens(args)
    /\ pc' = "line" /\ line' = <<>>
    /\ asked' = {args} /\ result' = {}
    /\ UNCHANGED <<down, pending, alive, need, stack, value, heard, answer>>

\* The server reads a request when all of it is there, and decides on a reply.
ServerAnswers(r) ==
    /\ alive /\ pending = <<>>
    /\ \E args \in Requests :
          /\ up = RequestTokens(args)
          /\ heard' = {args}
    /\ answer' = {r}
    /\ up' = <<>> /\ pending' = Encoded(r)
    /\ UNCHANGED <<down, alive, pc, readVars, asked, result>>

ServerWrites ==
    /\ alive /\ pending # <<>>
    /\ down' = Append(down, Head(pending)) /\ pending' = Tail(pending)
    /\ UNCHANGED <<up, alive, pc, readVars, ghostVars>>

\* What has been written can still be read.
Crash ==
    /\ alive /\ alive' = FALSE
    /\ UNCHANGED <<up, down, pending, pc, readVars, ghostVars>>

-----------------------------------------------------------------------------
\* read_line: everything up to a CR, and whatever byte follows it
ReadByte ==
    /\ pc = "line" /\ down # <<>>
    /\ IF Head(down) = CR THEN pc' = "lf" /\ UNCHANGED line
       ELSE line' = Append(line, Head(down)) /\ UNCHANGED pc
    /\ down' = Tail(down)
    /\ UNCHANGED <<up, pending, alive, need, stack, value, ghostVars>>

\* Mutant of ReadLf: the LF stays on the wire
LeaveLf ==
    /\ pc = "lf" /\ down # <<>>
    /\ pc' = "tag"
    /\ UNCHANGED <<connVars, readVars, ghostVars>>

ReadLf ==
    /\ pc = "lf" /\ down # <<>>
    /\ down' = Tail(down) /\ pc' = "tag"
    /\ UNCHANGED <<up, pending, alive, readVars, ghostVars>>

-----------------------------------------------------------------------------
(***************************************************************************)
(* read: what a line means is decided by its first byte                    *)
(***************************************************************************)
HasTag(tag) == line # <<>> /\ "tag" \in DOMAIN line[1] /\ line[1].tag = tag
Known == \E tag \in {"+", "-", ":", "$", "*"} : HasTag(tag)

Gives(v) == value' = v /\ pc' = "value" /\ UNCHANGED <<need, stack>>

\* An empty line and an unknown tag are values, not errors.
ReadSimple ==
    /\ \/ line = <<>> /\ Gives(NilResp)
       \/ line # <<>> /\ ~Known /\ Gives(SimpleResp("?"))
       \/ HasTag("+") /\ Gives(SimpleResp(line[1].text))
       \/ HasTag("-") /\ Gives(ErrorResp(line[1].text))
       \/ HasTag(":") /\ Gives(IntResp(line[1].n))

ReadBulkHeader ==
    /\ HasTag("$")
    /\ IF line[1].n < 0 THEN Gives(NilResp)
       ELSE need' = line[1].n /\ pc' = "bulk" /\ UNCHANGED <<stack, value>>

ReadArrayHeader ==
    /\ HasTag("*")
    /\ IF line[1].n < 0 THEN Gives(NilArrayResp)
       ELSE IF line[1].n = 0 THEN Gives(ArrayResp(<<>>))
       ELSE /\ stack' = <<[left |-> line[1].n, items |-> <<>>]>> \o stack
            /\ pc' = "line"
            /\ UNCHANGED <<need, value>>

ReadTag ==
    /\ pc = "tag"
    /\ ReadSimple \/ ReadBulkHeader \/ ReadArrayHeader
    /\ line' = <<>>
    /\ UNCHANGED <<connVars, ghostVars>>

\* Mutant of BulkFrame: one byte of line end
BulkFrameShort(n) == n + 1

\* A bulk string comes with its CR and LF.
BulkFrame(n) == n + 2

ReadBulk ==
    /\ pc = "bulk" /\ Len(down) >= BulkFrame(need)
    /\ value' = BulkResp(SubSeq(down, 1, need)) /\ pc' = "value"
    /\ down' = SubSeq(down, BulkFrame(need) + 1, Len(down))
    /\ UNCHANGED <<up, pending, alive, line, need, stack, ghostVars>>

\* Mutant of Push: the last item of an array is not waited for
PushEarly(top, v) ==
    IF top.left <= 2
    THEN value' = ArrayResp(Append(top.items, v)) /\ stack' = Tail(stack) /\ UNCHANGED pc
    ELSE /\ stack' = <<[left |-> top.left - 1, items |-> Append(top.items, v)]>> \o Tail(stack)
         /\ pc' = "line" /\ UNCHANGED value

\* One item of the innermost array has been read.
Push(top, v) ==
    IF top.left = 1
    THEN value' = ArrayResp(Append(top.items, v)) /\ stack' = Tail(stack) /\ UNCHANGED pc
    ELSE /\ stack' = <<[left |-> top.left - 1, items |-> Append(top.items, v)]>> \o Tail(stack)
         /\ pc' = "line" /\ UNCHANGED value

PushItem ==
    /\ pc = "value" /\ stack # <<>>
    /\ Push(stack[1], value)
    /\ UNCHANGED <<connVars, line, need, ghostVars>>

\* The outermost read returns, and cmd with it.
ReturnValue ==
    /\ pc = "value" /\ stack = <<>>
    /\ result' = {value} /\ asked' = {} /\ heard' = {} /\ answer' = {}
    /\ pc' = "idle" /\ value' = NilResp /\ need' = 0
    /\ UNCHANGED <<connVars, line, stack>>

Waiting ==
    \/ pc \in {"line", "lf"} /\ down = <<>>
    \/ pc = "bulk" /\ Len(down) < BulkFrame(need)

\* Mutant of EndOfStream: a read of no bytes is tried again
ReadAgain ==
    /\ Waiting /\ ~alive
    /\ UNCHANGED respVars

\* read_exact at the end of the stream is an error.
EndOfStream ==
    /\ Waiting /\ ~alive
    /\ pc' = "broken"
    /\ UNCHANGED <<connVars, readVars, ghostVars>>

-----------------------------------------------------------------------------
SendSome == \E args \in Requests : Send(args)
Server == (\E r \in Replies : ServerAnswers(r)) \/ ServerWrites
ClientReads ==
    \/ ReadByte \/ ReadLf \/ ReadTag \/ ReadBulk \/ PushItem \/ ReturnValue
    \/ EndOfStream

RespNext == SendSome \/ Server \/ Crash \/ ClientReads

\* The client's thread runs, and a server that is alive answers.  There is no
\* timeout: without the second the client waits for ever.
RespSpec ==
    RespInit /\ [][RespNext]_respVars /\ WF_respVars(ClientReads) /\ WF_respVars(Server)

-----------------------------------------------------------------------------
(***************************************************************************)
(* Properties                                                              *)
(***************************************************************************)
\* The stream is empty between two calls: no reply, and no part of one, is
\* left for the next call to take for its own.
NothingLeftOver ==
    pc = "idle" => up = <<>> /\ down = <<>> /\ (alive => pending = <<>>)

\* The reader never takes a part of a value for a line: what it looks at is
\* one header with a tag it knows, whatever bytes the bulk strings before it
\* held.  The fallbacks for an empty line and an unknown tag are not needed.
ReaderStaysAligned == pc = "tag" => Len(line) = 1 /\ Known

Call == INSTANCE RespCall WITH broken <- (pc = "broken")

\* The client and the wire implement a remote call.
ImplementsCall == Call!CallSpec

\* Every call returns or fails.
EveryCallReturns == (pc = "line") ~> (pc \in {"idle", "broken"})
=============================================================================
