---------------------------- MODULE ConcreteDriver --------------------------
(***************************************************************************)
(* Concrete execution: driver/concrete.rs, and the verdict that            *)
(* tests/concrete.rs draws from it.  The CVT_* functions that the Prover   *)
(* interprets are implemented over a pseudo-random stream; `exercise` runs *)
(* a rule once per seed and counts what became of it.                      *)
(*                                                                         *)
(* The rule is the environment.  It is a function of the stream it starts  *)
(* on, so a rule is given as a script, the calls that matter, for every    *)
(* stream: a draw, an assumption that fails, an assertion that fails.      *)
(***************************************************************************)
EXTENDS Integers, FiniteSets, Sequences

CONSTANTS
    Width,        \* bits of a u64
    ShiftA, ShiftB, ShiftC,   \* the shifts of xorshift64*: right, left, right
    Golden,       \* the word next_u64 starts from if the stream is 0
    N,            \* executions of a rule, the seeds 1..N
    MaxFailures,  \* how many failing seeds are reported
    Scripts       \* what a rule may do in one execution

Event == {"draw", "assume", "assert"}

\* A machine word is the set of its bits that are 1.
Word == SUBSET (0..(Width - 1))

ASSUME WidthAssumption ==
    /\ Width \in Nat \ {0} /\ {ShiftA, ShiftB, ShiftC} \subseteq Nat \ {0}
    /\ Golden \in Word /\ Golden # {}
ASSUME CountsAssumption == N \in Nat \ {0} /\ MaxFailures \in Nat \ {0}

\* A rule that assumes does so before it asserts, as those of specs/ do.
ASSUME ScriptsAssumption ==
    /\ Scripts \subseteq Seq(Event)
    /\ \A s \in Scripts : \A i, j \in DOMAIN s :
          s[i] = "assert" /\ s[j] = "assume" => j < i

VARIABLES
    rule,       \* the rule under test: a script for every stream
    phase,      \* "begin", "rule" or "done"
    seed,       \* the seed of the execution
    stream,     \* STREAM
    rejected,   \* REJECTED
    failed,     \* FAILED
    draws,      \* DRAWS
    todo,       \* what the rule has still to do
    discarded,  \* executions that were rejected, `rejected` of exercise
    failures,   \* the failing seeds that are reported
    started     \* history: the streams that executions began on

driverVars == <<rule, phase, seed, stream, rejected, failed, draws, todo,
                discarded, failures, started>>

-----------------------------------------------------------------------------
Xor(x, y) == (x \ y) \cup (y \ x)
ShiftRight(x, n) == {b - n : b \in {c \in x : c >= n}}
ShiftLeft(x, n) == {b + n : b \in {c \in x : c + n < Width}}

\* Mutant of Scrambled: the first shift replaces the word instead of mixing
ScrambledByShift(x) ==
    LET y == ShiftRight(x, ShiftA)
        z == Xor(y, ShiftLeft(y, ShiftB))
    IN Xor(z, ShiftRight(z, ShiftC))

\* xorshift64*
Scrambled(x) ==
    LET y == Xor(x, ShiftRight(x, ShiftA))
        z == Xor(y, ShiftLeft(y, ShiftB))
    IN Xor(z, ShiftRight(z, ShiftC))

NextStream(x) == Scrambled(IF x = {} THEN Golden ELSE x)

\* The bits of a number: those of its half moved up, and whether it is odd
Bits[n \in 0..N] ==
    IF n = 0 THEN {} ELSE {b + 1 : b \in Bits[n \div 2]} \cup (IF n % 2 = 1 THEN {0} ELSE {})

\* A seed is a u64.
ASSUME SeedsAssumption == \A n \in 0..N : Bits[n] \in Word

\* Mutant of StartOf: a seed is used as it is
StartOfSeed(s) == Bits[s]

\* begin: the seed with its lowest bit set
StartOf(s) == Bits[s] \cup {0}

-----------------------------------------------------------------------------
DriverInit ==
    /\ rule \in [{StartOf(s) : s \in 1..N} -> Scripts]
    /\ phase = "begin" /\ seed = 1
    /\ stream = {} /\ rejected = FALSE /\ failed = FALSE /\ draws = 0
    /\ todo = <<>>
    /\ discarded = 0 /\ failures = <<>> /\ started = {}

\* Mutant of Begin: REJECTED is not reset
BeginRejected ==
    /\ phase = "begin" /\ phase' = "rule"
    /\ stream' = StartOf(seed) /\ failed' = FALSE /\ draws' = 0
    /\ todo' = rule[StartOf(seed)]
    /\ started' = started \cup {StartOf(seed)}
    /\ UNCHANGED <<rule, seed, rejected, discarded, failures>>

\* Mutant of Begin: FAILED is not reset
BeginFailed ==
    /\ phase = "begin" /\ phase' = "rule"
    /\ stream' = StartOf(seed) /\ rejected' = FALSE /\ draws' = 0
    /\ todo' = rule[StartOf(seed)]
    /\ started' = started \cup {StartOf(seed)}
    /\ UNCHANGED <<rule, seed, failed, discarded, failures>>

Begin ==
    /\ phase = "begin" /\ phase' = "rule"
    /\ stream' = StartOf(seed)
    /\ rejected' = FALSE /\ failed' = FALSE /\ draws' = 0
    /\ todo' = rule[StartOf(seed)]
    /\ started' = started \cup {StartOf(seed)}
    /\ UNCHANGED <<rule, seed, discarded, failures>>

Call(event) ==
    /\ phase = "rule" /\ todo # <<>> /\ Head(todo) = event
    /\ todo' = Tail(todo)
    /\ UNCHANGED <<rule, phase, seed, discarded, failures, started>>

\* CVT_nondet_u64, and CVT_nondet_i64 and CVT_nondet_usize through it
Draw ==
    /\ Call("draw")
    /\ draws' = draws + 1
    /\ stream' = NextStream(stream)
    /\ UNCHANGED <<rejected, failed>>

\* CVT_assume(false): the execution goes on.
AssumeFails ==
    /\ Call("assume")
    /\ rejected' = TRUE
    /\ UNCHANGED <<stream, failed, draws>>

\* CVT_assert(false): not held against an execution that is rejected already
AssertFails ==
    /\ Call("assert")
    /\ failed' = (failed \/ ~rejected)
    /\ UNCHANGED <<stream, rejected, draws>>

\* Mutant of End: a rejected execution is repeated instead of counted
EndOrRetry ==
    /\ phase = "rule" /\ todo = <<>>
    /\ failures' = IF failed /\ Len(failures) < MaxFailures
                   THEN Append(failures, seed) ELSE failures
    /\ seed' = IF rejected THEN seed ELSE seed + 1
    /\ phase' = IF seed = N /\ ~rejected THEN "done" ELSE "begin"
    /\ UNCHANGED <<rule, stream, rejected, failed, draws, todo, discarded, started>>

\* The rule has returned: end(), the bookkeeping of exercise, the next seed.
End ==
    /\ phase = "rule" /\ todo = <<>>
    /\ discarded' = IF rejected THEN discarded + 1 ELSE discarded
    /\ failures' = IF ~rejected /\ failed /\ Len(failures) < MaxFailures
                   THEN Append(failures, seed) ELSE failures
    /\ seed' = seed + 1
    /\ phase' = IF seed = N THEN "done" ELSE "begin"
    /\ UNCHANGED <<rule, stream, rejected, failed, draws, todo, started>>

DriverNext == Begin \/ Draw \/ AssumeFails \/ AssertFails \/ End

\* A loop over finitely many seeds whose rules return.
DriverSpec == DriverInit /\ [][DriverNext]_driverVars /\ WF_driverVars(DriverNext)

\* The verdict of tests/concrete.rs
Status ==
    IF failures # <<>> THEN "FAIL"
    ELSE IF N - discarded = 0 THEN "VACUOUS"
    ELSE "ok"

-----------------------------------------------------------------------------
(***************************************************************************)
(* Properties                                                              *)
(***************************************************************************)
\* What an execution on seed s amounts to by itself: an assumption fails, or
\* an assertion fails while none has.
Rejects(s) == \E i \in DOMAIN rule[StartOf(s)] : rule[StartOf(s)][i] = "assume"
Refutes(s) ==
    \E i \in DOMAIN rule[StartOf(s)] :
        /\ rule[StartOf(s)][i] = "assert"
        /\ \A j \in 1..(i - 1) : rule[StartOf(s)][j] # "assume"

\* The verdict over all seeds is the one their executions deserve, each taken
\* by itself: nothing of one execution carries over to the next.
StatusIsHonest ==
    phase = "done" =>
        Status = IF \E s \in 1..N : Refutes(s) THEN "FAIL"
                 ELSE IF \A s \in 1..N : Rejects(s) THEN "VACUOUS" ELSE "ok"

\* "Deterministic, so a failing seed is a reproducible test case": every seed
\* that is reported refutes the rule when it is run alone, and none is missing
\* before the list is full.
FailuresReproduce ==
    /\ \A i \in DOMAIN failures : Refutes(failures[i])
    /\ Len(failures) < MaxFailures =>
          \A s \in 1..(seed - 1) : Refutes(s) => \E i \in DOMAIN failures : failures[i] = s

\* The stream of a running rule is never 0, the fixed point on which xorshift
\* would draw the same value for ever; so next_u64's own repair of a zero
\* stream is never needed.
NeverZero == phase = "rule" => stream \in Word \ {{}}

\* exercise returns.
EveryRunEnds == <>(phase = "done")

\* The seeds 2k and 2k + 1 begin on the same stream, and no others do: of N
\* executions N \div 2 + 1 differ.  (README.md:28 counts 20 000 streams.)
StreamsInPairs == phase = "done" => Cardinality(started) = N \div 2 + 1
=============================================================================
