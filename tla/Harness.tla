------------------------------- MODULE Harness ------------------------------
(***************************************************************************)
(* The life of the servers in tests/difftest.rs.  Each test is a thread of *)
(* its own, on a port of its own: it spawns a server, connects to the port *)
(* and sends PING until somebody answers or it has tried often enough,     *)
(* runs its body, and drops the guard that kills the server and waits for  *)
(* it, also if the body panicked.  Connecting fails at once if nobody      *)
(* listens; reading a reply has no timeout, so a test that has sent PING,  *)
(* or runs its body, waits for as long as its peer lives and is silent.    *)
(*                                                                         *)
(* The servers are external: one boots, binds its port or exits because    *)
(* the port is taken, answers or does not, and may die at any time.        *)
(***************************************************************************)
EXTENDS Integers

CONSTANTS
    Test,           \* the tests of the file
    Offset,         \* the port of each test, counted from PORT
    MaxTries,       \* probes before start() gives up
    MaxKills        \* how often the whole test process is killed and rerun

ASSUME OffsetAssumption ==
    /\ Offset \in [Test -> Nat]
    /\ \A s, t \in Test : Offset[s] = Offset[t] => s = t
ASSUME MaxTriesAssumption == MaxTries \in Nat
ASSUME MaxKillsAssumption == MaxKills \in Nat

Nobody == "nobody"      \* nobody listens
Orphan == "orphan"      \* a server that no test of this process has spawned
ASSUME NamesAssumption == Nobody \notin Test /\ Orphan \notin Test

Ports == {Offset[t] : t \in Test}

VARIABLES
    built,      \* the server binary exists and can be spawned
    pc,         \* where each test is
    tries,      \* how often it has probed
    child,      \* the server it has spawned
    peer,       \* whose server it is connected to
    verdict,    \* how it ended
    listener,   \* whose server has each port
    taken,      \* history: the ports that an orphan had when the tests started
    kills

harnessVars ==
    <<built, pc, tries, child, peer, verdict, listener, taken, kills>>

\* The ports that somebody has
Occupied == {p \in Ports : listener[p] # Nobody}

HarnessInit ==
    /\ built \in BOOLEAN
    /\ pc = [t \in Test |-> "start"]
    /\ tries = [t \in Test |-> 0]
    /\ child = [t \in Test |-> "none"]
    /\ peer = [t \in Test |-> Nobody]
    /\ verdict = [t \in Test |-> "none"]
    /\ listener \in [Ports -> {Nobody, Orphan}]
    /\ taken = Occupied
    /\ kills = 0

\* Mutant of PortOf: every test uses the first port
SamePort(t) == CHOOSE p \in Ports : TRUE

PortOf(t) == Offset[t]

\* The ports without the server of test t
Freed(t) == [p \in Ports |-> IF listener[p] = t THEN Nobody ELSE listener[p]]

-----------------------------------------------------------------------------
\* start() returns None at once.
Skip(t) ==
    /\ pc[t] = "start" /\ ~built
    /\ pc' = [pc EXCEPT ![t] = "ended"]
    /\ verdict' = [verdict EXCEPT ![t] = "skipped"]
    /\ UNCHANGED <<built, tries, child, peer, listener, taken, kills>>

Spawn(t) ==
    /\ pc[t] = "start" /\ built
    /\ child' = [child EXCEPT ![t] = "booting"]
    /\ pc' = [pc EXCEPT ![t] = "probe"]
    /\ UNCHANGED <<built, tries, peer, verdict, listener, taken, kills>>

\* Somebody listens on the port: the test is connected, and sends PING.
Connect(t) ==
    /\ pc[t] = "probe" /\ tries[t] < MaxTries
    /\ listener[PortOf(t)] # Nobody
    /\ peer' = [peer EXCEPT ![t] = listener[PortOf(t)]]
    /\ pc' = [pc EXCEPT ![t] = "ping"]
    /\ UNCHANGED <<built, tries, child, verdict, listener, taken, kills>>

\* Mutant of ConnectFails: the attempts are not counted
ProbeForEver(t) ==
    /\ pc[t] = "probe" /\ tries[t] < MaxTries
    /\ listener[PortOf(t)] = Nobody
    /\ UNCHANGED harnessVars

\* Nobody listens.
ConnectFails(t) ==
    /\ pc[t] = "probe" /\ tries[t] < MaxTries
    /\ listener[PortOf(t)] = Nobody
    /\ tries' = [tries EXCEPT ![t] = @ + 1]
    /\ UNCHANGED <<built, pc, child, peer, verdict, listener, taken, kills>>

\* The peer answers the PING.
Answered(t) ==
    /\ pc[t] = "ping"
    /\ pc' = [pc EXCEPT ![t] = "run"]
    /\ UNCHANGED <<built, tries, child, peer, verdict, listener, taken, kills>>

\* The connection is closed before the reply, or the reply makes no sense.
PingFails(t) ==
    /\ pc[t] = "ping"
    /\ tries' = [tries EXCEPT ![t] = @ + 1]
    /\ peer' = [peer EXCEPT ![t] = Nobody]
    /\ pc' = [pc EXCEPT ![t] = "probe"]
    /\ UNCHANGED <<built, child, verdict, listener, taken, kills>>

\* Mutant of GiveUp: start() returns without its guard
GiveUpWithoutGuard(t) ==
    /\ pc[t] = "probe" /\ tries[t] = MaxTries
    /\ verdict' = [verdict EXCEPT ![t] = "skipped"]
    /\ pc' = [pc EXCEPT ![t] = "ended"]
    /\ UNCHANGED <<built, tries, child, peer, listener, taken, kills>>

\* start() returns None and drops the guard; the test takes it for "not built".
GiveUp(t) ==
    /\ pc[t] = "probe" /\ tries[t] = MaxTries
    /\ verdict' = [verdict EXCEPT ![t] = "skipped"]
    /\ pc' = [pc EXCEPT ![t] = "drop"]
    /\ UNCHANGED <<built, tries, child, peer, listener, taken, kills>>

\* The body has the replies that it needs, and passes or panics; or a read
\* fails, and it panics.
Finish(t) ==
    /\ pc[t] = "run"
    /\ \E v \in {"passed", "failed"} : verdict' = [verdict EXCEPT ![t] = v]
    /\ pc' = [pc EXCEPT ![t] = "drop"]
    /\ UNCHANGED <<built, tries, child, peer, listener, taken, kills>>

\* Drop of the guard: kill the child and wait for it
Drop(t) ==
    /\ pc[t] = "drop"
    /\ child' = [child EXCEPT ![t] = "reaped"]
    /\ listener' = Freed(t)
    /\ pc' = [pc EXCEPT ![t] = "ended"]
    /\ UNCHANGED <<built, tries, peer, verdict, taken, kills>>

-----------------------------------------------------------------------------
\* The server binds its port, or finds it taken and exits.
Bind(t) ==
    /\ child[t] = "booting"
    /\ IF listener[PortOf(t)] = Nobody
       THEN /\ listener' = [listener EXCEPT ![PortOf(t)] = t]
            /\ child' = [child EXCEPT ![t] = "up"]
       ELSE child' = [child EXCEPT ![t] = "dead"] /\ UNCHANGED listener
    /\ UNCHANGED <<built, pc, tries, peer, verdict, taken, kills>>

Die(t) ==
    /\ child[t] \in {"booting", "up"}
    /\ child' = [child EXCEPT ![t] = "dead"]
    /\ listener' = Freed(t)
    /\ UNCHANGED <<built, pc, tries, peer, verdict, taken, kills>>

\* The server of a process that was killed goes, too.
OrphanDies(p) ==
    /\ listener[p] = Orphan
    /\ listener' = [listener EXCEPT ![p] = Nobody]
    /\ UNCHANGED <<built, pc, tries, child, peer, verdict, taken, kills>>

\* The test process is killed: no guard is dropped, and the servers that are up
\* go on.  Then the tests are run again.
KillAndRerun ==
    /\ kills < MaxKills /\ kills' = kills + 1
    /\ pc' = [t \in Test |-> "start"]
    /\ tries' = [t \in Test |-> 0]
    /\ child' = [t \in Test |-> "none"]
    /\ peer' = [t \in Test |-> Nobody]
    /\ verdict' = [t \in Test |-> "none"]
    /\ listener' = [p \in Ports |-> IF p \in Occupied THEN Orphan ELSE Nobody]
    /\ taken' = Occupied
    /\ UNCHANGED built

-----------------------------------------------------------------------------
\* The steps that take nobody but the test
OwnStep(t) ==
    \/ Skip(t) \/ Spawn(t)
    \/ Connect(t) \/ ConnectFails(t) \/ GiveUp(t)
    \/ Drop(t)

\* The steps that wait for the peer to answer, or to close the connection
PeerStep(t) == Answered(t) \/ PingFails(t) \/ Finish(t)

TestStep(t) == OwnStep(t) \/ PeerStep(t)

ServerStep(t) == Bind(t) \/ Die(t)

HarnessNext ==
    \/ \E t \in Test : TestStep(t) \/ ServerStep(t)
    \/ \E p \in Ports : OrphanDies(p)
    \/ KillAndRerun

\* The peer of a test no longer runs, and its connections are closed.
PeerGone(t) == listener[PortOf(t)] # peer[t]

\* The threads of the tests run, and a read from a closed connection fails.
\* Nothing obliges a server to boot, to answer or to die.
HarnessSpec ==
    /\ HarnessInit /\ [][HarnessNext]_harnessVars
    /\ \A t \in Test :
          WF_harnessVars(OwnStep(t) \/ (PeerGone(t) /\ PeerStep(t)))

-----------------------------------------------------------------------------
(***************************************************************************)
(* Properties                                                              *)
(***************************************************************************)
\* A test sends its commands to the server it has spawned itself, although it
\* takes whoever answers on its port: never to another test's server, and to a
\* stranger's only if that one had the port before the tests started.
OwnServer ==
    \A t \in Test : pc[t] \in {"ping", "run"} =>
        \/ peer[t] = t
        \/ peer[t] = Orphan /\ PortOf(t) \in taken

\* However a test ends, by passing, by a panic or by giving up on its server,
\* its server is dead and reaped by then and its port is free.
NoServerLeftBehind ==
    \A t \in Test : pc[t] = "ended" =>
        /\ child[t] \in {"none", "reaped"}
        /\ \A p \in Ports : listener[p] # t

\* A test waits for a reply of a server that lives.
HeldUp(t) == pc[t] \in {"ping", "run"} /\ ~PeerGone(t)

\* A test ends, or waits for ever for one live server that does not answer:
\* neither a server that never comes up nor one that dies while it is probed or
\* asked keeps a test from ending.
TestsEndUnlessHeldUp ==
    \A t \in Test : <>[](pc[t] = "ended") \/ <>[]HeldUp(t)
=============================================================================
