-------------------------------- MODULE Step -------------------------------
(***************************************************************************)
(* Steps and schedules: model/step.rs.  A step is atomic; a schedule is    *)
(* any interleaving of commands by any client, active expire cycles and    *)
(* clock ticks.  Nothing obliges a step to happen, so there is no fairness.*)
(***************************************************************************)
EXTENDS Cmd

VARIABLE world

vars == <<world>>

\* Mutant of EnterExecutionUnit: `dirty` is never reset
EnterKeepingDirty(w) == [w EXCEPT !.nesting = @ + 1]

EnterExecutionUnit(w) ==
    [w EXCEPT !.nesting = @ + 1, !.dirty = IF w.nesting = 0 THEN 0 ELSE @]

\* Mutant of ExitExecutionUnit: an early return before the decrement
ExitWithoutLeaving(w) == w

ExitExecutionUnit(w) ==
    [w EXCEPT !.nesting = IF @ > 0 THEN @ - 1 ELSE @]

\* Step::Cmd, the command run inside its own execution unit
CloseUnit(r) == Result(ExitExecutionUnit(r.world), r.reply)

RunCmd(w, cmd) == CloseUnit(Exec(EnterExecutionUnit(w), cmd))

\* Step::ActiveExpire
RunActiveExpire(w) == ExitExecutionUnit(ActiveExpireCycle(EnterExecutionUnit(w)))

\* Step::ClockTick(d): time moves between units only
RunClockTick(w, d) == [w EXCEPT !.clock = @ + d]

-----------------------------------------------------------------------------
Init == \E clock \in 0..MaxClock, mode \in Modes : world \in NondetWorld(clock, mode)

Perform(cmd) == world' = RunCmd(world, cmd).world

DoSet == \E cmd \in SetCmd : Perform(cmd)
DoExpire == \E cmd \in ExpireCmd : Perform(cmd)
DoDel == \E cmd \in RemoveCmd : cmd.op = "Del" /\ Perform(cmd)
DoPersist == \E cmd \in RemoveCmd : cmd.op = "Persist" /\ Perform(cmd)
DoGet == \E cmd \in LookupCmd : cmd.op = "Get" /\ Perform(cmd)
DoExists == \E cmd \in LookupCmd : cmd.op = "Exists" /\ Perform(cmd)
DoType == \E cmd \in LookupCmd : cmd.op = "Type" /\ Perform(cmd)
DoPttl == \E cmd \in LookupCmd : cmd.op = "Pttl" /\ Perform(cmd)
DoKeys == \E cmd \in ScanCmd : cmd.op = "Keys" /\ Perform(cmd)
DoDbSize == \E cmd \in ScanCmd : cmd.op = "DbSize" /\ Perform(cmd)
DoWatch == \E cmd \in WatchCmd : Perform(cmd)
DoUnwatch == \E cmd \in UnwatchCmd : Perform(cmd)

ActiveExpire == world' = RunActiveExpire(world)

\* MaxClock bounds the model's time; the source's clock is an i64.
ClockTick ==
    \E d \in Ticks : world.clock + d <= MaxClock /\ world' = RunClockTick(world, d)

Next ==
    \/ DoSet \/ DoExpire \/ DoDel \/ DoPersist
    \/ DoGet \/ DoExists \/ DoType \/ DoPttl
    \/ DoKeys \/ DoDbSize
    \/ DoWatch \/ DoUnwatch
    \/ ActiveExpire \/ ClockTick

Spec == Init /\ [][Next]_vars
=============================================================================
