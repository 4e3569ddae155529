----------------------------- MODULE MCDiffTest ----------------------------
(***************************************************************************)
(* Constants for model checking DiffTest.                                  *)
(***************************************************************************)
EXTENDS DiffTest

MCPast == -1

\* The drawn deadlines, and one that a server with a bug comes to: after one
\* tick it passes while the driver waits.
MCExpireTimes == {Base + MCPast, Base + Soon, Base + Far, Base + TickMs}
MCModes == {StandaloneMaster}
=============================================================================
