----------------------------- MODULE MCWatchLoop ---------------------------
(***************************************************************************)
(* A small instance of the watcher loop for TLC.                           *)
(***************************************************************************)
EXTENDS WatchLoop

MasterOnly == {StandaloneMaster}
Symmetry == Permutations(Client) \cup Permutations(Key)
=============================================================================
