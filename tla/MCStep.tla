------------------------------- MODULE MCStep ------------------------------
(***************************************************************************)
(* Small instances of the step model for TLC.                              *)
(***************************************************************************)
EXTENDS Properties

\* Clients are interchangeable; so are keys, except that an active cycle picks
\* an order for the DELs it logs: keys are symmetric while ReplCap = 0 only.
KeySymmetry == Permutations(Key)
Symmetry == Permutations(Key) \cup Permutations(Client)

\* DEBUG's pause of the expire action, on a standalone master
PausedMaster == {[StandaloneMaster EXCEPT !.expire_paused = TRUE]}
=============================================================================
