------------------------------ MODULE MCStore ------------------------------
(***************************************************************************)
(* A small instance of the observed steps for TLC.                         *)
(***************************************************************************)
EXTENDS StoreRefinement

\* Values are only stored, copied and compared for equality.
ValueSymmetry == Permutations(Value)
=============================================================================
