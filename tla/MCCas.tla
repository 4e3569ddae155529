------------------------------- MODULE MCCas -------------------------------
(***************************************************************************)
(* A small instance of the watching clients for TLC.                       *)
(***************************************************************************)
EXTENDS Cas

Symmetry == Permutations(Key) \cup Permutations(Client) \cup Permutations(Value)
=============================================================================
