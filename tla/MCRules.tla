------------------------------- MODULE MCRules ------------------------------
(***************************************************************************)
(* Constants for model checking Rules.                                     *)
(***************************************************************************)
EXTENDS Rules

ClientSymmetry == Permutations(Client)
=============================================================================
