------------------------------ MODULE MCHarness -----------------------------
(***************************************************************************)
(* Constants for model checking Harness: two of the tests of the file,     *)
(* which share nothing but the process that runs them.                     *)
(***************************************************************************)
EXTENDS Harness

CONSTANTS t1, t2

MCOffset == [t \in Test |-> IF t = t1 THEN 0 ELSE 1]
=============================================================================
