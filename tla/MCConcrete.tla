----------------------------- MODULE MCConcrete ----------------------------
(***************************************************************************)
(* Constants for model checking ConcreteDriver: the words and shifts of    *)
(* the source, few seeds and the shortest scripts that differ.             *)
(***************************************************************************)
EXTENDS ConcreteDriver

\* 0x9E3779B97F4A7C15
MCGolden == {63, 60, 59, 58, 57, 53, 52, 50, 49, 48, 46, 45, 44, 43, 40, 39,
             37, 36, 35, 32, 30, 29, 28, 27, 26, 25, 24, 22, 19, 17, 14, 13,
             12, 11, 10, 4, 2, 0}

MCScripts == {<<"draw", "draw">>, <<"draw", "assert">>, <<"draw", "assume">>,
              <<"draw", "assume", "assert">>, <<"assert", "draw", "assert">>}
=============================================================================
