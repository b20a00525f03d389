----------------------------- MODULE MCConsole -----------------------------
(***************************************************************************)
(* Instance of Console: boots with every kind of silence; a test that      *)
(* records the output, silent or not; a test that feeds the input beside   *)
(* two keyboards.                                                          *)
(***************************************************************************)
EXTENDS Console

Boots == [silence : {"off", "on", "untilEnv"}, onReloc : BOOLEAN, quiet : BOOLEAN,
          outs : {Devs}, keys : {{}}, test : {FALSE}, early : {5}, late : {2}, fed : {0}]
Tests == [silence : {"on"}, onReloc : {FALSE}, quiet : {TRUE},
          outs : {{"serial"}}, keys : {{}}, test : {TRUE}, early : {0}, late : {7}, fed : {0}]
Inputs == [silence : {"off"}, onReloc : {FALSE}, quiet : {TRUE},
           outs : {{"serial"}}, keys : {Keys}, test : {TRUE}, early : {0}, late : {0}, fed : {4}]
MCConfigs == Boots \cup Tests \cup Inputs
=============================================================================
