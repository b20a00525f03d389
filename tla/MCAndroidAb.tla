---------------------------- MODULE MCAndroidAb ----------------------------
(***************************************************************************)
(* Instance of AndroidAb: two slots, room for three, with every fault      *)
(* alone, and either slot, both or none able to come up.                   *)
(***************************************************************************)
EXTENDS AndroidAb

Conf(faults, only) ==
  [faults : faults, good : {{}, {0}, {1}, {0, 1}}, resets : {2}, updates : {2},
   onlyMark : {only}]

MCConfigs == Conf({{}, {"store"}, {"torn"}, {"error"}, {"short"}}, FALSE)
OnlyMarks == Conf({{}}, TRUE)
=============================================================================
