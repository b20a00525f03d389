---------------------------- MODULE MCEnvFlash ----------------------------
(* Instances of EnvFlash.                                                  *)
EXTENDS EnvFlash

CONSTANT dflt

Conf(fails, single, larger, load) ==
  [fails |-> fails, single |-> single, larger |-> larger, cmdLoad |-> load]

AllReported(single) ==
  {"protect", "export", "write", "flag"} \cup (IF single THEN {"malloc", "restore"} ELSE {})

\* Two sectors and one with the errors a save reports, and with all errors.
\* (TRUE, FALSE, ...) is what configs/allwinner_h6_v200_defconfig selects.
Boards == {Conf(AllReported(FALSE), FALSE, l, FALSE) : l \in BOOLEAN}
            \cup {Conf(AllReported(TRUE), TRUE, l, TRUE) : l \in BOOLEAN}
            \cup {Conf(Failures, s, TRUE, TRUE) : s \in BOOLEAN}

Reloading == {Conf({}, FALSE, FALSE, TRUE)}
=============================================================================
