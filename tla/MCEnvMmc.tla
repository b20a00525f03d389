----------------------------- MODULE MCEnvMmc -----------------------------
(* Instances of EnvMmc: four serial numbers, so that they wrap.            *)
EXTENDS EnvMmc

CONSTANT dflt

Conf(fails, hw, two) == [fails |-> fails, hwRedund |-> hw, twoLocations |-> two]

\* The configuration of the theorems; failing writes; and all errors with and
\* without a boot partition per copy and a second location.
Boards == {Conf({"import", "open"}, FALSE, FALSE), Conf({"import", "open", "write"}, FALSE, FALSE)}
            \cup {Conf(Failures, hw, two) : hw, two \in BOOLEAN}

FailingWrite == {Conf({"write"}, FALSE, FALSE)}
=============================================================================
