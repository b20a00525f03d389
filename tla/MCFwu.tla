------------------------------- MODULE MCFwu -------------------------------
(* Instances of Fwu: which capsules the OS delivers together.              *)
EXTENDS Fwu

Two == {1, 2}

Update1(i, o) == [kind |-> "image", img |-> i, os |-> o]
Accept1(i) == [kind |-> "accept", img |-> i]
Revert1 == [kind |-> "revert"]

\* Every update covers all images of the bank.
Updates(S) == {{Update1(i, o) : i \in S} : o \in BOOLEAN}
Accepts(S) == {{Accept1(i)} : i \in S}

FullTwo == Updates(Two) \cup Accepts(Two)
RevertOne == Updates({1}) \cup Accepts({1}) \cup {{Revert1}}
RevertTwo == FullTwo \cup {{Revert1}}

Conf(batches, fails, loss, fb, ign) ==
  [batches |-> batches, fails |-> fails, powerLoss |-> loss, fallback |-> fb, ignoreOsInd |-> ign]

\* Power loss anywhere; capsules that cannot be written; then, with updates of
\* the first image only, what may fail while the disk is written, without and with
\* an earlier stage that boots another bank, and what may fail while it is read.
Writes == Failures \ {"read", "launch"}
Platforms == {Conf(RevertTwo, {}, TRUE, FALSE, FALSE),
              Conf(FullTwo, {"image"}, FALSE, FALSE, FALSE),
              Conf(RevertOne, Writes, TRUE, FALSE, FALSE),
              Conf(RevertOne, Writes, TRUE, TRUE, TRUE),
              Conf(RevertOne, {"md", "read", "launch"}, FALSE, TRUE, FALSE)}

\* The OS may ask for a revert.
Reverting == {Conf(RevertOne, {}, FALSE, FALSE, FALSE)}
=============================================================================
