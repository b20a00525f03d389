--------------------------- MODULE MCDeviceModel ---------------------------
(***************************************************************************)
(* Instance of DeviceModel: a root, a bus below it, two devices on the bus *)
(* and one below the second of them.                                       *)
(***************************************************************************)
EXTENDS DeviceModel

MCDevices == {"root", "bus", "disk", "port", "drive"}
MCParent == [d \in MCDevices \ {"root"} |->
               CASE d = "bus" -> "root" [] d = "drive" -> "port" [] OTHER -> "bus"]

Conf(fails, early, bus, family, flags) ==
  [fails |-> fails, early |-> early, bus |-> bus, family |-> family, flags |-> flags]

\* No device probes another but its parent, and everything fails.
Plain == {Conf(Steps \ {"post"}, FALSE, FALSE, FALSE, {"normal", "nonvital"}),
          Conf(Steps \ {"remove", "notify"}, FALSE, FALSE, FALSE, {"normal", "nonvital"})}
\* Parents probe and bind their children; every kind of removal.
Nested == {Conf({"plat", "remove", "unbind"}, TRUE, TRUE, TRUE, {"normal", "nonvital"}),
           Conf({"plat", "unbind"}, TRUE, TRUE, TRUE, Flags)}
\* The same, and everything fails.
Failing == {Conf(Steps, TRUE, TRUE, FALSE, {"normal"})}
MCConfigs == Plain \cup Nested \cup Failing
=============================================================================
