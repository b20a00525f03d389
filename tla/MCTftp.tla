------------------------------- MODULE MCTftp -------------------------------
(* Instances of Tftp: eight block numbers, so that they wrap.              *)
EXTENDS Tftp

Conf(protos, room, late, oack, windows, r, n) ==
  [protos |-> protos, room |-> room, late |-> late, lateOack |-> oack, windows |-> windows,
   retry |-> r, nics |-> n]

\* A get followed by a server and the other way round, with one interface; a
\* file that is one block too large; a late OACK, without windows; no room at
\* all; and a put followed by a server, with ethrotate set to "no".
Boards == {Conf({"get", "srv"}, Room, 2, FALSE, {3}, 1, 1),
           Conf({"get"}, Blocks - 1, 1, FALSE, {2}, 1, 2),
           Conf({"get"}, Room, 1, TRUE, {}, 1, 2),
           Conf({"get", "srv"}, 0, 1, FALSE, {}, 1, 2),
           Conf({"put", "srv"}, Room, 0, FALSE, {}, 1, 0)}

Putting == {Conf({"put"}, Room, 0, FALSE, {}, 0, 1)}
LateOack == {Conf({"get"}, Room, 1, TRUE, {3}, 0, 1)}
=============================================================================
