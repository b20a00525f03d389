---------------------------- MODULE MCBlkCache ----------------------------
(* Instance of BlkCache for TLC: d1 has small blocks, d2 blocks of twice    *)
(* the size and two hardware partitions, so that a node's buffer is handed  *)
(* from one to the other.                                                   *)
EXTENDS BlkCache, TLC

CONSTANTS d1, d2

MCParts == [d \in Devs |-> IF d = d1 THEN {0} ELSE {0, 1}]
MCBlkSz == [d \in Devs |-> IF d = d1 THEN 1 ELSE 2]

Sym == Permutations(Slots)
=============================================================================
