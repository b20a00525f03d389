------------------------------ MODULE Transfer ------------------------------
(***************************************************************************)
(* What a file transfer over the network promises: the blocks of one       *)
(* source arrive in order, each once and at its own place in memory, and a *)
(* transfer that reports success has brought all of them.  It may start    *)
(* again from nothing, and it may fail.                                    *)
(***************************************************************************)
EXTENDS Naturals

CONSTANTS Blocks,    \* number of blocks of the file
          Room,      \* number of blocks of the memory
          Sources,   \* where the file may come from
          None       \* memory that nothing was stored to

VARIABLES status,    \* "idle", "running", "success" or "failure"
          memory,    \* memory[p]: <<source, block>>, or None
          source     \* where the blocks come from; None: none came yet

tvars == <<status, memory, source>>

Places == 0 .. Room - 1
Empty  == [p \in Places |-> None]

Begin ==
  /\ status # "running" /\ status' = "running"
  /\ memory' = Empty /\ source' = None

\* The next block is stored behind those that came before it.
Store(s) ==
  \E p \in Places :
    /\ status = "running"
    /\ p < Blocks /\ memory[p] = None /\ \A q \in 0 .. p - 1 : memory[q] # None
    /\ source \in {None, s} /\ source' = s
    /\ memory' = [memory EXCEPT ![p] = <<s, p + 1>>]
    /\ UNCHANGED status

Again ==
  /\ status = "running"
  /\ memory' = Empty /\ source' = None
  /\ UNCHANGED status

Succeed ==
  /\ status = "running" /\ status' = "success"
  /\ \A p \in Places : memory[p] # None <=> p < Blocks
  /\ UNCHANGED <<memory, source>>

Fail ==
  /\ status = "running" /\ status' = "failure"
  /\ UNCHANGED <<memory, source>>

Init == status = "idle" /\ memory = Empty /\ source = None

Next == Begin \/ (\E s \in Sources : Store(s)) \/ Again \/ Succeed \/ Fail

Spec == Init /\ [][Next]_tvars
=============================================================================
