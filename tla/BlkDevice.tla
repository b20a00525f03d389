----------------------------- MODULE BlkDevice -----------------------------
(***************************************************************************)
(* What the block layer promises its callers (file systems, partition      *)
(* code, the FWU metadata driver): a read that reports all its blocks      *)
(* returns what the selected hardware partition of the device holds, a     *)
(* write or an erase changes only the blocks it was asked to change.       *)
(* There is no cache here; BlkCache implements this module.                *)
(***************************************************************************)
EXTENDS Naturals

CONSTANTS Devs,    \* block devices, one per (uclass_id, devnum)
          Parts,   \* Parts[d]: the hardware partitions of d
          NBlks,   \* blocks per hardware partition
          Data,    \* block contents
          Erased   \* content of an erased block

VARIABLES disk,    \* disk[d][p][b]: what the medium holds
          hwpart,  \* hwpart[d]: the selected hardware partition
          ret      \* what the last call returned to its caller

Blks == 0 .. NBlks - 1

\* What the media can hold, and the partitions that can be selected.
Disks ==
  {f \in [Devs -> UNION {[Parts[d] -> [Blks -> Data]] : d \in Devs}] :
     \A d \in Devs : f[d] \in [Parts[d] -> [Blks -> Data]]}
Selections ==
  {f \in [Devs -> UNION {Parts[d] : d \in Devs}] : \A d \in Devs : f[d] \in Parts[d]}

\* A transfer of c blocks from block s that lies inside the device.
Inside(s, c) == c > 0 /\ s + c <= NBlks

\* The content of blocks s .. s+c-1 of the selected partition of d.
Content(d, s, c) == [i \in 0 .. c - 1 |-> disk[d][hwpart[d]][s + i]]

\* disk with the first n blocks from s on overwritten by v.
Overwritten(d, s, n, v) ==
  [disk EXCEPT ![d][hwpart[d]] =
     [b \in Blks |-> IF b >= s /\ b < s + n THEN v ELSE @[b]]]

\* What a call returns: a read all its blocks from s on, or nothing usable.
ReadOk(d, s, data) == [ok |-> TRUE, dev |-> d, start |-> s, data |-> data]
Done   == [ok |-> TRUE]
Failed == [ok |-> FALSE]

Init ==
  /\ disk \in Disks
  /\ hwpart \in Selections
  /\ ret = Failed

Read(d, s, c) ==
  /\ \/ Inside(s, c) /\ ret' = ReadOk(d, s, Content(d, s, c))
     \/ ret' = Failed
  /\ UNCHANGED <<disk, hwpart>>

\* A write may stop after any number of blocks, and may fail after the last.
Write(d, s, c, v) ==
  /\ \E n \in 0 .. c :
       /\ disk' = Overwritten(d, s, n, v)
       /\ \/ n = c /\ ret' = Done
          \/ ret' = Failed
  /\ UNCHANGED hwpart

SelectHwpart(d, p) ==
  /\ \/ hwpart' = [hwpart EXCEPT ![d] = p] /\ ret' = Done
     \/ hwpart' = hwpart /\ ret' = Failed
  /\ UNCHANGED disk

Next ==
  \E d \in Devs :
    \/ \E s \in Blks, c \in 1 .. NBlks :
         \/ Read(d, s, c)
         \/ Inside(s, c) /\ \E v \in Data \cup {Erased} : Write(d, s, c, v)
    \/ \E p \in Parts[d] : SelectHwpart(d, p)

vars == <<disk, hwpart, ret>>

Spec == Init /\ [][Next]_vars
=============================================================================
