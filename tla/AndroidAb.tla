----------------------------- MODULE AndroidAb -----------------------------
(***************************************************************************)
(* Selection of an Android A/B slot (boot/android_ab.c).  The bootloader   *)
(* control block on the "misc" partition says which slots can be booted;   *)
(* ab_select_slot() picks one, counts the attempt and writes the block     *)
(* back.  The operating system, which is not part of the repository, marks *)
(* slots and the power may be lost at any time.                            *)
(***************************************************************************)
EXTENDS Integers, FiniteSets

CONSTANTS NumSlots,     \* NUM_SLOTS
          ArraySize,    \* ARRAY_SIZE(abc->slot_info)
          MaxPriority,  \* priority of ab_control_default()
          MaxTries,     \* tries_remaining of ab_control_default()
          Configs       \* see Config

ASSUME SlotAssumption ==
  /\ NumSlots \in Nat \ {0} /\ ArraySize \in Nat /\ NumSlots <= ArraySize
  /\ MaxPriority \in Nat \ {0} /\ MaxTries \in Nat \ {0}

Slots == 0 .. ArraySize - 1
None == -1

\* struct slot_metadata
SlotInfo == [priority : 0 .. MaxPriority, tries : 0 .. MaxTries,
             successful : BOOLEAN, corrupted : BOOLEAN]

\* struct bootloader_control: crc says whether the CRC-32 fits, known whether
\* magic and version are those of this code.
Control == [crc : BOOLEAN, known : BOOLEAN, nb : 0 .. ArraySize + 1,
            suffix : Slots \cup {None}, info : [Slots -> SlotInfo]]

\* faults: the writes that fail ("store"), the writes the loss of power leaves
\* half done ("torn"), reads that return an error ("error") or fewer blocks than
\* asked for ("short").  good: the slots whose system comes up.  resets, updates:
\* how often the power is lost, and how often the system changes the block.
\* onlyMark: the system marks a boot successful and leaves tries_remaining.
Config == [faults : SUBSET {"store", "torn", "error", "short"}, good : SUBSET Slots,
           resets : Nat, updates : Nat, onlyMark : BOOLEAN]

ASSUME ConfigAssumption == Configs \subseteq Config

VARIABLES conf,
          disk,       \* the block on the partition
          abc,        \* the block in memory
          pc,         \* "uboot", "store", "chosen", "os" or "repair"
          slot,       \* the slot selected last, or None
          resets, updates,
          loaded,     \* history: the block that was selected from
          attempts    \* history: boots of a slot not yet marked successful
                      \* since it was given tries, counted to MaxTries + 1

vars == <<conf, disk, abc, pc, slot, resets, updates, loaded, attempts>>

Zero == [s \in Slots |-> 0]
Garbage == [crc |-> FALSE, known |-> FALSE, nb |-> 0, suffix |-> None,
            info |-> [s \in Slots |-> [priority |-> 0, tries |-> 0,
                                       successful |-> FALSE, corrupted |-> FALSE]]]
-----------------------------------------------------------------------------
\* ab_control_default(): the slots past NUM_SLOTS keep what was in memory.
ControlDefault(a) ==
  [crc |-> TRUE, known |-> TRUE, nb |-> NumSlots, suffix |-> 0,
   info |-> [s \in Slots |->
              IF s < NumSlots
              THEN [priority |-> MaxPriority, tries |-> MaxTries,
                    successful |-> FALSE, corrupted |-> FALSE]
              ELSE a.info[s]]]

\* Mutant: the slot with fewer tries left is taken.
CompareFewerTries(a, b) ==
  IF a.priority # b.priority THEN b.priority - a.priority
  ELSE IF a.successful # b.successful THEN (IF b.successful THEN 1 ELSE -1)
  ELSE a.tries - b.tries

\* ab_compare_slots(): negative if a is better
CompareSlots(a, b) ==
  IF a.priority # b.priority THEN b.priority - a.priority
  ELSE IF a.successful # b.successful THEN (IF b.successful THEN 1 ELSE -1)
  ELSE b.tries - a.tries

\* The test of the loop
Bootable(i) == ~i.corrupted /\ i.tries > 0

\* The loop over the first n slots
Best(a, n) ==
  LET best[i \in 0 .. n] ==
        IF i = 0 THEN None
        ELSE IF Bootable(a.info[i - 1])
                /\ (best[i - 1] = None
                    \/ CompareSlots(a.info[i - 1], a.info[best[i - 1]]) < 0)
        THEN i - 1 ELSE best[i - 1] IN
  best[n]

\* Mutant: an attempt is counted only if something else is to be stored.
SelectNoCount(a) ==
  LET valid   == IF a.crc THEN a ELSE ControlDefault(a)
      limited == [valid EXCEPT !.nb = IF @ > ArraySize THEN ArraySize ELSE @]
      s       == Best(limited, limited.nb)
      marked  == IF s = None THEN limited ELSE [limited EXCEPT !.suffix = s]
      try     == s # None /\ ~limited.info[s].successful /\ marked # a
      counted == IF try THEN [marked EXCEPT !.info[s].tries = @ - 1] ELSE marked IN
  IF ~valid.known THEN [abc |-> valid, slot |-> None, store |-> FALSE]
  ELSE [abc |-> counted, slot |-> s, store |-> counted # a]

\* Mutant: corrupted slots are tried again when no slot can be booted.
SelectRevives(a) ==
  LET whole   == IF a.crc THEN a ELSE ControlDefault(a)
      limited == [whole EXCEPT !.nb = IF @ > ArraySize THEN ArraySize ELSE @]
      revived == [limited EXCEPT !.info = [s \in Slots |-> [@[s] EXCEPT !.corrupted = FALSE]]]
      valid   == IF Best(limited, limited.nb) = None THEN revived ELSE limited
      s       == Best(valid, valid.nb)
      marked  == IF s = None THEN valid ELSE [valid EXCEPT !.suffix = s]
      try     == s # None /\ ~valid.info[s].successful
      counted == IF try THEN [marked EXCEPT !.info[s].tries = @ - 1] ELSE marked IN
  IF ~whole.known THEN [abc |-> whole, slot |-> None, store |-> FALSE]
  ELSE [abc |-> counted, slot |-> s, store |-> counted # a]

\* ab_select_slot() on the block a: the block to write, the slot, and whether it
\* has to be written.
Select(a) ==
  LET valid   == IF a.crc THEN a ELSE ControlDefault(a)
      limited == [valid EXCEPT !.nb = IF @ > ArraySize THEN ArraySize ELSE @]
      s       == Best(limited, limited.nb)
      marked  == IF s = None THEN limited ELSE [limited EXCEPT !.suffix = s]
      try     == s # None /\ ~limited.info[s].successful
      counted == IF try THEN [marked EXCEPT !.info[s].tries = @ - 1] ELSE marked IN
  IF ~valid.known THEN [abc |-> valid, slot |-> None, store |-> FALSE]
  ELSE [abc |-> counted, slot |-> s, store |-> counted # a]
-----------------------------------------------------------------------------
Init ==
  /\ conf \in Configs
  /\ LET fresh == ControlDefault(Garbage)
         large == [fresh EXCEPT !.nb = ArraySize + 1, !.info = [s \in Slots |-> fresh.info[0]]] IN
     disk \in {fresh, large, Garbage, [fresh EXCEPT !.known = FALSE]}
  /\ abc = Garbage /\ loaded = Garbage
  /\ pc = "uboot" /\ slot = None
  /\ resets = 0 /\ updates = 0
  /\ attempts = Zero

\* What ab_control_create_from_disk() may put into abc.  A read that returns
\* fewer blocks is not an error to IS_ERR_VALUE(): the memory is as malloc() gave
\* it, possibly with the block that was freed there.
Readable == {disk} \cup (IF "short" \in conf.faults THEN {Garbage, abc} ELSE {})

\* ab_select_slot() up to the write
SelectSlot(a) ==
  /\ pc = "uboot"
  /\ LET r == Select(a) IN
     /\ abc' = r.abc /\ slot' = r.slot
     /\ pc' = IF r.store THEN "store" ELSE IF r.slot = None THEN "repair" ELSE "chosen"
  /\ loaded' = a
  /\ UNCHANGED <<conf, disk, resets, updates, attempts>>

\* ab_control_create_from_disk() returns an error.
ReadError ==
  /\ pc = "uboot" /\ "error" \in conf.faults
  /\ pc' = "repair" /\ slot' = None /\ loaded' = Garbage
  /\ UNCHANGED <<conf, disk, abc, resets, updates, attempts>>

\* Mutant: a slot other than the last one is stored and not booted.
StoreStops ==
  /\ pc = "store"
  /\ disk' \in {abc} \cup (IF "store" \in conf.faults THEN {disk} ELSE {})
  /\ pc' = IF slot = None \/ slot # disk.suffix THEN "repair" ELSE "chosen"
  /\ UNCHANGED <<conf, abc, slot, resets, updates, loaded, attempts>>

\* ab_control_store(); nothing looks at its result.
Store ==
  /\ pc = "store"
  /\ disk' \in {abc} \cup (IF "store" \in conf.faults THEN {disk} ELSE {})
  /\ pc' = IF slot = None THEN "repair" ELSE "chosen"
  /\ UNCHANGED <<conf, abc, slot, resets, updates, loaded, attempts>>

\* The slot is booted.
Boot ==
  /\ pc = "chosen"
  /\ pc' = "os"
  /\ attempts' = [attempts EXCEPT ![slot] =
                    IF loaded.info[slot].successful \/ @ > MaxTries THEN @ ELSE @ + 1]
  /\ UNCHANGED <<conf, disk, abc, slot, resets, updates, loaded>>

\* "ab_select" is given once more on the command line.
Again ==
  /\ pc \in {"chosen", "repair"}
  /\ resets < conf.resets
  /\ resets' = resets + 1
  /\ pc' = "uboot"
  /\ UNCHANGED <<conf, disk, abc, slot, updates, loaded, attempts>>

Reset == pc' = "uboot" /\ abc' = Garbage /\ loaded' = Garbage /\ slot' = None

\* The power is lost, perhaps while the block is written.
PowerOff ==
  /\ resets < conf.resets
  /\ resets' = resets + 1
  /\ disk' \in {disk} \cup (IF pc = "store" THEN {abc} ELSE {})
               \cup (IF pc = "store" /\ "torn" \in conf.faults
                     THEN {[abc EXCEPT !.crc = FALSE]} ELSE {})
  /\ Reset
  /\ UNCHANGED <<conf, updates, attempts>>
-----------------------------------------------------------------------------
\* The system of a slot that does not come up is reset by the watchdog.
SystemFails ==
  /\ pc = "os" /\ slot \notin conf.good
  /\ Reset
  /\ UNCHANGED <<conf, disk, resets, updates, attempts>>

\* The system that came up marks its slot, and with it one more try.
MarkSuccessful ==
  /\ pc = "os" /\ slot \in conf.good
  /\ disk.crc /\ ~disk.info[slot].successful
  /\ disk' = [disk EXCEPT !.info[slot].successful = TRUE,
                          !.info[slot].tries = IF conf.onlyMark THEN @ ELSE 1]
  /\ UNCHANGED <<conf, abc, pc, slot, resets, updates, loaded, attempts>>

\* The system installs an update in slot s and makes it the active one.
SetActive(s) ==
  /\ pc = "os" /\ slot \in conf.good /\ s # slot
  /\ disk.crc /\ updates < conf.updates
  /\ updates' = updates + 1
  /\ disk' = [disk EXCEPT !.info = [t \in Slots |->
       IF t = s THEN [priority |-> MaxPriority, tries |-> MaxTries,
                      successful |-> FALSE, corrupted |-> FALSE]
       ELSE [disk.info[t] EXCEPT !.priority = IF @ = MaxPriority THEN @ - 1 ELSE @]]]
  /\ attempts' = [attempts EXCEPT ![s] = 0]
  /\ UNCHANGED <<conf, abc, pc, slot, resets, loaded>>

\* The system finds its slot corrupted and restarts.
MarkCorrupted ==
  /\ pc = "os"
  /\ disk.crc /\ updates < conf.updates
  /\ updates' = updates + 1
  /\ disk' = [disk EXCEPT !.info[slot].corrupted = TRUE]
  /\ Reset
  /\ UNCHANGED <<conf, resets, attempts>>

Next ==
  \/ \E a \in Readable : SelectSlot(a)
  \/ ReadError
  \/ Store
  \/ Boot
  \/ Again
  \/ PowerOff
  \/ SystemFails
  \/ MarkSuccessful
  \/ \E s \in 0 .. NumSlots - 1 : SetActive(s)
  \/ MarkCorrupted

\* U-Boot goes on once it runs, and a system that does not come up is reset.
Fairness ==
  /\ WF_vars(\E a \in Readable : SelectSlot(a)) /\ WF_vars(Store) /\ WF_vars(Boot)
  /\ WF_vars(SystemFails)

Spec == Init /\ [][Next]_vars /\ Fairness
-----------------------------------------------------------------------------
Limit(a) == IF a.nb > ArraySize THEN ArraySize ELSE a.nb

\* The blocks are control blocks, and a selected slot lies in the array.
TypeOK ==
  /\ conf \in Config
  /\ {disk, abc, loaded} \subseteq Control
  /\ pc \in {"uboot", "store", "chosen", "os", "repair"}
  /\ slot \in Slots \cup {None}
  /\ pc \in {"chosen", "os"} => slot # None
  /\ attempts \in [Slots -> 0 .. MaxTries + 1]

\* "decrement the tries_remaining until it eventually becomes unbootable": a slot
\* whose boots are not marked successful is booted at most as often as it was
\* given tries, whatever is interrupted, if the writes succeed.
TriesCounted ==
  /\ TypeOK
  /\ conf.faults \subseteq {"error"} =>
       \A s \in Slots : disk.crc /\ ~disk.info[s].successful =>
         attempts[s] + disk.info[s].tries <= MaxTries

\* "Higher tries_remaining is better to ensure round-robin": until the system
\* changes the block, of slots that are not marked successful none falls behind by
\* more than one boot, and one for each time that a slot was selected and counted
\* but not booted, because the power was lost or "ab_select" was given once more.
\* The writes succeed and are not torn, and a read is whole or fails.
RoundRobin ==
  conf.faults \subseteq {"error"} /\ updates = 0 =>
    \A s, t \in 0 .. Limit(disk) - 1 :
      ~disk.info[s].successful /\ ~disk.info[t].successful =>
        attempts[s] <= attempts[t] + 1 + resets

\* The default is not used "when a valid message indicates that all slots are
\* unbootable": U-Boot does not make a slot of such a block bootable again.
DeadStaysDead ==
  [][conf.faults \subseteq {"error", "store"} /\ pc # "os" /\ disk.crc
     /\ (\A s \in 0 .. Limit(disk) - 1 : ~Bootable(disk.info[s]))
     => disk'.info = disk.info]_vars

\* "a bootloader induced rollback": while there is a slot that comes up, was
\* marked successful and can be booted, a slot that comes up is running again
\* after finitely many resets.
Rollback ==
  conf.faults \subseteq {"torn"} =>
  ((\E s \in conf.good \cap 0 .. Limit(disk) - 1 :
      disk.crc /\ disk.known /\ disk.info[s].successful /\ Bootable(disk.info[s]))
   ~> (pc = "os" /\ slot \in conf.good))

\* "Signal a repair mode and do not try to boot from either slot": when the block
\* could not be read, no slot is selected from it.
ReadErrorStops == pc \in {"store", "chosen"} /\ ~loaded.crc => ~disk.crc

\* "either has tries_remaining > 0 or successful_boot is true": a slot marked
\* successful and not corrupted can be booted.
SuccessfulBootable ==
  pc = "repair" /\ conf.faults = {} /\ disk.known =>
    \A s \in 0 .. Limit(disk) - 1 : disk.info[s].successful => disk.info[s].corrupted
=============================================================================
