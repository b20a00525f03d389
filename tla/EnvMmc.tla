------------------------------- MODULE EnvMmc -------------------------------
(***************************************************************************)
(* The environment in two copies on an MMC device (env/mmc.c with          *)
(* CONFIG_SYS_REDUNDAND_ENVIRONMENT), its serial number (env/common.c) and *)
(* the env commands that drive it (env/env.c), under power loss at any     *)
(* step.  The serial number of a copy, the unsigned char env_t.flags,      *)
(* wraps at SerialMod.                                                     *)
(*                                                                         *)
(* A copy that is only partly written fails its CRC.                       *)
(***************************************************************************)
EXTENDS Naturals

CONSTANTS Vals,        \* environment contents
          Default,     \* default_environment
          SerialMod,   \* number of serial numbers, 256
          Configs      \* configurations of the board, a subset of Config

\* nodev: a load finds no usable device; read: it cannot read one of the
\* copies; import: no memory for the hash table; open: a save or an erase finds
\* no device, or nothing can be exported; switch: a save or an erase cannot
\* select the hardware partition; write: a write stops early; report: a write
\* that stored every block is reported as failed.
Failures == {"nodev", "read", "import", "open", "switch", "write", "report", "erase"}

\* fails: what may go wrong; hwRedund: ENV_MMC_HWPART_REDUND, one boot
\* partition per copy; twoLocations: MMC is one of two environment locations.
Config == [fails : SUBSET Failures, hwRedund : BOOLEAN, twoLocations : BOOLEAN]

ASSUME EnvMmcAssumption ==
  /\ SerialMod \in Nat /\ SerialMod >= 3
  /\ Default \in Vals
  /\ Configs \subseteq Config

VARIABLES conf,      \* the configuration, chosen once
          copy,      \* copy[i]: what the medium holds at offset i
          pc,        \* where the program is; "off": no power
          env,       \* env_htab
          env_valid, \* gd->env_valid
          env_flags, \* the static serial number of common.c
          ret,       \* result of the last env_load, env_save or env_erase
          good       \* history: the contents a boot may come up with

ram  == <<env, env_valid, env_flags>>
vars == <<conf, copy, pc, env, env_valid, env_flags, ret, good>>

Copies == {0, 1}
Bad    == [crc |-> "bad"]
Ok(i)  == copy[i].crc = "ok"
Stored(s, v) == [crc |-> "ok", flags |-> s, val |-> v]
-----------------------------------------------------------------------------
\* Mutant: the wrap of the serial number is not considered.
NewerNoWrap(f0, f1) == IF f1 > f0 THEN 1 ELSE 0

\* env_check_redund(), both CRCs good: the copy with the later serial.
Newer(f0, f1) ==
  IF f0 = SerialMod - 1 /\ f1 = 0 THEN 1
  ELSE IF f1 = SerialMod - 1 /\ f0 = 0 THEN 0
  ELSE IF f0 > f1 THEN 0
  ELSE IF f1 > f0 THEN 1
  ELSE 0

\* env_check_redund(): the copy to import, of the readable ones; 2 is none.
Chosen(readable) ==
  LET ok(i) == i \in readable /\ Ok(i) IN
  IF ~ok(0) /\ ~ok(1) THEN 2
  ELSE IF ~ok(1) THEN 0
  ELSE IF ~ok(0) THEN 1
  ELSE Newer(copy[0].flags, copy[1].flags)

\* The content a boot comes up with if nothing fails.
BootsWith == IF Chosen(Copies) = 2 THEN Default ELSE copy[Chosen(Copies)].val

MayFail(f) == f \in conf.fails

\* env_mmc_load() and env_import_redund(), with what they leave in env_valid
\* and env_flags given by the values v and f they find there.
LoadFrom(v, f, readable) ==
  LET c == Chosen(readable) IN
  /\ IF c = 2
     THEN env' = Default /\ env_valid' = v /\ env_flags' = f /\ ret' = "failed"
     ELSE /\ env_valid' = IF c = 0 THEN "VALID" ELSE "REDUND"
          /\ env_flags' = copy[c].flags
          /\ \/ env' = copy[c].val /\ ret' = "ok"
             \/ MayFail("import") /\ env' = Default /\ ret' = "failed"
  /\ good' = IF readable = Copies THEN {BootsWith} ELSE good

\* The sets of copies a load may be able to read.
Readable ==
  {Copies} \cup (IF MayFail("read") THEN {{0}, {1}} ELSE {})
           \cup (IF MayFail("nodev") THEN {{}} ELSE {})

\* Power comes on: env_init() finds no init for MMC and leaves ENV_VALID, the
\* serial number is zero, and env_relocate() loads the environment.
PowerOn ==
  /\ pc = "off"
  /\ \E r \in Readable : LoadFrom("VALID", 0, r)
  /\ pc' = "ready" /\ UNCHANGED copy

\* env_reload(), the command "env load"
Reload ==
  /\ pc = "ready"
  /\ \E r \in Readable : LoadFrom(env_valid, env_flags, r)
  /\ UNCHANGED <<copy, pc>>

\* Any change of the variables in RAM
SetEnv(v) ==
  /\ pc = "ready"
  /\ env' = v
  /\ UNCHANGED <<copy, pc, env_valid, env_flags, ret, good>>

\* env_select() of the other location and back: twice a change of priority.
Select ==
  /\ pc = "ready" /\ conf.twoLocations
  /\ env_valid' = "INVALID"
  /\ UNCHANGED <<copy, pc, env, env_flags, ret, good>>
-----------------------------------------------------------------------------
\* Mutant: the copy that env_valid names is overwritten.
TargetActive == IF env_valid = "VALID" THEN 0 ELSE 1

\* The copy env_mmc_save() writes.
Target == IF env_valid = "VALID" THEN 1 ELSE 0

\* env_export(): the serial number is increased.
Export == env_flags' = (env_flags + 1) % SerialMod

\* env_mmc_save() up to the first block of the write.
SaveStart ==
  /\ pc = "ready"
  /\ Export
  /\ copy' = [copy EXCEPT ![Target] = Bad]
  /\ pc' = "writing"
  /\ good' = good \cup {env}
  /\ UNCHANGED <<env, env_valid, ret>>

\* env_mmc_save() without effect on the medium: no device, before the export;
\* no partition, or no block written, after it.
SaveNot ==
  /\ pc = "ready"
  /\ \/ MayFail("open") /\ UNCHANGED env_flags
     \/ ((conf.hwRedund /\ MayFail("switch")) \/ MayFail("write")) /\ Export
  /\ ret' = "failed"
  /\ UNCHANGED <<copy, pc, env, env_valid, good>>

\* The write reports an error, after some blocks or after the last.
SaveFail ==
  /\ \/ pc = "writing" /\ MayFail("write")
     \/ pc = "written" /\ MayFail("report")
  /\ pc' = "ready" /\ ret' = "failed"
  /\ UNCHANGED <<copy, env, env_valid, env_flags, good>>

\* The last block is on the medium.
SaveWrite ==
  /\ pc = "writing"
  /\ copy' = [copy EXCEPT ![Target] = Stored(env_flags, env)]
  /\ pc' = "written"
  /\ UNCHANGED <<env, env_valid, env_flags, ret, good>>

\* env_mmc_save() returns to its caller.
SaveReturn ==
  /\ pc = "written"
  /\ env_valid' = IF env_valid = "REDUND" THEN "VALID" ELSE "REDUND"
  /\ pc' = "ready" /\ ret' = "saved" /\ good' = {env}
  /\ UNCHANGED <<copy, env, env_flags>>
-----------------------------------------------------------------------------
\* An erase of copy i that fails may have erased it or not.
EraseFails(i) == MayFail("erase") /\ copy' \in {copy, [copy EXCEPT ![i] = Bad]}

\* env_mmc_erase(): copy 0, then copy 1.  With one boot partition per copy the
\* result of the first erase is overwritten by that of the partition switch.
EraseFirst ==
  /\ pc = "ready"
  /\ \/ /\ copy' = [copy EXCEPT ![0] = Bad] /\ pc' = "erasing"
        /\ good' = Vals /\ UNCHANGED ret
     \/ /\ EraseFails(0) /\ pc' = IF conf.hwRedund THEN "erasing" ELSE "erasing_failed"
        /\ good' = Vals /\ UNCHANGED ret
     \/ /\ MayFail("open") /\ ret' = "failed"
        /\ UNCHANGED <<copy, pc, good>>
  /\ UNCHANGED ram

\* Mutant: only the second erase decides the result.
EraseSecondOnly ==
  /\ pc \in {"erasing", "erasing_failed"}
  /\ \/ copy' = [copy EXCEPT ![1] = Bad] /\ ret' = "erased"
     \/ MayFail("erase") /\ UNCHANGED copy /\ ret' = "failed"
  /\ pc' = "ready"
  /\ good' = Vals
  /\ UNCHANGED ram

\* env_mmc_erase(), the second copy: any error reported so far is returned.
EraseSecond ==
  /\ pc \in {"erasing", "erasing_failed"}
  /\ \/ /\ copy' = [copy EXCEPT ![1] = Bad]
        /\ ret' = IF pc = "erasing" THEN "erased" ELSE "failed"
     \/ EraseFails(1) /\ ret' = "failed"
     \/ conf.hwRedund /\ MayFail("switch") /\ UNCHANGED copy /\ ret' = "failed"
  /\ pc' = "ready"
  /\ good' = Vals
  /\ UNCHANGED ram

\* Power is lost, between any two steps; RAM is lost with it.
PowerOff ==
  /\ pc # "off"
  /\ pc' = "off" /\ env' = Default /\ env_valid' = "VALID" /\ env_flags' = 0
  /\ ret' = "none"
  /\ UNCHANGED <<copy, good>>

\* A medium on which no environment was ever stored.
Init ==
  /\ conf \in Configs
  /\ copy = [i \in Copies |-> Bad]
  /\ pc = "off" /\ env = Default /\ env_valid = "VALID" /\ env_flags = 0
  /\ ret = "none"
  /\ good = {Default}

Next ==
  /\ \/ PowerOn \/ Reload \/ Select \/ PowerOff
     \/ \E v \in Vals : SetEnv(v)
     \/ SaveStart \/ SaveNot \/ SaveFail \/ SaveWrite \/ SaveReturn
     \/ EraseFirst \/ EraseSecond
  /\ UNCHANGED conf

Spec == Init /\ [][Next]_vars
-----------------------------------------------------------------------------
\* The serial number stays a byte, in RAM and on the medium, and env_valid is
\* one of the values the load and save paths test.
TypeOK ==
  /\ conf \in Configs
  /\ copy \in [Copies -> {Bad} \cup
                [crc : {"ok"}, flags : 0 .. SerialMod - 1, val : Vals]]
  /\ pc \in {"off", "ready", "writing", "written", "erasing", "erasing_failed"}
  /\ env \in Vals
  /\ env_valid \in {"VALID", "REDUND", "INVALID"}
  /\ env_flags \in 0 .. SerialMod - 1
  /\ ret \in {"none", "ok", "failed", "saved", "erased"}
  /\ good \subseteq Vals

\* The only errors are those that stop a call before it changes anything but
\* env_htab, and MMC is the only location.
Reliable == conf.fails \subseteq {"import", "open"} /\ ~conf.twoLocations

\* As Reliable, but writes may also stop early.
SavesMayFail == conf.fails \subseteq {"import", "open", "write"} /\ ~conf.twoLocations

\* Wherever the power fails, the next boot comes up with the environment saved
\* last or with the one whose save was interrupted (env/Kconfig: "a valid
\* backup copy in case there is a power failure during a saveenv operation"),
\* also when the serial number wraps.
PowerFailSafe == Reliable => BootsWith \in good

\* env_save() reported success: a boot comes up with that environment.
SavedMeansStored == pc = "ready" /\ ret = "saved" => BootsWith \in good

\* A save never touches a valid copy when that is the only one, also after saves
\* that failed half way, as long as copies can be read, erases work, a write is
\* not reported as failed when it stored everything, and MMC is the only location:
\* what env_valid says about the copies is never wrong in the dangerous direction.
KeepsLastCopy ==
  [][ (SavesMayFail /\ pc = "ready" /\ pc' = "writing" /\ \E i \in Copies : Ok(i))
      => \E i \in Copies : Ok(i)' ]_vars

\* env_erase() reported success: both copies are erased, whatever failed, unless
\* each copy has a boot partition of its own.
ErasedMeansErased ==
  ~conf.hwRedund /\ pc = "ready" /\ ret = "erased" => Chosen(Copies) = 2
=============================================================================
