------------------------------ MODULE EnvFlash ------------------------------
(***************************************************************************)
(* The environment in NOR flash (env/flash.c): in two sectors with a flag  *)
(* byte that says which is in use (CONFIG_ENV_ADDR_REDUND), or in a single *)
(* one, under power loss between any two flash operations.                 *)
(*                                                                         *)
(* The static pointer flash_addr names sector cur, flash_addr_new the      *)
(* other one.  A sector that is not completely written fails its CRC.      *)
(***************************************************************************)
EXTENDS Naturals

CONSTANTS Vals,         \* environment contents
          Default,      \* default_environment
          Configs       \* configurations of the board, a subset of Config

Failures == {"protect", "export", "malloc", "erase", "write", "flag", "restore"}

\* fails: what may go wrong; single: no CONFIG_ENV_ADDR_REDUND; larger:
\* CONFIG_ENV_SECT_SIZE > CONFIG_ENV_SIZE; cmdLoad: CONFIG_CMD_NVEDIT_LOAD.
Config == [fails : SUBSET Failures, single : BOOLEAN, larger : BOOLEAN, cmdLoad : BOOLEAN]

ASSUME EnvFlashAssumption ==
  /\ Default \in Vals
  /\ Configs \subseteq Config

VARIABLES conf,     \* the configuration, chosen once
          sect,     \* sect[i]: CRC, flags and data of sector i
          pc,       \* the next flash operation; "off": no power
          cur,      \* flash_addr
          env_addr, \* gd->env_addr: the sector found by init, 2: the default
          env,      \* env_htab
          ret,      \* result of the last env_load or env_save
          good      \* history: the contents a boot may come up with

vars == <<conf, sect, pc, cur, env_addr, env, ret, good>>

Sectors == {0, 1}
Blank == [crc |-> "bad", flag |-> "erased", val |-> Default]
Torn  == [crc |-> "bad", flag |-> "active", val |-> Default]
Ok(i) == sect[i].crc = "ok"
new   == 1 - cur                    \* flash_addr_new

\* The sector a save erases and writes.
Target == IF conf.single THEN cur ELSE new

MayFail(f) == f \in conf.fails
-----------------------------------------------------------------------------
\* env_flash_init(), and env_init() if it finds no valid sector.
Found ==
  IF conf.single THEN (IF Ok(0) THEN 0 ELSE 2)
  ELSE IF Ok(0) /\ ~Ok(1) THEN 0
  ELSE IF ~Ok(0) /\ Ok(1) THEN 1
  ELSE IF ~Ok(0) /\ ~Ok(1) THEN 2
  ELSE IF sect[0].flag = "active" /\ sect[1].flag = "obsolete" THEN 0
  ELSE IF sect[0].flag = "obsolete" /\ sect[1].flag = "active" THEN 1
  ELSE IF sect[0].flag = sect[1].flag \/ sect[0].flag = "erased" THEN 0
  ELSE 1

\* The content a boot comes up with.
BootsWith == IF Found = 2 THEN Default ELSE sect[Found].val

\* Reset: env_init() runs env_flash_init(), the pointers are the linked ones.
PowerOn ==
  /\ pc = "off"
  /\ env_addr' = Found /\ cur' = 0
  /\ pc' = "load"
  /\ UNCHANGED <<sect, env, ret, good>>

\* env_reload(), the command "env load": the load without the init.
Reload ==
  /\ pc = "ready" /\ conf.cmdLoad
  /\ pc' = "load"
  /\ UNCHANGED <<sect, cur, env_addr, env, ret, good>>

\* Mutant: the pointers stay, whichever sector init found.
LoadMarkStay ==
  /\ pc = "load"
  /\ sect' = IF Ok(new) THEN [sect EXCEPT ![new].flag = "obsolete"] ELSE sect
  /\ pc' = "activate"
  /\ UNCHANGED <<cur, env_addr, env, ret, good>>

\* env_flash_load(): the pointers are swapped to the sector init found, and a
\* valid other sector is marked obsolete.  The result of the flash write is
\* not looked at.  With a single sector there is nothing to do.
LoadMark ==
  LET c == IF ~conf.single /\ env_addr # cur THEN new ELSE cur IN
  /\ pc = "load"
  /\ cur' = c
  /\ IF ~conf.single /\ Ok(1 - c) /\ sect[1 - c].flag # "obsolete"
     THEN \/ sect' = [sect EXCEPT ![1 - c].flag = "obsolete"]
          \/ MayFail("flag") /\ UNCHANGED sect
     ELSE UNCHANGED sect
  /\ pc' = "activate"
  /\ UNCHANGED <<env_addr, env, ret, good>>

\* env_flash_load(): an erased flag is made active, and the data is imported.
LoadActivate ==
  /\ pc = "activate"
  /\ IF ~conf.single /\ sect[cur].flag = "erased"
     THEN \/ sect' = [sect EXCEPT ![cur].flag = "active"]
          \/ MayFail("flag") /\ UNCHANGED sect
     ELSE UNCHANGED sect
  /\ env' = IF Ok(cur) THEN sect[cur].val ELSE Default
  /\ good' = IF env' \in good THEN {env'} ELSE good
  /\ ret' = IF Ok(cur) THEN "loaded" ELSE "failed"
  /\ pc' = "ready"
  /\ UNCHANGED <<cur, env_addr>>

\* Any change of the variables in RAM
SetEnv(v) ==
  /\ pc = "ready"
  /\ env' = v /\ ret' = "none"
  /\ UNCHANGED <<sect, pc, cur, env_addr, good>>
-----------------------------------------------------------------------------
\* env_flash_save() returns r; a zero rc, "saved", is reported as success.
Return(r) ==
  /\ pc' = "ready" /\ ret' = r
  /\ good' = IF r = "saved" THEN {env} ELSE good

\* Up to the erase: protection, export and, for a larger sector, a buffer for
\* the rest of it.  rc is 0 from the export on; with a single sector the buffer
\* comes first.  From here on a single sector may be lost.
SaveStart ==
  /\ pc = "ready"
  /\ \/ /\ pc' = "erase" /\ UNCHANGED ret
        /\ good' = good \cup {env} \cup (IF conf.single THEN {Default} ELSE {})
     \/ (MayFail("protect") \/ MayFail("export")) /\ Return("failed")
     \/ conf.larger /\ MayFail("malloc") /\ Return(IF conf.single THEN "failed" ELSE "saved")
  /\ UNCHANGED <<sect, cur, env_addr, env>>

\* Mutant: the sector is not erased before it is written.
SaveEraseNot ==
  /\ pc = "erase"
  /\ pc' = "write"
  /\ UNCHANGED <<sect, cur, env_addr, env, ret, good>>

\* Mutant: the sector in use is erased.
SaveEraseCur ==
  /\ pc = "erase"
  /\ sect' = [sect EXCEPT ![cur] = Blank] /\ pc' = "write"
  /\ UNCHANGED <<cur, env_addr, env, ret, good>>

\* A failed erase may have erased the sector or not; rc is still 0.
SaveErase ==
  /\ pc = "erase"
  /\ \/ sect' = [sect EXCEPT ![Target] = Blank] /\ pc' = "write" /\ UNCHANGED <<ret, good>>
     \/ /\ MayFail("erase") /\ Return("saved")
        /\ sect' = [sect EXCEPT ![Target] = Blank] \/ UNCHANGED sect
  /\ UNCHANGED <<cur, env_addr, env>>

Written == [sect EXCEPT ![Target] = [crc |-> "ok", flag |-> "active", val |-> env]]

\* The pointers are swapped and rc is 0.
SaveDone == cur' = Target /\ Return("saved")

\* What is left to do once the environment and its flag are written.
SaveRest == IF conf.larger THEN pc' = "restore" /\ UNCHANGED <<cur, ret, good>> ELSE SaveDone

\* A write that reports an error may have stopped anywhere.
SaveWrite ==
  /\ pc = "write"
  /\ \/ /\ sect' = Written
        /\ IF conf.single THEN SaveRest ELSE pc' = "flag" /\ UNCHANGED <<cur, ret, good>>
     \/ /\ MayFail("write") /\ Return("failed") /\ UNCHANGED cur
        /\ sect' \in {sect, Written, [sect EXCEPT ![Target] = Torn]}
  /\ UNCHANGED <<env_addr, env>>

\* The sector used so far becomes obsolete; a write of the flag that reports an
\* error may have programmed it or not.
SaveFlag ==
  /\ pc = "flag"
  /\ \/ /\ sect' = [sect EXCEPT ![cur].flag = "obsolete"]
        /\ SaveRest
     \/ /\ MayFail("flag") /\ Return("failed") /\ UNCHANGED cur
        /\ sect' \in {sect, [sect EXCEPT ![cur].flag = "obsolete"]}
  /\ UNCHANGED <<env_addr, env>>

\* The rest of a larger sector is written back; on an error rc is still 0.
SaveRestore ==
  /\ pc = "restore"
  /\ SaveDone \/ (MayFail("restore") /\ Return("saved") /\ UNCHANGED cur)
  /\ UNCHANGED <<sect, env_addr, env>>

\* Power is lost; a write that was going on may have stopped anywhere.
PowerOff ==
  /\ pc # "off"
  /\ \/ UNCHANGED sect
     \/ pc = "write" /\ sect' = [sect EXCEPT ![Target] = Torn]
  /\ pc' = "off" /\ cur' = 0 /\ env_addr' = 2 /\ env' = Default /\ ret' = "none"
  /\ UNCHANGED good

\* Erased flash.
Init ==
  /\ conf \in Configs
  /\ sect = [i \in Sectors |-> Blank]
  /\ pc = "off" /\ cur = 0 /\ env_addr = 2 /\ env = Default /\ ret = "none"
  /\ good = {Default}

Next ==
  /\ \/ PowerOn \/ Reload \/ LoadMark \/ LoadActivate \/ PowerOff
     \/ \E v \in Vals : SetEnv(v)
     \/ SaveStart \/ SaveErase \/ SaveWrite \/ SaveFlag \/ SaveRestore
  /\ UNCHANGED conf

Spec == Init /\ [][Next]_vars
-----------------------------------------------------------------------------
\* flash_addr is always one of the two sectors, and a flag byte holds one of
\* its three values.
TypeOK ==
  /\ conf \in Configs
  /\ sect \in [Sectors -> [crc : {"ok", "bad"}, val : Vals,
                           flag : {"erased", "active", "obsolete"}]]
  /\ pc \in {"off", "load", "activate", "ready", "erase", "write", "flag", "restore"}
  /\ cur \in Sectors /\ env_addr \in {0, 1, 2}
  /\ env \in Vals
  /\ ret \in {"none", "loaded", "failed", "saved"}
  /\ good \subseteq Vals

\* The errors that env_flash_save() reports, or that come after the
\* environment is complete.
Reported ==
  {"protect", "export", "write", "flag"}
    \cup (IF conf.single THEN {"malloc", "restore"} ELSE {})

\* No other error happens (flash.c leaves with rc 0 when a sector cannot be erased,
\* :166, and with two sectors when there is no memory for what shares the sector,
\* :150), and flash_addr follows what init found: no "env load" with two sectors.
Sound == conf.fails \subseteq Reported /\ (conf.cmdLoad => conf.single)

\* Where Sound holds and wherever the power fails, the next boot comes up with the
\* environment saved last or with one whose save was interrupted or failed (env/Kconfig: "a
\* valid backup copy in case there is a power failure during a saveenv"); only
\* with a single sector may it be the default one, and only from the start of
\* a save until one succeeds.
PowerFailSafe == TypeOK /\ (Sound => BootsWith \in good)

\* env_save() reported success: a boot comes up with that environment.  It holds
\* where Sound does, and not without it.
SavedMeansStored == pc = "ready" /\ ret = "saved" => BootsWith = env

\* A successful load, at boot or by "env load", yields the environment saved
\* last.
LoadsSaved == conf.fails \subseteq Reported /\ ret = "loaded" => env \in good

\* Flash cells are only programmed in the direction they can be programmed:
\* an environment is written into an erased sector only, and without an erase
\* a flag goes from erased to active to obsolete and never back, whatever
\* fails and whatever "env load" swaps.
NorProgram ==
  [][ \A i \in Sectors :
        \/ sect'[i] \in {sect[i], Blank}
        \/ sect[i] = Blank
        \/ sect'[i] = [sect[i] EXCEPT !.flag = "obsolete"]
        \/ sect[i].flag = "erased" /\ sect'[i] = [sect[i] EXCEPT !.flag = "active"] ]_vars
=============================================================================
