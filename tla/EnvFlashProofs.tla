--------------------------- MODULE EnvFlashProofs ---------------------------
(***************************************************************************)
(* The environment in NOR flash, in one sector or two, for every set of    *)
(* contents and every configuration: power loss, loads, saves, and the     *)
(* direction in which flash cells are programmed.                          *)
(***************************************************************************)
EXTENDS EnvFlash, TLAPS

Stored(i) == sect[i] = [crc |-> "ok", flag |-> "active", val |-> env]

\* A sector is erased when the environment is written into it.
ErasedFirst == pc = "write" => sect[Target] = Blank

\* A single sector: once it may be lost, the default environment and the one
\* being saved are what a boot may come up with.
OneSector ==
  /\ cur = 0 /\ pc # "flag"
  /\ pc \in {"erase", "write", "restore"} => env \in good /\ Default \in good
  /\ pc = "restore" => Stored(0)

\* Two sectors: flash_addr names the sector that a boot finds, or, after a save
\* that failed, one that it may find; the other one may be erased at any time.
TwoSectors ==
  /\ pc = "load" => env_addr = Found /\ cur = 0
  /\ pc = "activate" => Found \in {cur, 2}
  /\ pc \in {"ready", "erase", "write", "flag", "restore"} =>
       IF Ok(cur) THEN sect[cur].val \in good ELSE Default \in good
  /\ pc \in {"erase", "write", "flag", "restore"} => env \in good
  /\ pc \in {"flag", "restore"} => Stored(new)
  /\ pc = "restore" => sect[cur].flag = "obsolete"

FlashInv ==
  /\ BootsWith \in good
  /\ \A i \in Sectors : Ok(i) => sect[i].flag # "erased"
  /\ ret = "loaded" => env \in good
  /\ pc = "ready" /\ ret = "saved" => good = {env}
  /\ IF conf.single THEN OneSector ELSE TwoSectors

Inv == TypeOK /\ ErasedFirst /\ (Sound => FlashInv)
-----------------------------------------------------------------------------
Cell == [crc : {"ok", "bad"}, val : Vals, flag : {"erased", "active", "obsolete"}]

\* A flag byte is programmed, and a sector is erased or written.
LEMMA FlagWrites ==
  ASSUME TypeOK, NEW i \in Sectors, NEW f \in {"active", "obsolete"},
         sect' = [sect EXCEPT ![i].flag = f]
  PROVE  /\ sect' \in [Sectors -> Cell] /\ sect'[i] = [sect[i] EXCEPT !.flag = f]
         /\ sect'[i].flag = f /\ sect'[i].crc = sect[i].crc /\ sect'[i].val = sect[i].val
         /\ \A j \in Sectors \ {i} : sect'[j] = sect[j]
<1>1. sect \in [Sectors -> Cell]
  BY DEF TypeOK, Cell
<1>2. sect[i] \in Cell
  BY <1>1
<1>3. [sect[i] EXCEPT !.flag = f] \in Cell
  BY <1>2 DEF Cell
<1>4. sect' = [sect EXCEPT ![i] = [sect[i] EXCEPT !.flag = f]]
  OBVIOUS
<1>5. sect' \in [Sectors -> Cell] /\ sect'[i] = [sect[i] EXCEPT !.flag = f]
        /\ \A j \in Sectors \ {i} : sect'[j] = sect[j]
  BY <1>1, <1>3, <1>4
<1> QED
  BY <1>2, <1>5 DEF Cell

LEMMA SectorWrites ==
  ASSUME TypeOK, NEW i \in Sectors, NEW x \in Cell, sect' = [sect EXCEPT ![i] = x]
  PROVE  sect' \in [Sectors -> Cell] /\ sect'[i] = x /\ \A j \in Sectors \ {i} : sect'[j] = sect[j]
BY DEF TypeOK, Cell

\* The sector that is not cur, and what may be written.
LEMMA Values ==
  ASSUME TypeOK
  PROVE  /\ Sectors = {0, 1} /\ cur \in {0, 1} /\ new \in {0, 1} /\ new # cur /\ 1 - new = cur
         /\ Target \in Sectors /\ Blank \in Cell /\ Torn \in Cell
         /\ [crc |-> "ok", flag |-> "active", val |-> env] \in Cell
         /\ Blank.crc = "bad" /\ Torn.crc = "bad" /\ Found \in {0, 1, 2}
<1>1. Sectors = {0, 1} /\ cur \in {0, 1} /\ new \in {0, 1} /\ new # cur /\ 1 - new = cur
  BY DEF TypeOK, Sectors, new
<1>2. Target \in Sectors
  BY <1>1 DEF Target
<1>3. Found \in {0, 1, 2}
  BY DEF Found
<1>4. Blank \in Cell /\ Torn \in Cell /\ [crc |-> "ok", flag |-> "active", val |-> env] \in Cell
  BY EnvFlashAssumption DEF Blank, Torn, Cell, TypeOK
<1> QED
  BY <1>1, <1>2, <1>3, <1>4 DEF Blank, Torn

LEMMA TypeInit == Init => TypeOK /\ ErasedFirst
  BY EnvFlashAssumption DEF Init, TypeOK, ErasedFirst, Blank, Sectors

LEMMA TypeNext == TypeOK /\ ErasedFirst /\ [Next]_vars => (TypeOK /\ ErasedFirst)'
<1> SUFFICES ASSUME TypeOK, ErasedFirst, [Next]_vars PROVE TypeOK' /\ ErasedFirst'
  OBVIOUS
<1>a. conf' = conf /\ Default \in Vals
  BY EnvFlashAssumption DEF Next, vars
<1>b. sect \in [Sectors -> Cell]
  BY DEF TypeOK, Cell
<1>c. /\ Sectors = {0, 1} /\ cur \in {0, 1} /\ new \in {0, 1} /\ Target \in Sectors
      /\ Blank \in Cell /\ Torn \in Cell /\ Found \in {0, 1, 2}
      /\ [crc |-> "ok", flag |-> "active", val |-> env] \in Cell
  BY Values
<1>d. \A i \in Sectors : sect[i].val \in Vals
  BY DEF TypeOK
<1>1. ASSUME sect' \in [Sectors -> Cell], cur' \in Sectors, env' \in Vals, env_addr' \in {0, 1, 2},
             good' \subseteq Vals, ret' \in {"none", "loaded", "failed", "saved"},
             pc' \in {"off", "load", "activate", "ready", "erase", "flag", "restore"}
      PROVE  TypeOK' /\ ErasedFirst'
  BY <1>1, <1>a DEF TypeOK, ErasedFirst, Cell
<1>2. CASE PowerOn \/ Reload \/ SaveStart \/ SaveRestore \/ \E v \in Vals : SetEnv(v)
  <2>1. sect' = sect /\ cur' \in Sectors /\ env_addr' \in {0, 1, 2}
    BY <1>2, <1>c DEF PowerOn, Reload, SaveStart, SaveRestore, SetEnv, SaveDone, TypeOK
  <2>2. env' \in Vals /\ good' \subseteq Vals
    BY <1>2, <1>a DEF PowerOn, Reload, SaveStart, SaveRestore, SetEnv, SaveDone, Return, TypeOK
  <2>3. ret' \in {"none", "loaded", "failed", "saved"} /\ pc' \in {"load", "ready", "erase"}
    BY <1>2 DEF PowerOn, Reload, SaveStart, SaveRestore, SetEnv, SaveDone, Return, TypeOK
  <2> QED
    BY <1>1, <1>b, <2>1, <2>2, <2>3
<1>3. CASE LoadMark
  <2>1. cur' \in {0, 1} /\ 1 - cur' \in Sectors
    BY <1>3, <1>c DEF LoadMark
  <2>2. sect' = sect \/ sect' = [sect EXCEPT ![1 - cur'].flag = "obsolete"]
    BY <1>3, <1>c DEF LoadMark
  <2>3. sect' \in [Sectors -> Cell]
    BY <1>b, <2>1, <2>2, FlagWrites
  <2> QED
    BY <1>1, <1>3, <1>c, <2>1, <2>3 DEF LoadMark, TypeOK
<1>4. CASE LoadActivate
  <2>1. sect' = sect \/ sect' = [sect EXCEPT ![cur].flag = "active"]
    BY <1>4 DEF LoadActivate
  <2>2. sect' \in [Sectors -> Cell]
    BY <1>b, <1>c, <2>1, FlagWrites
  <2>3. env' \in Vals /\ good' \subseteq Vals /\ ret' \in {"loaded", "failed"}
    BY <1>4, <1>a, <1>c, <1>d DEF LoadActivate, TypeOK
  <2> QED
    BY <1>1, <1>4, <2>2, <2>3 DEF LoadActivate, TypeOK
<1>5. CASE PowerOff
  <2>1. sect' = sect \/ sect' = [sect EXCEPT ![Target] = Torn]
    BY <1>5 DEF PowerOff
  <2>2. sect' \in [Sectors -> Cell]
    BY <1>b, <1>c, <2>1, SectorWrites
  <2> QED
    BY <1>1, <1>5, <1>a, <1>c, <2>2 DEF PowerOff, TypeOK
<1>6. CASE SaveErase
  <2>1. sect' = sect \/ sect' = [sect EXCEPT ![Target] = Blank]
    BY <1>6 DEF SaveErase
  <2>2. sect' \in [Sectors -> Cell] /\ good' \subseteq Vals /\ UNCHANGED <<cur, env_addr, env>>
    BY <1>6, <1>b, <1>c, <2>1, SectorWrites DEF SaveErase, Return, TypeOK
  <2>3. CASE pc' = "write"
    <3>1. sect'[Target] = Blank /\ Target' = Target /\ Blank' = Blank
      BY <1>6, <1>a, <1>c, <2>2, <2>3, SectorWrites DEF SaveErase, Return, Target, new, Blank
    <3>2. ErasedFirst'
      BY <3>1 DEF ErasedFirst
    <3>3. ret' = ret
      BY <1>6, <2>3 DEF SaveErase, Return
    <3> QED
      BY <1>a, <2>2, <2>3, <3>2, <3>3 DEF TypeOK, Cell
  <2>4. CASE pc' = "ready" /\ ret' = "saved"
    BY <1>1, <2>2, <2>4 DEF TypeOK
  <2> QED
    BY <1>6, <2>3, <2>4 DEF SaveErase, Return
<1>7. CASE SaveWrite
  <2>1. sect' = sect \/ \E x \in Cell : sect' = [sect EXCEPT ![Target] = x]
    BY <1>7, <1>c DEF SaveWrite, Written
  <2>2. sect' \in [Sectors -> Cell]
    BY <1>b, <1>c, <2>1, SectorWrites
  <2>3. cur' \in Sectors /\ good' \subseteq Vals /\ pc' \in {"flag", "restore", "ready"}
          /\ ret' \in {"none", "loaded", "failed", "saved"}
    BY <1>7, <1>c DEF SaveWrite, SaveRest, SaveDone, Return, TypeOK
  <2> QED
    BY <1>1, <1>7, <2>2, <2>3 DEF SaveWrite, TypeOK
<1>8. CASE SaveFlag
  <2>1. sect' = sect \/ sect' = [sect EXCEPT ![cur].flag = "obsolete"]
    BY <1>8 DEF SaveFlag
  <2>2. sect' \in [Sectors -> Cell]
    BY <1>b, <1>c, <2>1, FlagWrites
  <2>3. cur' \in Sectors /\ good' \subseteq Vals /\ pc' \in {"restore", "ready"}
          /\ ret' \in {"none", "loaded", "failed", "saved"}
    BY <1>8, <1>c DEF SaveFlag, SaveRest, SaveDone, Return, TypeOK
  <2> QED
    BY <1>1, <1>8, <2>2, <2>3 DEF SaveFlag, TypeOK
<1>9. CASE UNCHANGED vars
  BY <1>9 DEF vars, TypeOK, ErasedFirst, Target, new, Blank
<1> QED
  BY <1>2, <1>3, <1>4, <1>5, <1>6, <1>7, <1>8, <1>9 DEF Next
-----------------------------------------------------------------------------
LEMMA FlashInit == Init => FlashInv
  BY DEF Init, FlashInv, BootsWith, Found, Ok, Blank, Sectors, OneSector, TwoSectors

\* The sectors stay: so does what a boot finds.
LEMMA SameFound ==
  ASSUME UNCHANGED <<sect, conf>>
  PROVE  Found' = Found /\ BootsWith' = BootsWith /\ \A i \in Sectors : Ok(i)' <=> Ok(i)
BY DEF Found, BootsWith, Ok

LEMMA OneSectorNext ==
  TypeOK /\ ErasedFirst /\ Sound /\ FlashInv /\ conf.single /\ [Next]_vars => FlashInv'
<1> SUFFICES ASSUME TypeOK, ErasedFirst, Sound, FlashInv, conf.single, [Next]_vars PROVE FlashInv'
  OBVIOUS
<1>a. conf' = conf /\ ~MayFail("erase")
  BY DEF Next, vars, Sound, Reported, MayFail
<1>b. /\ Sectors = {0, 1} /\ cur = 0 /\ Target = 0 /\ Blank.crc = "bad" /\ Torn.crc = "bad"
      /\ Found \in {0, 2} /\ (Found = 0 <=> Ok(0)) /\ (Found' = 0 <=> Ok(0)') /\ Found' \in {0, 2}
  BY <1>a, Values DEF FlashInv, OneSector, Target, Found
<1>c. DOMAIN sect = {0, 1}
  BY <1>b DEF TypeOK
\* It is enough to look at the one sector and at the content of the save.
<1>1. ASSUME cur' = 0, pc' # "flag", ret' = "loaded" => env' \in good',
             pc' = "ready" /\ ret' = "saved" => good' = {env'},
             pc' \in {"erase", "write", "restore"} => env' \in good' /\ Default \in good',
             pc' = "restore" => Stored(0)',
             IF Ok(0)' THEN sect'[0].val \in good' ELSE Default \in good',
             \A i \in Sectors : Ok(i)' => sect'[i].flag # "erased"
      PROVE  FlashInv'
  BY <1>1, <1>a, <1>b DEF FlashInv, OneSector, BootsWith
<1>d. /\ IF Ok(0) THEN sect[0].val \in good ELSE Default \in good
      /\ \A i \in Sectors : Ok(i) => sect[i].flag # "erased"
  BY <1>b DEF FlashInv, BootsWith
<1>2. CASE PowerOn \/ Reload \/ LoadMark \/ \E v \in Vals : SetEnv(v)
  <2>1. UNCHANGED <<sect, good>> /\ cur' = 0 /\ pc' \in {"load", "activate", "ready"}
    BY <1>2, <1>b DEF PowerOn, Reload, LoadMark, SetEnv
  <2>2. (ret' = "loaded" => env' \in good') /\ (pc' = "ready" => ret' # "saved")
    BY <1>2 DEF PowerOn, Reload, LoadMark, SetEnv, FlashInv
  <2> QED
    BY <1>1, <1>a, <1>b, <1>d, <2>1, <2>2, SameFound
<1>3. CASE LoadActivate
  <2>1. UNCHANGED <<sect, cur>> /\ env' \in good /\ good' = {env'} /\ pc' = "ready" /\ ret' # "saved"
          /\ env' = IF Ok(0) THEN sect[0].val ELSE Default
    BY <1>3, <1>b, <1>d DEF LoadActivate
  <2> QED
    BY <1>1, <1>a, <1>b, <1>d, <2>1, SameFound
<1>4. CASE PowerOff
  <2>1. /\ cur' = 0 /\ pc' = "off" /\ ret' = "none" /\ good' = good
        /\ \/ sect' = sect
           \/ sect'[0] = Torn /\ sect'[1] = sect[1] /\ Default \in good
    BY <1>4, <1>b, <1>c DEF PowerOff, FlashInv, OneSector
  <2> QED
    BY <1>1, <1>b, <1>d, <2>1 DEF Ok
<1>5. CASE SaveStart
  <2>1. UNCHANGED <<sect, cur, env>>
    BY <1>5 DEF SaveStart
  <2>2. \/ pc' = "erase" /\ ret' = ret /\ good' = good \cup {env} \cup {Default}
        \/ pc' = "ready" /\ ret' = "failed" /\ good' = good
    BY <1>5 DEF SaveStart, Return
  <2> QED
    BY <1>1, <1>a, <1>b, <1>d, <2>1, <2>2, SameFound DEF FlashInv
<1>6. CASE SaveErase
  <2>1. /\ sect'[0] = Blank /\ sect'[1] = sect[1] /\ pc' = "write" /\ UNCHANGED <<ret, good, cur, env>>
    BY <1>6, <1>a, <1>b, <1>c DEF SaveErase
  <2>2. env \in good /\ Default \in good
    BY <1>6 DEF SaveErase, FlashInv, OneSector
  <2> QED
    BY <1>1, <1>b, <1>d, <2>1, <2>2 DEF Ok
<1>7. CASE SaveWrite
  <2>1. env \in good /\ Default \in good /\ env' = env
    BY <1>7 DEF SaveWrite, FlashInv, OneSector
  <2>2. CASE sect' = Written /\ SaveRest
    <3>1. sect'[0] = [crc |-> "ok", flag |-> "active", val |-> env] /\ sect'[1] = sect[1]
      BY <1>b, <1>c, <2>2 DEF Written
    <3>2. \/ pc' = "restore" /\ UNCHANGED <<cur, ret, good>>
          \/ cur' = 0 /\ pc' = "ready" /\ ret' = "saved" /\ good' = {env}
      BY <1>b, <2>2 DEF SaveRest, SaveDone, Return
    <3> QED
      BY <1>1, <1>b, <1>d, <2>1, <3>1, <3>2 DEF Ok, Stored, FlashInv
  <2>3. CASE pc' = "ready" /\ ret' = "failed" /\ good' = good /\ cur' = cur
               /\ sect' \in {sect, Written, [sect EXCEPT ![Target] = Torn]}
    <3>1. /\ sect'[1] = sect[1]
          /\ sect'[0] \in {sect[0], Torn, [crc |-> "ok", flag |-> "active", val |-> env]}
      BY <1>b, <1>c, <2>3 DEF Written
    <3> QED
      BY <1>1, <1>b, <1>d, <2>1, <2>3, <3>1 DEF Ok
  <2> QED
    BY <1>7, <2>2, <2>3 DEF SaveWrite, Return
<1>8. CASE SaveFlag
  BY <1>8 DEF SaveFlag, FlashInv, OneSector
<1>9. CASE SaveRestore
  <2>1. Stored(0) /\ UNCHANGED <<sect, env>> /\ cur' = 0
    BY <1>9, <1>b DEF SaveRestore, SaveDone, FlashInv, OneSector
  <2>2. pc' = "ready" /\ ret' = "saved" /\ good' = {env}
    BY <1>9 DEF SaveRestore, SaveDone, Return
  <2> QED
    BY <1>1, <1>a, <1>b, <1>d, <2>1, <2>2, SameFound DEF Stored, Ok
<1>10. CASE UNCHANGED vars
  BY <1>10, SameFound DEF vars, FlashInv, OneSector, Stored
<1> QED
  BY <1>2, <1>3, <1>4, <1>5, <1>6, <1>7, <1>8, <1>9, <1>10 DEF Next

LEMMA TwoSectorsNext ==
  TypeOK /\ ErasedFirst /\ Sound /\ FlashInv /\ ~conf.single /\ [Next]_vars => FlashInv'
<1> SUFFICES ASSUME TypeOK, ErasedFirst, Sound, FlashInv, ~conf.single, [Next]_vars PROVE FlashInv'
  OBVIOUS
<1>a. /\ conf' = conf /\ ~MayFail("erase") /\ ~MayFail("malloc") /\ ~MayFail("restore")
      /\ ~conf.cmdLoad
  BY DEF Next, vars, Sound, Reported, MayFail
<1>b. /\ Sectors = {0, 1} /\ cur \in {0, 1} /\ new \in {0, 1} /\ new # cur /\ Target = new
      /\ Blank.crc = "bad" /\ Torn.crc = "bad" /\ Found \in {0, 1, 2} /\ new = 1 - cur
      /\ DOMAIN sect = {0, 1}
  BY Values DEF Target, new, TypeOK
<1>c. /\ BootsWith \in good /\ (ret = "loaded" => env \in good)
      /\ \A i \in Sectors : Ok(i) => sect[i].flag # "erased"
      /\ TwoSectors
  BY DEF FlashInv
<1>d. \A i \in Sectors : sect[i].flag \in {"erased", "active", "obsolete"}
  BY DEF TypeOK
<1>1. ASSUME BootsWith' \in good', ret' = "loaded" => env' \in good',
             pc' = "ready" /\ ret' = "saved" => good' = {env'}, TwoSectors',
             \A i \in Sectors : Ok(i)' => sect'[i].flag # "erased"
      PROVE  FlashInv'
  BY <1>1, <1>a DEF FlashInv
<1>2. CASE PowerOn
  <2>1. UNCHANGED <<sect, env, ret, good>> /\ pc' = "load" /\ env_addr' = Found /\ cur' = 0
    BY <1>2 DEF PowerOn
  <2>2. TwoSectors'
    BY <1>a, <2>1, SameFound DEF TwoSectors
  <2> QED
    BY <1>1, <1>a, <1>c, <2>1, <2>2, SameFound
<1>3. CASE Reload
  BY <1>3, <1>a DEF Reload
<1>4. CASE \E v \in Vals : SetEnv(v)
  <2>1. UNCHANGED <<sect, pc, cur, good>> /\ pc = "ready" /\ ret' = "none"
    BY <1>4 DEF SetEnv
  <2>2. TwoSectors'
    BY <1>c, <2>1, SameFound, <1>a, <1>b DEF TwoSectors
  <2> QED
    BY <1>1, <1>a, <1>c, <2>1, <2>2, SameFound
<1>5. CASE LoadMark
  <2>1. /\ pc = "load" /\ pc' = "activate" /\ UNCHANGED <<env, ret, good>>
        /\ env_addr = Found /\ cur = 0 /\ cur' = IF Found = 0 THEN 0 ELSE 1
    BY <1>5, <1>b, <1>c DEF LoadMark, TwoSectors, new
  <2>2. sect' = sect \/ (Ok(1 - cur') /\ sect' = [sect EXCEPT ![1 - cur'].flag = "obsolete"])
    BY <1>5, <2>1, <1>b DEF LoadMark, new
  <2>3. /\ sect'[cur'] = sect[cur'] /\ sect'[1 - cur'].crc = sect[1 - cur'].crc
        /\ sect'[1 - cur'].val = sect[1 - cur'].val
        /\ sect'[1 - cur'].flag = sect[1 - cur'].flag
             \/ (Ok(1 - cur') /\ sect'[1 - cur'].flag = "obsolete")
    BY <1>b, <2>1, <2>2, FlagWrites
  <2>4. Found' = Found
    BY <1>a, <1>b, <1>c, <1>d, <2>1, <2>3 DEF Found, Ok
  <2>5. \A i \in Sectors : sect'[i].val = sect[i].val
    BY <1>b, <2>1, <2>3
  <2>6. BootsWith' = BootsWith
    BY <1>b, <2>4, <2>5 DEF BootsWith
  <2>7. TwoSectors'
    BY <1>b, <2>1, <2>4 DEF TwoSectors
  <2>8. \A i \in Sectors : Ok(i)' => sect'[i].flag # "erased"
    BY <1>b, <1>c, <2>1, <2>3 DEF Ok
  <2> QED
    BY <1>1, <1>c, <2>1, <2>6, <2>7, <2>8
<1>6. CASE LoadActivate
  <2>1. /\ pc' = "ready" /\ cur' = cur /\ Found \in {cur, 2} /\ ret' # "saved"
        /\ env' = IF Ok(cur) THEN sect[cur].val ELSE Default
    BY <1>6, <1>c DEF LoadActivate, TwoSectors
  <2>2. Ok(cur) <=> Found = cur
    BY <1>b, <2>1 DEF Found
  <2>3. env' = BootsWith /\ good' = {env'}
    BY <1>6, <1>b, <1>c, <2>1, <2>2 DEF BootsWith, LoadActivate
  <2>4. sect' = sect \/ (sect[cur].flag = "erased" /\ sect' = [sect EXCEPT ![cur].flag = "active"])
    BY <1>6 DEF LoadActivate
  <2>5. CASE sect' = sect
    <3>1. TwoSectors'
      BY <1>a, <1>b, <2>1, <2>2, <2>3, <2>5, SameFound DEF TwoSectors
    <3> QED
      BY <1>1, <1>a, <1>c, <2>1, <2>3, <2>5, <3>1, SameFound
  <2>6. CASE sect[cur].flag = "erased" /\ sect' = [sect EXCEPT ![cur].flag = "active"]
    <3>1. /\ sect'[new] = sect[new] /\ sect'[cur].crc = sect[cur].crc
          /\ sect'[cur].flag = "active"
      BY <1>b, <2>6, FlagWrites
    <3>2. ~Ok(cur) /\ ~Ok(cur)' /\ Found = 2
      BY <1>b, <1>c, <2>1, <2>2, <2>6, <3>1 DEF Ok
    <3>3. ~Ok(0)' /\ ~Ok(1)'
      <4>1. ~Ok(0) /\ ~Ok(1)
        BY <3>2 DEF Found
      <4> QED
        BY <1>b, <3>1, <4>1 DEF Ok
    <3>4. Found' = 2 /\ BootsWith' = Default /\ env' = Default
      BY <1>a, <2>1, <3>2, <3>3 DEF Found, BootsWith
    <3>5. TwoSectors'
      BY <1>b, <2>1, <2>3, <3>2, <3>4 DEF TwoSectors
    <3> QED
      BY <1>1, <1>b, <2>1, <2>3, <3>3, <3>4, <3>5
  <2> QED
    BY <2>4, <2>5, <2>6
<1>7. CASE PowerOff
  <2>1. /\ pc' = "off" /\ ret' = "none" /\ good' = good
        /\ sect' = sect \/ (pc = "write" /\ sect' = [sect EXCEPT ![new] = Torn])
    BY <1>7, <1>b DEF PowerOff
  <2>2. TwoSectors'
    BY <2>1 DEF TwoSectors
  <2>3. CASE sect' = sect
    BY <1>1, <1>a, <1>c, <2>1, <2>2, <2>3, SameFound
  <2>4. CASE pc = "write" /\ sect' = [sect EXCEPT ![new] = Torn]
    <3>1. sect'[new] = Torn /\ sect'[cur] = sect[cur]
      BY <1>b, <2>4
    <3>2. \A i \in Sectors : Ok(i)' <=> i = cur /\ Ok(cur)
      BY <1>b, <3>1 DEF Ok
    <3>3. Found' = IF Ok(cur) THEN cur ELSE 2
      BY <1>a, <1>b, <3>2 DEF Found
    <3>4. BootsWith' \in good
      BY <1>b, <1>c, <2>4, <3>1, <3>3 DEF BootsWith, TwoSectors
    <3>5. \A i \in Sectors : Ok(i)' => sect'[i].flag # "erased"
      BY <1>b, <1>c, <3>1, <3>2
    <3> QED
      BY <1>1, <2>1, <2>2, <3>4, <3>5
  <2> QED
    BY <2>1, <2>3, <2>4
<1>8. CASE SaveStart
  <2>1. UNCHANGED <<sect, cur, env>> /\ pc = "ready"
    BY <1>8 DEF SaveStart
  <2>2. \/ pc' = "erase" /\ ret' = ret /\ good' = good \cup {env}
        \/ pc' = "ready" /\ ret' = "failed" /\ good' = good
    BY <1>8, <1>a DEF SaveStart, Return
  <2>3. TwoSectors'
    BY <1>a, <1>b, <1>c, <2>1, <2>2, SameFound DEF TwoSectors
  <2> QED
    BY <1>1, <1>a, <1>c, <2>1, <2>2, <2>3, SameFound
<1>9. CASE SaveErase
  <2>1. sect' = [sect EXCEPT ![new] = Blank] /\ pc' = "write" /\ UNCHANGED <<ret, good, cur, env>>
    BY <1>9, <1>a, <1>b DEF SaveErase
  <2>2. sect'[new] = Blank /\ sect'[cur] = sect[cur] /\ pc = "erase"
    BY <1>9, <1>b, <2>1 DEF SaveErase
  <2>3. ~Ok(new)' /\ (Ok(cur)' <=> Ok(cur))
    BY <1>b, <2>1, <2>2 DEF Ok, new
  <2>4. Found' = IF Ok(cur) THEN cur ELSE 2
    BY <1>a, <1>b, <2>1, <2>3 DEF Found, new
  <2>5. BootsWith' \in good
    BY <1>b, <1>c, <2>2, <2>4 DEF BootsWith, TwoSectors
  <2>6. TwoSectors'
    BY <1>b, <1>c, <2>1, <2>2, <2>3 DEF TwoSectors
  <2>7. \A i \in Sectors : Ok(i)' => sect'[i].flag # "erased"
    BY <1>b, <1>c, <2>1, <2>2, <2>3 DEF new
  <2> QED
    BY <1>1, <1>c, <2>1, <2>5, <2>6, <2>7
<1>10. CASE SaveWrite
  <2>1. env \in good /\ UNCHANGED <<env, env_addr>> /\ (Ok(cur) \/ Default \in good)
          /\ (Ok(cur) => sect[cur].val \in good) /\ sect[new] = Blank
    BY <1>10, <1>b, <1>c DEF SaveWrite, TwoSectors, ErasedFirst
  <2>2. \/ sect' = Written /\ pc' = "flag" /\ UNCHANGED <<cur, ret, good>>
        \/ /\ pc' = "ready" /\ ret' = "failed" /\ UNCHANGED <<cur, good>>
           /\ sect' \in {sect, Written, [sect EXCEPT ![new] = Torn]}
    BY <1>10, <1>b DEF SaveWrite, Return
  <2>3. /\ sect'[cur] = sect[cur]
        /\ sect'[new] \in {Blank, Torn, [crc |-> "ok", flag |-> "active", val |-> env]}
        /\ pc' = "flag" => sect'[new] = [crc |-> "ok", flag |-> "active", val |-> env]
    BY <1>b, <2>1, <2>2 DEF Written
  <2>4. cur' = cur /\ good' = good /\ new' = new
    BY <2>2 DEF new
  <2>5. Ok(new)' => sect'[new].val \in good /\ sect'[new].flag = "active"
    BY <1>b, <2>1, <2>3, <2>4 DEF Ok
  <2>6. (Ok(cur)' <=> Ok(cur)) /\ (Ok(cur)' => sect'[cur].val \in good)
    BY <2>1, <2>3, <2>4 DEF Ok
  <2>7. Found' = 2 => ~Ok(cur)
    BY <1>a, <1>b, <2>4, <2>6 DEF Found
  <2>8. Found' # 2 => (Found' = cur /\ Ok(cur)') \/ (Found' = new /\ Ok(new)')
    BY <1>a, <1>b, <2>4 DEF Found
  <2>9. BootsWith' \in good
    BY <1>b, <2>1, <2>5, <2>6, <2>7, <2>8 DEF BootsWith
  <2>10. TwoSectors'
    BY <1>b, <2>1, <2>2, <2>3, <2>4, <2>6 DEF TwoSectors, Stored
  <2>11. \A i \in Sectors : Ok(i)' => sect'[i].flag # "erased"
    BY <1>b, <1>c, <2>3, <2>4, <2>5, <2>6
  <2> QED
    BY <1>1, <1>c, <2>1, <2>2, <2>4, <2>9, <2>10, <2>11
<1>11. CASE SaveFlag
  <2>1. /\ env \in good /\ UNCHANGED <<env, env_addr>> /\ Stored(new)
        /\ (Ok(cur) => sect[cur].val \in good) /\ (~Ok(cur) => Default \in good)
    BY <1>11, <1>b, <1>c DEF SaveFlag, TwoSectors
  <2>2. sect' \in {sect, [sect EXCEPT ![cur].flag = "obsolete"]}
    BY <1>11 DEF SaveFlag
  <2>3. /\ sect'[new] = sect[new] /\ sect'[cur].crc = sect[cur].crc
        /\ sect'[cur].val = sect[cur].val /\ sect'[cur].flag \in {sect[cur].flag, "obsolete"}
    BY <1>b, <2>2, FlagWrites
  <2>4. CASE sect' = [sect EXCEPT ![cur].flag = "obsolete"] /\ SaveRest
    <3>1. sect'[cur].flag = "obsolete"
      BY <1>b, <2>4, FlagWrites
    <3>2. Found' = new /\ sect'[new].val = env /\ sect'[new].flag = "active" /\ sect'[new].crc = "ok"
      BY <1>a, <1>b, <2>1, <2>3, <3>1 DEF Found, Ok, Stored
    <3>3. BootsWith' = env
      BY <1>b, <3>2 DEF BootsWith
    <3>4. \/ pc' = "restore" /\ UNCHANGED <<cur, ret, good>>
          \/ cur' = new /\ pc' = "ready" /\ ret' = "saved" /\ good' = {env}
      BY <1>b, <2>4 DEF SaveRest, SaveDone, Return
    <3>5. TwoSectors'
      <4>1. CASE pc' = "restore" /\ UNCHANGED <<cur, ret, good>>
        <5>1. new' = new /\ (Ok(cur)' <=> Ok(cur))
          BY <4>1, <2>3 DEF new, Ok
        <5> QED
          BY <1>b, <2>1, <2>3, <3>1, <4>1, <5>1 DEF TwoSectors, Stored
      <4>2. CASE cur' = new /\ pc' = "ready" /\ ret' = "saved" /\ good' = {env}
        BY <3>2, <4>2 DEF TwoSectors, Ok
      <4> QED
        BY <3>4, <4>1, <4>2
    <3>6. \A i \in Sectors : Ok(i)' => sect'[i].flag # "erased"
      BY <1>b, <3>1, <3>2
    <3> QED
      BY <1>1, <1>c, <2>1, <3>3, <3>4, <3>5, <3>6
  <2>5. CASE pc' = "ready" /\ ret' = "failed" /\ UNCHANGED <<cur, good>>
    <3>1. (Ok(cur)' <=> Ok(cur)) /\ (Ok(new)' <=> Ok(new)) /\ Ok(new) /\ sect[new].val = env
      BY <2>1, <2>3, <2>5 DEF Ok, Stored, new
    <3>2. (Found' = cur /\ Ok(cur)) \/ Found' = new
      BY <1>a, <1>b, <2>5, <3>1 DEF Found, new
    <3>3. BootsWith' \in good
      BY <1>b, <2>1, <2>3, <3>1, <3>2 DEF BootsWith
    <3>4. TwoSectors'
      BY <2>1, <2>3, <2>5, <3>1 DEF TwoSectors
    <3>5. \A i \in Sectors : Ok(i)' => sect'[i].flag # "erased"
      BY <1>b, <1>c, <2>3, <3>1, <2>5 DEF new
    <3> QED
      BY <1>1, <2>1, <2>5, <3>3, <3>4, <3>5
  <2> QED
    BY <1>11, <2>4, <2>5 DEF SaveFlag, Return
<1>12. CASE SaveRestore
  <2>1. /\ UNCHANGED <<sect, env, env_addr>> /\ cur' = new /\ pc' = "ready" /\ ret' = "saved"
        /\ good' = {env} /\ Stored(new) /\ sect[cur].flag = "obsolete"
    BY <1>12, <1>a, <1>b, <1>c DEF SaveRestore, SaveDone, Return, TwoSectors
  <2>2. Found = new
    BY <1>b, <2>1 DEF Found, Ok, Stored
  <2>3. BootsWith = env
    BY <1>b, <2>1, <2>2 DEF BootsWith, Stored
  <2>4. TwoSectors'
    BY <2>1 DEF TwoSectors, Ok, Stored
  <2> QED
    BY <1>1, <1>a, <1>c, <2>1, <2>3, <2>4, SameFound
<1>13. CASE UNCHANGED vars
  <2>1. UNCHANGED <<sect, env, env_addr, cur, pc, ret, good>> /\ new' = new
    BY <1>13 DEF vars, new
  <2>2. TwoSectors'
    BY <1>a, <1>b, <1>c, <2>1, SameFound DEF TwoSectors, Stored
  <2> QED
    BY <1>1, <1>a, <1>c, <2>1, <2>2, SameFound DEF FlashInv
<1> QED
  BY <1>2, <1>3, <1>4, <1>5, <1>6, <1>7, <1>8, <1>9, <1>10, <1>11, <1>12, <1>13 DEF Next

LEMMA InvNext == Inv /\ [Next]_vars => Inv'
<1> SUFFICES ASSUME Inv, [Next]_vars PROVE Inv'
  OBVIOUS
<1>1. Sound' => Sound
  BY DEF Next, vars, Sound, Reported
<1> QED
  BY <1>1, TypeNext, OneSectorNext, TwoSectorsNext DEF Inv

LEMMA InvAlways == Spec => []Inv
<1>1. Init => Inv
  BY TypeInit, FlashInit DEF Inv
<1> QED
  BY <1>1, InvNext, PTL DEF Spec
-----------------------------------------------------------------------------
\* For every set of contents and every configuration of the board in which Sound
\* holds (the errors that can happen are those that env_flash_save() reports or
\* that come after the environment is complete, and "env load" is not used with
\* two sectors): wherever the power fails, the next boot comes up
\* with the environment saved last, with one whose save was interrupted or
\* failed or, where one sector is all there is, with the default one.
THEOREM PowerFailSafeAlways == Spec => []PowerFailSafe
<1>1. Inv => PowerFailSafe
  BY DEF Inv, PowerFailSafe, FlashInv
<1> QED
  BY <1>1, InvAlways, PTL

\* Where Sound holds, env_flash_save() that returned 0 has stored the environment:
\* a boot comes up with what was saved.  Sound rules out the exits that leave with
\* rc 0 before anything is stored, a sector that cannot be erased (flash.c:166)
\* and, with two sectors, no memory (flash.c:150); there the claim is false.
THEOREM SavedMeansStoredIfSound == Spec => [](Sound => SavedMeansStored)
<1>1. Inv => (Sound => SavedMeansStored)
  BY DEF Inv, SavedMeansStored, FlashInv
<1> QED
  BY <1>1, InvAlways, PTL

\* A successful env_flash_load() yields the environment saved last, where "env
\* load" is not configured or there is a single sector.  (With two sectors "env
\* load" swaps the pointers by a stale gd->env_addr, and LoadsSaved fails.)
THEOREM LoadsSavedIfSound == Spec => [](Sound => LoadsSaved)
<1>1. Inv => (Sound => LoadsSaved)
  BY DEF Inv, LoadsSaved, FlashInv
<1> QED
  BY <1>1, InvAlways, PTL

\* Whatever fails and whatever "env load" swaps, flash cells are programmed only
\* in the direction they can be: env_flash_save() writes an erased sector, and
\* a flag goes from erased to active to obsolete.
THEOREM NorProgramAlways == Spec => NorProgram
<1> DEFINE Step == \A i \in Sectors :
                     \/ sect'[i] \in {sect[i], Blank}
                     \/ sect[i] = Blank
                     \/ sect'[i] = [sect[i] EXCEPT !.flag = "obsolete"]
                     \/ sect[i].flag = "erased" /\ sect'[i] = [sect[i] EXCEPT !.flag = "active"]
<1>1. TypeOK /\ ErasedFirst /\ [Next]_vars => Step
  <2> SUFFICES ASSUME TypeOK, ErasedFirst, [Next]_vars, NEW i \in Sectors
               PROVE  \/ sect'[i] \in {sect[i], Blank}
                      \/ sect[i] = Blank
                      \/ sect'[i] = [sect[i] EXCEPT !.flag = "obsolete"]
                      \/ sect[i].flag = "erased" /\ sect'[i] = [sect[i] EXCEPT !.flag = "active"]
    OBVIOUS
  <2>a. cur \in Sectors /\ 1 - cur' \in Sectors /\ Target \in Sectors /\ sect \in [Sectors -> Cell]
    BY TypeNext, Values DEF TypeOK, Cell, Sectors
  <2>1. CASE sect' = sect
    BY <2>1
  <2>2. CASE sect' = [sect EXCEPT ![Target] = Blank]
    BY <2>2, <2>a
  <2>3. CASE pc = "write" /\ \E x \in Cell : sect' = [sect EXCEPT ![Target] = x]
    BY <2>3, <2>a DEF ErasedFirst
  <2>4. CASE \E j \in Sectors : sect' = [sect EXCEPT ![j].flag = "obsolete"]
    BY <2>4, FlagWrites
  <2>5. CASE sect[cur].flag = "erased" /\ sect' = [sect EXCEPT ![cur].flag = "active"]
    BY <2>5, <2>a, FlagWrites
  <2>6. PowerOn \/ Reload \/ SaveStart \/ SaveRestore \/ (\E v \in Vals : SetEnv(v)) \/ UNCHANGED vars
          => sect' = sect
    BY DEF PowerOn, Reload, SaveStart, SaveRestore, SetEnv, vars
  <2>7. LoadMark => sect' = sect \/ sect' = [sect EXCEPT ![1 - cur'].flag = "obsolete"]
    BY DEF LoadMark
  <2>8. LoadActivate =>
          sect' = sect \/ (sect[cur].flag = "erased" /\ sect' = [sect EXCEPT ![cur].flag = "active"])
    BY DEF LoadActivate
  <2>9. SaveErase => sect' = sect \/ sect' = [sect EXCEPT ![Target] = Blank]
    BY DEF SaveErase
  <2>10. PowerOff \/ SaveWrite =>
           sect' = sect \/ (pc = "write" /\ \E x \in Cell : sect' = [sect EXCEPT ![Target] = x])
    BY Values DEF PowerOff, SaveWrite, Written
  <2>11. SaveFlag => sect' = sect \/ sect' = [sect EXCEPT ![cur].flag = "obsolete"]
    BY DEF SaveFlag
  <2> QED
    BY <2>a, <2>1, <2>2, <2>3, <2>4, <2>5, <2>6, <2>7, <2>8, <2>9, <2>10, <2>11 DEF Next
<1>2. Inv /\ [Next]_vars => [Step]_vars
  BY <1>1 DEF Inv
<1> QED
  BY <1>2, InvAlways, PTL DEF Spec, NorProgram
=============================================================================
