---------------------------- MODULE EnvMmcProofs ----------------------------
(***************************************************************************)
(* The redundant environment survives power loss at any step, for every    *)
(* number of serial numbers from three up, in every reliable configuration.*)
(***************************************************************************)
EXTENDS EnvMmc, TLAPS

\* Consecutive serial numbers, also across the wrap, are told apart.
LEMMA NewerConsecutive ==
  ASSUME NEW a \in 0 .. SerialMod - 1, NEW b \in 0 .. SerialMod - 1,
         b = (a + 1) % SerialMod
  PROVE  Newer(a, b) = 1 /\ Newer(b, a) = 0
<1>1. SerialMod \in Nat /\ SerialMod >= 3 /\ a \in Nat /\ b \in Nat /\ a < SerialMod
  BY EnvMmcAssumption
<1>2. CASE a = SerialMod - 1
  <2>1. a + 1 = SerialMod /\ SerialMod % SerialMod = 0
    BY <1>1, <1>2
  <2> QED
    BY <1>1, <1>2, <2>1 DEF Newer
<1>3. CASE a # SerialMod - 1
  <2>1. a + 1 \in 0 .. SerialMod - 1
    BY <1>1, <1>3
  <2>2. \A k \in 0 .. SerialMod - 1 : k % SerialMod = k
    BY <1>1
  <2>3. b = a + 1
    BY <2>1, <2>2
  <2> QED
    BY <1>1, <1>3, <2>3 DEF Newer
<1> QED
  BY <1>2, <1>3

\* The copy that env_valid names, and the other one.
Active == 1 - Target

\* The inductive invariant.  While the program runs, the copy env_valid names
\* carries the serial number env_flags, and is the one a boot would choose; a
\* copy that is being written is bad; a copy just written carries the serial
\* number that follows and is the one a boot would choose.
Inv ==
  /\ TypeOK
  /\ BootsWith \in good
  /\ pc # "off" => env_valid # "INVALID"
  /\ pc = "ready" =>
       \/ \A i \in Copies : copy[i] = Bad
       \/ Ok(Active) /\ copy[Active].flags = env_flags /\ Chosen(Copies) = Active
  /\ pc # "erasing_failed"
  /\ pc = "erasing" => copy[0] = Bad /\ good = Vals
  /\ pc = "writing" =>
       /\ copy[Target] = Bad /\ env \in good
       /\ Ok(Active) => env_flags = (copy[Active].flags + 1) % SerialMod
  /\ pc = "written" => copy[Target] = Stored(env_flags, env) /\ Chosen(Copies) = Target

LEMMA InvInit == Init => Inv
  BY EnvMmcAssumption
  DEF Init, Inv, TypeOK, BootsWith, Chosen, Ok, Copies, Bad

\* After a load, env_valid and env_flags describe the copy that was chosen.
LEMMA LoadKeeps ==
  ASSUME Inv, Reliable, pc' = "ready", UNCHANGED <<copy, conf>>,
         NEW v \in {"VALID", "REDUND"}, NEW f \in 0 .. SerialMod - 1, LoadFrom(v, f, Copies)
  PROVE  Inv'
<1> USE EnvMmcAssumption
<1>1. Chosen(Copies) \in {0, 1, 2}
  BY DEF Chosen, Ok, Newer
<1>2. Chosen(Copies) = 2 => \A i \in Copies : copy[i] = Bad
  BY DEF Chosen, Ok, Newer, Inv, TypeOK, Copies, Bad
<1>3. Chosen(Copies) # 2 =>
        copy[Chosen(Copies)] \in [crc : {"ok"}, flags : 0 .. SerialMod - 1, val : Vals]
  BY DEF Chosen, Ok, Newer, Inv, TypeOK, Copies, Bad
<1>4. BootsWith' = BootsWith /\ Chosen(Copies)' = Chosen(Copies) /\ BootsWith \in Vals
  BY <1>1, <1>3 DEF BootsWith, Chosen, Ok, Copies
<1>5. CASE Chosen(Copies) = 2
  BY <1>2, <1>4, <1>5 DEF LoadFrom, Inv, TypeOK
<1>6. CASE Chosen(Copies) \in {0, 1}
  <2>1. /\ env_valid' = IF Chosen(Copies) = 0 THEN "VALID" ELSE "REDUND"
        /\ env_flags' = copy[Chosen(Copies)].flags
        /\ env' \in {copy[Chosen(Copies)].val, Default} /\ ret' \in {"ok", "failed"}
        /\ good' = {BootsWith}
    BY <1>6 DEF LoadFrom
  <2>2. Active' = Chosen(Copies)
    BY <1>6, <2>1 DEF Active, Target
  <2>3. TypeOK' /\ (BootsWith \in good)'
    BY <1>3, <1>4, <1>6, <2>1 DEF Inv, TypeOK
  <2>4. Ok(Active)' /\ copy'[Active'].flags = env_flags' /\ env_valid' # "INVALID"
    BY <1>3, <1>6, <2>1, <2>2 DEF Ok
  <2> QED
    BY <1>4, <2>2, <2>3, <2>4 DEF Inv
<1> QED
  BY <1>1, <1>5, <1>6

\* Starting a save leaves the copy in use as the only one.
LEMMA SaveStartKeeps == Inv /\ SaveStart /\ UNCHANGED conf => Inv'
<1> SUFFICES ASSUME Inv, SaveStart, UNCHANGED conf PROVE Inv'
  OBVIOUS
<1> USE EnvMmcAssumption
<1>1. /\ Target \in {0, 1} /\ Active \in {0, 1} /\ Active = 1 - Target
      /\ Target' = Target /\ Active' = Active
      /\ copy' \in [Copies -> {Bad} \cup [crc : {"ok"}, flags : 0 .. SerialMod - 1, val : Vals]]
      /\ copy'[Target] = Bad /\ copy'[Active] = copy[Active]
  BY DEF Target, Active, SaveStart, Inv, TypeOK, Copies
<1>2. env_flags' \in 0 .. SerialMod - 1
  BY DEF SaveStart, Export, Inv, TypeOK
<1>3. TypeOK'
  BY <1>1, <1>2 DEF SaveStart, Inv, TypeOK
<1>4. CASE \A i \in Copies : copy[i] = Bad
  <2>1. Chosen(Copies) = 2 /\ Chosen(Copies)' = 2 /\ ~Ok(Active)'
    BY <1>1, <1>4 DEF Chosen, Ok, Copies, Bad
  <2>2. (BootsWith \in good)'
    BY <2>1 DEF SaveStart, Inv, BootsWith
  <2> QED
    BY <1>1, <1>3, <2>1, <2>2 DEF SaveStart, Inv, TypeOK
<1>5. CASE Ok(Active) /\ copy[Active].flags = env_flags /\ Chosen(Copies) = Active
  <2>1. Chosen(Copies)' = Active
    BY <1>1, <1>5 DEF Chosen, Ok, Copies, Bad
  <2>2. (BootsWith \in good)'
    BY <1>1, <1>5, <2>1 DEF SaveStart, Inv, BootsWith
  <2>3. env_flags' = (copy'[Active'].flags + 1) % SerialMod
    BY <1>1, <1>5 DEF SaveStart, Export
  <2> QED
    BY <1>1, <1>3, <2>2, <2>3 DEF SaveStart, Inv, TypeOK
<1> QED
  BY <1>4, <1>5 DEF SaveStart, Inv

\* The copy just written is the one a boot chooses from then on.
LEMMA SaveWriteKeeps == Inv /\ SaveWrite /\ UNCHANGED conf => Inv'
<1> SUFFICES ASSUME Inv, SaveWrite, UNCHANGED conf PROVE Inv'
  OBVIOUS
<1> USE EnvMmcAssumption
<1>1. /\ Target \in {0, 1} /\ Active \in {0, 1} /\ Active = 1 - Target
      /\ Target' = Target /\ Active' = Active
  BY DEF Target, Active, SaveWrite
<1>2. Stored(env_flags, env) \in [crc : {"ok"}, flags : 0 .. SerialMod - 1, val : Vals]
  BY DEF Stored, Inv, TypeOK
<1>3. /\ copy'[Target] = Stored(env_flags, env) /\ copy'[Active] = copy[Active]
      /\ copy' \in [Copies -> {Bad} \cup [crc : {"ok"}, flags : 0 .. SerialMod - 1, val : Vals]]
  BY <1>1, <1>2 DEF SaveWrite, Inv, TypeOK, Copies
<1>4. Ok(Target)' /\ copy'[Target].flags = env_flags /\ copy'[Target].val = env
  BY <1>1, <1>3 DEF Ok, Stored
<1>5. Chosen(Copies)' = Target
  <2>1. CASE ~Ok(Active)'
    BY <1>1, <1>4, <2>1 DEF Chosen, Copies, Ok
  <2>2. CASE Ok(Active)'
    <3> DEFINE a == copy'[Active].flags
    <3>1. a \in 0 .. SerialMod - 1 /\ env_flags \in 0 .. SerialMod - 1
      BY <1>1, <1>3, <2>2 DEF Ok, Bad, Inv, TypeOK, Copies
    <3>2. env_flags = (a + 1) % SerialMod
      BY <1>1, <1>3, <2>2 DEF Ok, Inv, SaveWrite
    <3>3. Newer(a, env_flags) = 1 /\ Newer(env_flags, a) = 0
      BY <3>1, <3>2, NewerConsecutive
    <3> QED
      BY <1>1, <1>4, <2>2, <3>3 DEF Chosen, Copies, Ok
  <2> QED
    BY <2>1, <2>2
<1>6. BootsWith' = env
  BY <1>1, <1>4, <1>5 DEF BootsWith
<1>7. TypeOK' /\ (BootsWith \in good)'
  BY <1>3, <1>6 DEF SaveWrite, Inv, TypeOK
<1> QED
  BY <1>1, <1>3, <1>5, <1>7 DEF SaveWrite, Inv

\* Every step keeps the types, whatever fails and in every configuration.
LEMMA TypeNext == TypeOK /\ [Next]_vars => TypeOK'
<1> SUFFICES ASSUME TypeOK, [Next]_vars PROVE TypeOK'
  OBVIOUS
<1> USE EnvMmcAssumption
<1>0. UNCHANGED conf
  BY DEF Next, vars
<1>1. ASSUME NEW v \in {"VALID", "REDUND", "INVALID"}, NEW f \in 0 .. SerialMod - 1,
             NEW r \in Readable, LoadFrom(v, f, r), UNCHANGED copy, pc' = "ready"
      PROVE  TypeOK'
  <2>1. Chosen(r) \in {0, 1, 2}
    BY DEF Chosen, Ok, Newer
  <2>2. Chosen(r) # 2 =>
          copy[Chosen(r)] \in [crc : {"ok"}, flags : 0 .. SerialMod - 1, val : Vals]
    BY DEF Chosen, Ok, Newer, TypeOK, Copies, Bad
  <2>3. BootsWith \in Vals
    BY DEF BootsWith, Chosen, Ok, Newer, TypeOK, Copies, Bad
  <2>4. CASE Chosen(r) = 2
    BY <1>0, <1>1, <2>3, <2>4 DEF LoadFrom, TypeOK
  <2>5. CASE Chosen(r) # 2
    <3>1. env_valid' \in {"VALID", "REDUND"} /\ env_flags' = copy[Chosen(r)].flags
      BY <1>1, <2>5 DEF LoadFrom
    <3>2. env' \in Vals /\ ret' \in {"ok", "failed"} /\ good' \subseteq Vals
      BY <1>1, <2>2, <2>3, <2>5 DEF LoadFrom, TypeOK
    <3> QED
      BY <1>0, <1>1, <2>2, <2>5, <3>1, <3>2 DEF TypeOK
  <2> QED
    BY <2>4, <2>5
<1>2. CASE PowerOn
  BY <1>1, <1>2 DEF PowerOn
<1>3. CASE Reload
  BY <1>1, <1>3 DEF Reload, TypeOK
<1>4. CASE Select \/ PowerOff \/ \E v \in Vals : SetEnv(v)
  BY <1>0, <1>4 DEF Select, PowerOff, SetEnv, TypeOK
<1>5. Export => env_flags' \in 0 .. SerialMod - 1
  BY DEF Export, TypeOK
<1>6. Bad \in {Bad} \cup [crc : {"ok"}, flags : 0 .. SerialMod - 1, val : Vals]
  OBVIOUS
<1>7. CASE SaveStart
  BY <1>0, <1>5, <1>7 DEF SaveStart, Target, Copies, TypeOK
<1>8. CASE SaveNot \/ SaveFail \/ SaveReturn
  BY <1>0, <1>5, <1>8 DEF SaveNot, SaveFail, SaveReturn, TypeOK
<1>9. CASE SaveWrite
  <2>1. Stored(env_flags, env) \in [crc : {"ok"}, flags : 0 .. SerialMod - 1, val : Vals]
    BY DEF Stored, TypeOK
  <2> QED
    BY <1>0, <1>9, <2>1 DEF SaveWrite, Target, Copies, TypeOK
<1>10. CASE EraseFirst
  BY <1>0, <1>10 DEF EraseFirst, EraseFails, ram, Copies, TypeOK
<1>11. CASE EraseSecond
  BY <1>0, <1>11 DEF EraseSecond, EraseFails, ram, Copies, TypeOK
<1>12. CASE UNCHANGED vars
  BY <1>12 DEF vars, TypeOK
<1> QED
  BY <1>2, <1>3, <1>4, <1>7, <1>8, <1>9, <1>10, <1>11, <1>12 DEF Next

LEMMA InvNext == Inv /\ Reliable /\ [Next]_vars => Inv'
<1> SUFFICES ASSUME Inv, Reliable, [Next]_vars PROVE Inv'
  OBVIOUS
<1> USE EnvMmcAssumption
<1>a. UNCHANGED conf
  BY DEF Next, vars
<1>b. TypeOK'
  BY TypeNext DEF Inv
<1>c. \A x \in {"nodev", "read", "switch", "write", "report", "erase"} : ~MayFail(x)
  BY DEF MayFail, Reliable
<1>d. Readable = {Copies}
  BY <1>c DEF Readable
<1>1. CASE PowerOn
  BY <1>1, <1>a, <1>d, LoadKeeps DEF PowerOn
<1>2. CASE Reload
  <2>1. env_valid \in {"VALID", "REDUND"}
    BY <1>2 DEF Reload, Inv, TypeOK
  <2> QED
    BY <1>2, <1>a, <1>d, <2>1, LoadKeeps DEF Reload, Inv, TypeOK
<1>3. CASE Select
  BY <1>3 DEF Select, Reliable
<1>4. CASE PowerOff
  BY <1>4, <1>b DEF PowerOff, Inv, BootsWith, Chosen, Ok
<1>5. ASSUME NEW v \in Vals, SetEnv(v) PROVE Inv'
  BY <1>5, <1>b DEF SetEnv, Inv, BootsWith, Chosen, Ok, Active, Target
<1>6. CASE SaveStart
  BY <1>6, <1>a, SaveStartKeeps
<1>7. CASE SaveNot
  BY <1>7, <1>b, <1>c DEF SaveNot, Inv, BootsWith, Chosen, Ok, Active, Target
<1>8. CASE SaveFail
  BY <1>8, <1>c DEF SaveFail
<1>9. CASE SaveWrite
  BY <1>9, <1>a, SaveWriteKeeps
<1>10. CASE SaveReturn
  <2>1. /\ Target \in {0, 1} /\ Active' = Target /\ env_valid' \in {"VALID", "REDUND"}
    BY <1>10 DEF SaveReturn, Target, Active, Inv, TypeOK
  <2>2. Chosen(Copies)' = Target /\ copy'[Target] = Stored(env_flags', env)
    BY <1>10, <2>1 DEF SaveReturn, Inv, Chosen, Ok
  <2>3. Ok(Active)' /\ copy'[Active'].flags = env_flags' /\ BootsWith' = env
    BY <2>1, <2>2 DEF Ok, Stored, BootsWith
  <2>4. (BootsWith \in good)'
    BY <1>10, <2>3 DEF SaveReturn
  <2> QED
    BY <1>10, <1>b, <2>1, <2>2, <2>3, <2>4 DEF SaveReturn, Inv
<1>11. CASE EraseFirst /\ pc' = "ready"
  BY <1>11, <1>b, <1>c DEF EraseFirst, ram, Inv, BootsWith, Chosen, Ok, Active, Target
<1>12. CASE EraseFirst /\ pc' # "ready"
  <2>1. copy' = [copy EXCEPT ![0] = Bad] /\ pc' = "erasing" /\ good' = Vals
    BY <1>12, <1>c DEF EraseFirst, EraseFails
  <2>2. copy'[0] = Bad /\ copy'[1] \in {Bad} \cup [crc : {"ok"}, flags : 0 .. SerialMod - 1, val : Vals]
    BY <2>1, <1>b DEF Inv, TypeOK, Copies
  <2>3. Chosen(Copies)' = 2 \/ (Chosen(Copies)' = 1 /\ Ok(1)')
    BY <2>2 DEF Chosen, Ok, Bad, Copies
  <2>4. BootsWith' \in Vals
    BY <2>2, <2>3 DEF BootsWith, Ok, Bad
  <2> QED
    BY <1>12, <1>b, <2>1, <2>2, <2>4 DEF EraseFirst, ram, Inv
<1>13. CASE EraseSecond
  <2>1. copy' = [copy EXCEPT ![1] = Bad] /\ pc' = "ready" /\ copy[0] = Bad /\ good' = Vals
    BY <1>13, <1>c DEF EraseSecond, EraseFails, Inv
  <2>2. \A i \in Copies : copy'[i] = Bad
    BY <2>1 DEF Inv, TypeOK, Copies
  <2>3. BootsWith' = Default
    BY <2>2 DEF BootsWith, Chosen, Ok, Copies, Bad
  <2> QED
    BY <1>13, <1>b, <2>1, <2>2, <2>3 DEF EraseSecond, ram, Inv
<1>14. CASE UNCHANGED vars
  BY <1>14, <1>b DEF vars, Inv, BootsWith, Chosen, Ok, Active, Target
<1> QED
  BY <1>1, <1>2, <1>3, <1>4, <1>5, <1>6, <1>7, <1>8, <1>9, <1>10, <1>11, <1>12, <1>13, <1>14
  DEF Next

\* With two copies and a serial number that wraps, no power loss during
\* env_mmc_save(), env_mmc_erase() or a load loses the environment saved last
\* (PowerFailSafe), as long as the device operations themselves succeed.
THEOREM PowerFailSafeAlways == Spec => [](TypeOK /\ PowerFailSafe)
<1> DEFINE J == TypeOK /\ (Reliable => Inv)
<1>1. Init => J
  BY InvInit DEF Inv
<1>2. J /\ [Next]_vars => J'
  <2> SUFFICES ASSUME J, [Next]_vars PROVE J'
    OBVIOUS
  <2>1. Reliable' = Reliable
    BY DEF Next, vars, Reliable
  <2> QED
    BY <2>1, TypeNext, InvNext
<1>3. J => TypeOK /\ PowerFailSafe
  BY DEF Inv, PowerFailSafe
<1> QED
  BY <1>1, <1>2, <1>3, PTL DEF Spec
-----------------------------------------------------------------------------
\* What makes the target of a save the copy that may be lost: MMC is the only
\* location, copies can be read, and writes may fail.  Whenever one of the copies
\* is valid between two calls, the one env_valid names is.
KeepInv ==
  /\ pc # "off" => env_valid \in {"VALID", "REDUND"}
  /\ pc = "ready" => Ok(Active) \/ \A i \in Copies : ~Ok(i)
  /\ pc = "writing" => ~Ok(Target)
  /\ pc = "written" => Ok(Target)
  /\ pc \in {"erasing", "erasing_failed"} => ~Ok(0)

LEMMA KeepNext == TypeOK /\ KeepInv /\ SavesMayFail /\ [Next]_vars => KeepInv'
<1> SUFFICES ASSUME TypeOK, KeepInv, SavesMayFail, [Next]_vars PROVE KeepInv'
  OBVIOUS
<1>a. \A x \in {"nodev", "read", "switch", "report", "erase"} : ~MayFail(x)
  BY DEF MayFail, SavesMayFail
<1>b. Readable = {Copies}
  BY <1>a DEF Readable
<1>c. /\ Target \in {0, 1} /\ Active = 1 - Target /\ Bad.crc = "bad"
      /\ DOMAIN copy = {0, 1} /\ Copies = {0, 1}
  BY DEF Target, Active, Bad, TypeOK, Copies
<1>1. ASSUME NEW v \in {"VALID", "REDUND"}, NEW f, LoadFrom(v, f, Copies),
             UNCHANGED copy, pc' = "ready"
      PROVE  KeepInv'
  <2>1. Chosen(Copies) \in {0, 1, 2}
    BY DEF Chosen, Ok, Newer
  <2>2. Chosen(Copies) = 2 => \A i \in Copies : ~Ok(i)
    BY DEF Chosen, Ok, Newer, Copies
  <2>3. Chosen(Copies) # 2 => Ok(Chosen(Copies))
    BY DEF Chosen, Ok, Newer, Copies
  <2>4. Chosen(Copies) # 2 => Active' = Chosen(Copies) /\ env_valid' \in {"VALID", "REDUND"}
    BY <1>1, <2>1 DEF LoadFrom, Active, Target
  <2>5. Chosen(Copies) = 2 => env_valid' \in {"VALID", "REDUND"}
    BY <1>1 DEF LoadFrom
  <2> QED
    BY <1>1, <2>2, <2>3, <2>4, <2>5 DEF KeepInv, Ok
<1>2. CASE PowerOn
  BY <1>1, <1>2, <1>b DEF PowerOn
<1>3. CASE Reload
  BY <1>1, <1>3, <1>b DEF Reload, KeepInv
<1>4. CASE Select
  BY <1>4 DEF Select, SavesMayFail
<1>5. CASE PowerOff
  BY <1>5 DEF PowerOff, KeepInv
<1>6. CASE (\E v \in Vals : SetEnv(v)) \/ SaveNot
  BY <1>6 DEF SetEnv, SaveNot, KeepInv, Ok, Active, Target
<1>7. CASE SaveStart
  BY <1>7, <1>c DEF SaveStart, KeepInv, Ok, Target
<1>8. CASE SaveFail
  <2>1. Active' = Active /\ Target' = Target /\ ~Ok(Target)' /\ pc' = "ready"
    BY <1>8, <1>a DEF SaveFail, KeepInv, Ok, Active, Target
  <2>2. Ok(Active)' \/ \A i \in Copies : ~Ok(i)'
    BY <2>1, <1>c DEF Copies
  <2> QED
    BY <1>8, <2>1, <2>2 DEF SaveFail, KeepInv
<1>9. CASE SaveWrite
  BY <1>9, <1>c DEF SaveWrite, KeepInv, Ok, Target, Stored
<1>10. CASE SaveReturn
  <2>1. Active' = Target /\ env_valid' \in {"VALID", "REDUND"}
    BY <1>10 DEF SaveReturn, KeepInv, Active, Target
  <2> QED
    BY <1>10, <2>1 DEF SaveReturn, KeepInv, Ok
<1>11. CASE EraseFirst
  BY <1>11, <1>a, <1>c DEF EraseFirst, EraseFails, ram, KeepInv, Ok, Active, Target
<1>12. CASE EraseSecond
  <2>1. copy' = [copy EXCEPT ![1] = Bad] /\ pc' = "ready" /\ ~Ok(0)
    BY <1>12, <1>a DEF EraseSecond, EraseFails, KeepInv
  <2>2. \A i \in Copies : ~Ok(i)'
    BY <1>c, <2>1 DEF Ok
  <2> QED
    BY <1>12, <2>1, <2>2 DEF EraseSecond, ram, KeepInv
<1>13. CASE UNCHANGED vars
  BY <1>13 DEF vars, KeepInv, Ok, Active, Target
<1> QED
  BY <1>2, <1>3, <1>4, <1>5, <1>6, <1>7, <1>8, <1>9, <1>10, <1>11, <1>12, <1>13 DEF Next

\* A save never makes the last valid copy invalid (KeepsLastCopy), for every
\* number of serials and also when saves fail half way, if copies can be read,
\* erases work, MMC is the only location and no save that wrote its copy whole is
\* reported as failed: env_mmc_save() picks its target by gd->env_valid, which
\* then names a valid copy whenever there is one.
THEOREM KeepsLastCopyAlways == Spec => KeepsLastCopy
<1> DEFINE J == TypeOK /\ (SavesMayFail => KeepInv)
           Step == (SavesMayFail /\ pc = "ready" /\ pc' = "writing" /\ \E i \in Copies : Ok(i))
                     => \E i \in Copies : Ok(i)'
<1>1. Init => J
  BY InvInit DEF Inv, Init, KeepInv
<1>2. J /\ [Next]_vars => J'
  <2> SUFFICES ASSUME J, [Next]_vars PROVE J'
    OBVIOUS
  <2>1. SavesMayFail' = SavesMayFail
    BY DEF Next, vars, SavesMayFail
  <2> QED
    BY <2>1, TypeNext, KeepNext
<1>3. J /\ [Next]_vars => [Step]_vars
  <2> SUFFICES ASSUME J, [Next]_vars, SavesMayFail, pc = "ready", pc' = "writing",
                      \E i \in Copies : Ok(i)
               PROVE  \E i \in Copies : Ok(i)'
    OBVIOUS
  <2>1. SaveStart
    BY DEF Next, vars, PowerOn, Reload, Select, PowerOff, SetEnv, SaveNot, SaveFail,
           SaveWrite, SaveReturn, EraseFirst, EraseSecond
  <2>2. Ok(Active) /\ Target \in {0, 1} /\ Active = 1 - Target
    BY DEF KeepInv, Active, Target
  <2>3. copy'[Active] = copy[Active] /\ Active \in Copies
    BY <2>1, <2>2 DEF SaveStart, TypeOK, Copies
  <2> QED
    BY <2>2, <2>3 DEF Ok
<1> HIDE DEF J
<1> QED
  BY <1>1, <1>2, <1>3, PTL DEF Spec, KeepsLastCopy
-----------------------------------------------------------------------------
\* While the second copy is erased, the first one is, unless that was reported.
EraseInv == ~conf.hwRedund /\ pc = "erasing" => ~Ok(0)

LEMMA EraseNext ==
  TypeOK /\ EraseInv /\ ErasedMeansErased /\ [Next]_vars => (EraseInv /\ ErasedMeansErased)'
<1> SUFFICES ASSUME TypeOK, EraseInv, ErasedMeansErased, [Next]_vars
             PROVE  EraseInv' /\ ErasedMeansErased'
  OBVIOUS
<1>a. UNCHANGED conf
  BY DEF Next, vars
<1>b. DOMAIN copy = {0, 1} /\ Copies = {0, 1} /\ Bad.crc = "bad"
  BY DEF TypeOK, Copies, Bad
<1>1. CASE PowerOn \/ Reload \/ PowerOff \/ SaveNot \/ SaveFail \/ SaveReturn
  BY <1>1 DEF PowerOn, Reload, LoadFrom, PowerOff, SaveNot, SaveFail, SaveReturn, EraseInv,
              ErasedMeansErased
<1>2. CASE Select \/ \E v \in Vals : SetEnv(v)
  BY <1>2, <1>a DEF Select, SetEnv, EraseInv, ErasedMeansErased, Chosen, Ok
<1>3. CASE SaveStart \/ SaveWrite
  BY <1>3 DEF SaveStart, SaveWrite, EraseInv, ErasedMeansErased
<1>4. CASE EraseFirst
  BY <1>4, <1>a, <1>b DEF EraseFirst, EraseInv, ErasedMeansErased, Ok
<1>5. CASE EraseSecond
  <2>1. EraseInv'
    BY <1>5 DEF EraseSecond, EraseInv
  <2>2. ASSUME ~conf.hwRedund, ret' = "erased" PROVE Chosen(Copies)' = 2
    <3>1. copy' = [copy EXCEPT ![1] = Bad] /\ ~Ok(0)
      BY <1>5, <2>2 DEF EraseSecond, EraseFails, EraseInv
    <3>2. ~Ok(0)' /\ ~Ok(1)'
      BY <1>b, <3>1 DEF Ok
    <3> QED
      BY <3>2 DEF Chosen
  <2> QED
    BY <1>a, <2>1, <2>2 DEF ErasedMeansErased
<1>6. CASE UNCHANGED vars
  BY <1>6 DEF vars, EraseInv, ErasedMeansErased, Chosen, Ok
<1> QED
  BY <1>1, <1>2, <1>3, <1>4, <1>5, <1>6 DEF Next

\* env_mmc_erase() never reports that it erased the environment while a copy is
\* left (ErasedMeansErased), whatever fails, if both copies are in one partition.
THEOREM ErasedAlways == Spec => []ErasedMeansErased
<1>1. Init => TypeOK /\ EraseInv /\ ErasedMeansErased
  BY InvInit DEF Inv, Init, EraseInv, ErasedMeansErased
<1>2. TypeOK /\ EraseInv /\ ErasedMeansErased /\ [Next]_vars
        => (TypeOK /\ EraseInv /\ ErasedMeansErased)'
  BY TypeNext, EraseNext
<1> QED
  BY <1>1, <1>2, PTL DEF Spec
=============================================================================
