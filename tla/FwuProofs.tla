----------------------------- MODULE FwuProofs -----------------------------
(***************************************************************************)
(* What the FWU metadata, the banks and the trial state keep, for every    *)
(* number of banks, every set of images and every set of capsule batches.  *)
(***************************************************************************)
EXTENDS Fwu, TLAPS

Writing == pc \in {"primary", "secondary", "restore"}

\* The loop of efi_launch_capsules(), and all that follows the boot-time checks
\* up to it.
InLoop == pc \in {"next", "setimage", "applied"}
            \/ (pc \in {"primary", "secondary"} /\ cont = "applied")
AfterCheck == pc = "capsules" \/ InLoop

\* Where the control is, and what it says about the metadata.
Control ==
  /\ pc \in {"off", "validity", "restore", "primary", "secondary", "bootidx", "mismatch",
             "reverted", "capsules", "os", "next", "setimage", "applied", "switched", "reset"}
  /\ pc = "primary" => cont \in {"mismatch", "reverted", "applied", "switched"}
  /\ pc = "secondary" => cont \in {"bootidx", "mismatch", "reverted", "applied", "switched"}
  /\ pc = "restore" => cont = "bootidx" /\ md[1] = wr /\ (~MayFail("read") => ~Good(0))
  /\ pc = "secondary" => md[0] = wr
  /\ Writing => wr \in Mdata
  /\ pc \in {"bootidx", "mismatch"} /\ res = "ok" => md[0] \in Mdata /\ md[1] = md[0]
  /\ pc = "setimage" => Readable /\ cap.kind = "image" /\ cap \in Capsules /\ UpdateChecks
  /\ InLoop /\ pc # "next" => cap \notin todo /\ cap \in files

\* Where the boot-time checks passed outside of the trial state, every copy that
\* can be read, and the one being written, names the bank that was booted.
Booted ==
  /\ AfterCheck /\ UpdateChecks =>
       /\ \A k \in {0, 1} : Good(k) => md[k].active = boot
       /\ Writing => wr.active = boot
  /\ Writing /\ cont = "mismatch" => wr.active = boot
  /\ pc = "mismatch" /\ res = "ok" => md[0].active = boot
  /\ pc = "reverted" \/ (Writing /\ cont = "reverted") => in_trial

\* ... and, if the earlier stage boots the active bank and the metadata can always
\* be read, all its images are accepted.
Accepted ==
  /\ pc \in {"validity", "bootidx"} \/ (Writing /\ cont = "bootidx") =>
       (Readable => boot = Get.active)
  /\ pc # "mismatch" /\ ~(Writing /\ cont = "mismatch")
  /\ AfterCheck /\ UpdateChecks =>
       /\ \A k \in {0, 1} : Good(k) => ~Trial(md[k])
       /\ Writing => ~Trial(wr)

\* The metadata if no write and no read of it fails: between updates both copies
\* are the same and the only candidate.
Candidates ==
  /\ Readable /\ Get \in cand
  /\ pc \notin {"off", "validity", "primary", "secondary", "restore"} =>
       cand = {Get} /\ md[0] = md[1]
  /\ pc \in {"validity", "bootidx"} \/ (Writing /\ cont = "bootidx") => cand = {Get}
  /\ pc = "primary" => Good(1) /\ md[1] \in cand
  /\ Writing => wr \in cand
  /\ (pc \in {"bootidx", "mismatch", "reverted", "switched"}) => res = "ok"

\* Capsules whose image is still to be written; a capsule of another kind that is
\* still to be applied or counted.
Left == todo \cup (IF pc = "setimage" THEN {cap} ELSE {})
OtherLeft == \E c \in todo \cup (IF pc \in {"primary", "secondary", "applied"} THEN {cap} ELSE {}) :
               c.kind # "image"
Succeeding == capsule_update /\ update_status /\ ~(pc = "applied" /\ res = "failed")

\* An incomplete image of bank b is in the bank to be updated, and does not
\* survive the capsules that lead to the switch of the banks.
Repairable(b, i) ==
  /\ \A m \in cand : b = (m.active + 1) % NumBanks /\ ~Trial(m)
  /\ AfterCheck => UpdateChecks
  /\ pc # "reverted" /\ ~(Writing /\ cont = "reverted")
  /\ conf.fails = {} => HasImage(IF InLoop THEN Left ELSE files, i)
  /\ InLoop /\ Succeeding => HasImage(Left, i) \/ OtherLeft
Incomplete == \A b \in Banks, i \in Images : ~img[b][i] => Repairable(b, i)

IntactHyp == ~conf.fallback
             /\ (conf.fails = {} \/ (conf.fails = {"image"} /\ ~conf.powerLoss /\ FullBatches))

\* The capsule files if nothing but an image fails and power is not lost.
Files ==
  /\ pc = "next" => files = todo
  /\ InLoop /\ pc # "next" => files = todo \cup {cap}
  /\ ~InLoop => Full(files)

FilesHyp == conf.fails \subseteq {"image"} /\ ~conf.powerLoss /\ FullBatches

-----------------------------------------------------------------------------
\* The bank to be updated is a bank other than the active one.
LEMMA NextBank == \A a \in Banks : (a + 1) % NumBanks \in Banks /\ (a + 1) % NumBanks # a
<1> SUFFICES ASSUME NEW a \in Banks PROVE (a + 1) % NumBanks \in Banks /\ (a + 1) % NumBanks # a
  OBVIOUS
<1>1. CASE a + 1 < NumBanks
  <2>1. (a + 1) % NumBanks = a + 1
    BY <1>1, FwuAssumption DEF Banks
  <2> QED
    BY <1>1, <2>1, FwuAssumption DEF Banks
<1>2. CASE a + 1 = NumBanks
  <2>1. (a + 1) % NumBanks = 0
    BY <1>2, FwuAssumption DEF Banks
  <2> QED
    BY <1>2, <2>1, FwuAssumption DEF Banks
<1> QED
  BY <1>1, <1>2, FwuAssumption DEF Banks

\* A copy can be read exactly if it holds metadata.
LEMMA Copies ==
  ASSUME TypeOK
  PROVE  /\ \A k \in {0, 1} : Good(k) <=> md[k] \in Mdata
         /\ Readable => Get \in Mdata
         /\ \A k \in {0, 1} : ~Good(k) <=> md[k] = Torn
<1>1. \A m \in Mdata : m.crc = "ok"
  BY DEF Mdata
<1>2. Torn.crc = "bad"
  BY DEF Torn
<1>3. \A k \in {0, 1} : md[k] \in Mdata \/ md[k] = Torn
  BY DEF TypeOK
<1> QED
  BY <1>1, <1>2, <1>3 DEF Good, Get, Readable

\* fwu_clrset_image_accept() changes the one accept bit.
LEMMA AcceptWrites ==
  ASSUME NEW m \in Mdata, NEW i \in Images, NEW b \in Banks, NEW a \in BOOLEAN
  PROVE  LET n == [m EXCEPT !.accepted[i][b] = a] IN
         /\ n \in Mdata /\ n.active = m.active /\ n.previous = m.previous
         /\ \A j \in Images, c \in Banks :
              n.accepted[j][c] = IF j = i /\ c = b THEN a ELSE m.accepted[j][c]
<1> DEFINE acc == [m.accepted EXCEPT ![i] = [m.accepted[i] EXCEPT ![b] = a]]
           n == [m EXCEPT !.accepted[i][b] = a]
<1>1. /\ m.crc = "ok" /\ m.active \in Banks /\ m.previous \in Banks
      /\ m.accepted \in [Images -> [Banks -> BOOLEAN]]
  BY DEF Mdata
<1>2. acc \in [Images -> [Banks -> BOOLEAN]]
  BY <1>1
<1>3. \A j \in Images, c \in Banks :
        acc[j][c] = IF j = i /\ c = b THEN a ELSE m.accepted[j][c]
  BY <1>1
<1>4. n = [m EXCEPT !.accepted = acc]
  OBVIOUS
<1>5. n \in Mdata /\ n.active = m.active /\ n.previous = m.previous /\ n.accepted = acc
  <2> HIDE DEF acc, n
  <2> QED
    BY <1>1, <1>2, <1>4 DEF Mdata
<1> HIDE DEF acc
<1> QED
  BY <1>3, <1>5, Zenon

\* A write of one image changes the one image.
LEMMA ImageWrites ==
  ASSUME TypeOK, NEW b \in Banks, NEW i \in Images, NEW v \in BOOLEAN
  PROVE  LET n == [img EXCEPT ![b][i] = v] IN
         /\ n \in [Banks -> [Images -> BOOLEAN]]
         /\ \A c \in Banks, j \in Images : n[c][j] = IF c = b /\ j = i THEN v ELSE img[c][j]
<1> DEFINE n == [img EXCEPT ![b] = [img[b] EXCEPT ![i] = v]]
<1>1. img \in [Banks -> [Images -> BOOLEAN]]
  BY DEF TypeOK
<1>2. n \in [Banks -> [Images -> BOOLEAN]]
  BY <1>1
<1>3. \A c \in Banks, j \in Images : n[c][j] = IF c = b /\ j = i THEN v ELSE img[c][j]
  BY <1>1
<1>4. [img EXCEPT ![b][i] = v] = n
  OBVIOUS
<1> HIDE DEF n
<1> QED
  BY <1>2, <1>3, <1>4, Zenon

\* What the updates of the metadata write.
LEMMA Written ==
  ASSUME TypeOK, Readable
  PROVE  /\ Get \in Mdata /\ UpdateBank \in Banks /\ UpdateBank # Get.active
         /\ \A b \in Banks : SetActive(b) \in Mdata /\ SetActive(b).active = b
              /\ SetActive(b).previous = Get.active /\ SetActive(b).accepted = Get.accepted
         /\ Reverted \in Mdata /\ Reverted.active = Get.previous
         /\ Reverted.previous = Get.active /\ Reverted.accepted = Get.accepted
         /\ \A i \in Images, b \in Banks, a \in BOOLEAN :
              /\ Accept(i, b, a) \in Mdata /\ Accept(i, b, a).active = Get.active
              /\ Accept(i, b, a).previous = Get.previous
              /\ \A j \in Images, c \in Banks : Accept(i, b, a).accepted[j][c]
                   = IF j = i /\ c = b THEN a ELSE Get.accepted[j][c]
<1>1. Get \in Mdata
  BY Copies
<1>2. Get.active \in Banks /\ Get.previous \in Banks
  BY <1>1 DEF Mdata
<1>3. UpdateBank \in Banks /\ UpdateBank # Get.active
  BY <1>2, NextBank DEF UpdateBank
<1>4. ASSUME NEW b \in Banks
      PROVE  SetActive(b) \in Mdata /\ SetActive(b).active = b
               /\ SetActive(b).previous = Get.active /\ SetActive(b).accepted = Get.accepted
  BY <1>1, <1>2, Zenon DEF SetActive, Mdata
<1>5. Reverted \in Mdata /\ Reverted.active = Get.previous
        /\ Reverted.previous = Get.active /\ Reverted.accepted = Get.accepted
  BY <1>1, <1>2, Zenon DEF Reverted, Mdata
<1>6. ASSUME NEW i \in Images, NEW b \in Banks, NEW a \in BOOLEAN
      PROVE  /\ Accept(i, b, a) \in Mdata /\ Accept(i, b, a).active = Get.active
             /\ Accept(i, b, a).previous = Get.previous
             /\ \A j \in Images, c \in Banks : Accept(i, b, a).accepted[j][c]
                  = IF j = i /\ c = b THEN a ELSE Get.accepted[j][c]
  BY <1>1, AcceptWrites DEF Accept
<1> QED
  BY <1>1, <1>3, <1>4, <1>5, <1>6

\* Setting an accept bit sets it and clears no other.
LEMMA AcceptSets ==
  ASSUME TypeOK, Readable, NEW i \in Images, NEW b \in Banks, NEW j \in Images, NEW c \in Banks,
         Get.accepted[j][c] \/ (j = i /\ c = b)
  PROVE  Accept(i, b, TRUE).accepted[j][c]
<1>1. Get \in Mdata
  BY Copies
<1>2. Get.accepted \in [Images -> [Banks -> BOOLEAN]]
  BY <1>1 DEF Mdata
<1> DEFINE acc == [Get.accepted EXCEPT ![i] = [Get.accepted[i] EXCEPT ![b] = TRUE]]
<1>3. acc[j][c]
  BY <1>2
<1>4. Accept(i, b, TRUE) = [Get EXCEPT !.accepted = acc]
  BY DEF Accept
<1>5. Accept(i, b, TRUE).accepted = acc
  <2> HIDE DEF acc
  <2> QED
    BY <1>1, <1>4, Zenon DEF Mdata
<1> QED
  BY <1>3, <1>5, Zenon

\* An accept bit of another bank, or one that is set, puts no bank into trial state.
LEMMA AcceptTrial ==
  ASSUME TypeOK, Readable, NEW i \in Images, NEW b \in Banks, NEW a \in BOOLEAN,
         ~Trial(Get), a \/ b # Get.active
  PROVE  ~Trial(Accept(i, b, a))
<1>1. Get.active \in Banks
  BY Written DEF Mdata
<1> QED
  BY <1>1, Written DEF Trial
-----------------------------------------------------------------------------
LEMMA TypeInit == Init => TypeOK /\ Control
<1> SUFFICES ASSUME Init PROVE TypeOK /\ Control
  OBVIOUS
<1>1. 0 \in Banks /\ 1 \in Banks
  BY FwuAssumption DEF Banks
<1>2. [i2 \in Images |-> [b \in Banks |-> TRUE]] \in [Images -> [Banks -> BOOLEAN]]
  OBVIOUS
<1>3. \A k \in {0, 1} : md[k] \in Mdata
  BY <1>1, <1>2 DEF Init, Mdata
<1>4. md \in [{0, 1} -> Mdata \cup {Torn}] /\ cand \subseteq Mdata
  BY <1>3 DEF Init
<1>5. ctr \in 0 .. NoCtr /\ trialBoots \in 0 .. TrialCnt + 2
  BY FwuAssumption DEF Init, NoCtr
<1>6. osind \in BOOLEAN /\ in_trial \in BOOLEAN /\ check \in BOOLEAN
        /\ capsule_update \in BOOLEAN /\ update_status \in BOOLEAN /\ accept_os \in BOOLEAN
  BY Zenon DEF Init
<1>7. img \in [Banks -> [Images -> BOOLEAN]]
  BY DEF Init
<1>8. TypeOK
  BY <1>1, <1>4, <1>5, <1>6, <1>7 DEF Init, TypeOK
<1>9. Control
  BY DEF Init, Control, Writing, InLoop
<1> QED
  BY <1>8, <1>9

LEMMA SameConf ==
  [Next]_vars => /\ conf' = conf
                 /\ \A f : MayFail(f)' <=> MayFail(f)
                 /\ FullBatches' <=> FullBatches
BY DEF Next, vars, MayFail, FullBatches, Full, HasImage

\* What fwu_check_mdata_validity() finds and does next.
LEMMA ValidityCases ==
  ASSUME TypeOK, Validity
  PROVE  \/ Good(0) /\ Good(1) /\ md[0] = md[1] /\ pc' = "bootidx" /\ res' = "ok" /\ wr' = wr
         \/ Good(0) /\ wr' = md[0] /\ pc' = "secondary" /\ res' = res
         \/ /\ Good(1) /\ (~MayFail("read") => ~Good(0))
            /\ wr' = md[1] /\ pc' = "restore" /\ res' = res
         \/ (~MayFail("read") => ~Readable) /\ pc' = "bootidx" /\ res' = "failed" /\ wr' = wr
<1>1. PICK R \in ReadSets :
        LET valid == {k \in R : Good(k)} IN
        \/ valid = {0, 1} /\ md[0] = md[1] /\ pc' = "bootidx" /\ res' = "ok" /\ wr' = wr
        \/ /\ valid = {0} \/ (valid = {0, 1} /\ md[0] # md[1])
           /\ wr' = md[0] /\ pc' = "secondary" /\ res' = res
        \/ valid = {1} /\ wr' = md[1] /\ pc' = "restore" /\ res' = res
        \/ valid = {} /\ pc' = "bootidx" /\ res' = "failed" /\ wr' = wr
  BY Zenon DEF Validity
<1>2. R \subseteq {0, 1} /\ (~MayFail("read") => R = {0, 1})
  BY <1>1 DEF ReadSets
<1> QED
  BY <1>1, <1>2 DEF Readable

LEMMA TypeNext == TypeOK /\ Control /\ [Next]_vars => TypeOK'
<1> SUFFICES ASSUME TypeOK, Control, [Next]_vars PROVE TypeOK'
  OBVIOUS
<1>a. conf' = conf
  BY DEF Next, vars
<1>b. TrialCnt \in Nat /\ NoCtr = TrialCnt + 1 /\ 0 \in Banks
  BY FwuAssumption DEF NoCtr, Banks
<1>c. \A m \in Mdata \cup {Torn}, k \in {0, 1} :
        [md EXCEPT ![k] = m] \in [{0, 1} -> Mdata \cup {Torn}]
  BY DEF TypeOK
<1>d. ctr \in 0 .. NoCtr /\ trialBoots \in 0 .. TrialCnt + 2
  BY DEF TypeOK
<1>1. CASE WritePrimary \/ WriteSecondary \/ Restore
  <2>1. wr \in Mdata
    BY <1>1 DEF Control, Writing, WritePrimary, WriteSecondary, Restore
  <2>2. md' \in [{0, 1} -> Mdata \cup {Torn}]
    BY <1>1, <1>c, <2>1 DEF TypeOK, WritePrimary, WriteSecondary, Restore, FailedWrite
  <2>3. cand' \subseteq Mdata /\ res' \in {"ok", "failed"}
    BY <1>1, <2>1 DEF TypeOK, WritePrimary, WriteSecondary, Restore, FailedWrite
  <2> QED
    BY <1>1, <1>a, <2>2, <2>3 DEF TypeOK, WritePrimary, WriteSecondary, Restore, loop, state
<1>2. CASE PowerOn
  <2>1. boot' \in Banks /\ cand' \subseteq Mdata
    BY <1>2, <1>b, Copies DEF PowerOn, TypeOK, Mdata
  <2> QED
    BY <1>2, <1>a, <2>1 DEF TypeOK, PowerOn, disk, loop
<1>3. CASE Validity \/ Deliver \/ BootInvalid \/ Mismatch
  <2>1. wr' \in Mdata \cup {Torn} /\ res' \in {"ok", "failed"}
    <3>1. CASE Validity
      BY <3>1, ValidityCases DEF TypeOK
    <3> QED
      BY <1>3, <3>1, Zenon DEF Deliver, BootInvalid, Mismatch, TypeOK, upd
  <2>2. files' \subseteq Capsules /\ todo' \subseteq files' /\ osind' \in BOOLEAN
    BY <1>3, FwuAssumption, Zenon
    DEF Validity, Deliver, BootInvalid, Mismatch, TypeOK, disk, loop, Config
  <2>3. check' \in BOOLEAN /\ trialBoots' \in 0 .. TrialCnt + 2
    <3>1. check' \in BOOLEAN
      BY <1>3, Zenon DEF Validity, Deliver, BootInvalid, Mismatch, TypeOK, Checked, state
    <3>2. trialBoots' \in {trialBoots, 0}
      BY <1>3, Zenon DEF Validity, Deliver, BootInvalid, Mismatch, hist
    <3> QED
      BY <1>b, <1>d, <3>1, <3>2
  <2> QED
    BY <1>3, <1>a, <2>1, <2>2, <2>3, Zenon
    DEF Validity, Deliver, BootInvalid, Mismatch, TypeOK, disk, loop, state, hist
<1>4. CASE BootMismatch
  <2>1. Readable
    BY <1>4, Copies DEF BootMismatch, Control, Readable
  <2> QED
    BY <1>4, <1>a, <2>1, Written DEF BootMismatch, Update, TypeOK, disk, loop, state
<1>5. CASE BootRegular \/ RevertedCtr
  <2>1. check' \in BOOLEAN /\ in_trial' \in BOOLEAN
    BY <1>5, Zenon DEF BootRegular, RevertedCtr, TypeOK, Checked
  <2>2. ctr' \in 0 .. NoCtr /\ trialBoots' \in 0 .. TrialCnt + 2
    <3>1. ctr' \in {ctr, NoCtr} /\ trialBoots' \in {trialBoots, 0}
      BY <1>5, Zenon DEF BootRegular, RevertedCtr
    <3> QED
      BY <1>b, <1>d, <3>1
  <2> QED
    BY <1>5, <1>a, <2>1, <2>2, Zenon DEF BootRegular, RevertedCtr, TypeOK, loop
<1>6. CASE BootTrial
  <2>1. Readable
    BY <1>6, Copies DEF BootTrial, Control, Readable
  <2>2. Capped(trialBoots + 1) \in 0 .. TrialCnt + 2
    BY <1>b DEF TypeOK, Capped
  <2>3. wr' \in Mdata \cup {Torn} /\ cand' \subseteq Mdata /\ res' \in {"ok", "failed"}
    BY <1>6, <2>1, Written, Zenon DEF BootTrial, Update, TypeOK
  <2>4. ctr' \in 0 .. NoCtr
    <3>1. ctr' = ctr \/ (ctr < TrialCnt /\ ctr' = ctr + 1)
      BY <1>6, Zenon DEF BootTrial
    <3> QED
      BY <1>b, <1>d, <3>1
  <2>5. check' \in BOOLEAN /\ in_trial' \in BOOLEAN
    BY <1>6, Zenon DEF BootTrial, Checked, TypeOK
  <2> QED
    BY <1>6, <1>a, <2>2, <2>3, <2>4, <2>5 DEF BootTrial, TypeOK, loop
<1>7. CASE Launch
  BY <1>7, <1>a, Zenon DEF Launch, TypeOK, state, hist
<1>8. CASE Apply
  <2>1. PICK c \in todo : todo' = todo \ {c} /\ cap' = c
              /\ \/ c.kind = "revert" /\ Readable /\ Update(Reverted, "applied")
                 \/ c.kind = "accept" /\ Readable
                      /\ Update(Accept(c.img, Get.active, TRUE), "applied")
                 \/ UNCHANGED <<wr, cand>> /\ res' \in {res, "failed"}
    BY <1>8, Zenon DEF Apply, Refuse
  <2>2. c \in Capsules /\ (c.kind = "accept" => c.img \in Images)
    BY <2>1 DEF TypeOK, Capsules
  <2>3. Readable => Get.active \in Banks
    BY Copies DEF Mdata
  <2>4. Readable /\ c.kind = "accept" => Accept(c.img, Get.active, TRUE) \in Mdata
    BY <2>2, <2>3, Written, Zenon
  <2>5. Readable => Reverted \in Mdata
    BY Written
  <2>6. wr' \in Mdata \cup {Torn} /\ cand' \subseteq Mdata /\ res' \in {"ok", "failed"}
    BY <2>1, <2>4, <2>5, Zenon DEF Update, TypeOK
  <2> QED
    BY <1>8, <1>a, <2>1, <2>2, <2>6 DEF Apply, TypeOK, disk, state
<1>9. CASE SetImage
  <2>1. Readable /\ cap.img \in Images /\ (~cap.os) \in BOOLEAN
    BY <1>9 DEF SetImage, Control, Capsules
  <2>2. UpdateBank \in Banks
    BY <2>1, Written
  <2>3. img' \in [Banks -> [Images -> BOOLEAN]]
    <3>1. \A v \in BOOLEAN : [img EXCEPT ![UpdateBank][cap.img] = v] \in [Banks -> [Images -> BOOLEAN]]
      BY <2>1, <2>2, ImageWrites
    <3> QED
      BY <1>9, <3>1, Zenon DEF SetImage, TypeOK
  <2>4. wr' \in Mdata \cup {Torn} /\ cand' \subseteq Mdata /\ res' \in {"ok", "failed"}
    <3>1. Accept(cap.img, UpdateBank, ~cap.os) \in Mdata
      BY <2>1, <2>2, Written, Zenon
    <3> QED
      BY <1>9, <3>1 DEF SetImage, Update, Refuse, TypeOK
  <2> QED
    BY <1>9, <1>a, <2>3, <2>4 DEF SetImage, TypeOK, loop, state
<1>10. CASE Applied
  <2>1. cap \notin todo
    BY <1>10 DEF Applied, Control, InLoop
  <2>2. files' \subseteq Capsules /\ todo' \subseteq files'
    BY <1>10, <2>1 DEF Applied, TypeOK
  <2>3. capsule_update' \in BOOLEAN /\ accept_os' \in BOOLEAN /\ update_status' \in BOOLEAN
    BY <1>10, Zenon DEF Applied, TypeOK
  <2> QED
    BY <1>10, <1>a, <2>2, <2>3 DEF Applied, TypeOK, NoCap, state, hist
<1>11. CASE Post
  <2>1. wr' \in Mdata \cup {Torn} /\ cand' \subseteq Mdata /\ res' = res
    BY <1>11, Written DEF Post, Update, TypeOK
  <2> QED
    BY <1>11, <1>a, <2>1 DEF Post, TypeOK, disk, loop, state
<1>12. CASE Switched
  BY <1>12, <1>a, <1>b DEF Switched, TypeOK, loop, state
<1>13. CASE PowerOff
  <2>1. md' \in [{0, 1} -> Mdata \cup {Torn}]
    BY <1>13, <1>c DEF PowerOff, Cut, TypeOK
  <2>2. img' \in [Banks -> [Images -> BOOLEAN]]
    <3>1. CASE pc = "setimage"
      <4>1. Readable /\ cap.img \in Images
        BY <3>1 DEF Control, Capsules
      <4>2. UpdateBank \in Banks
        BY <4>1, Written
      <4> QED
        <5>1. [img EXCEPT ![UpdateBank][cap.img] = FALSE] \in [Banks -> [Images -> BOOLEAN]]
          BY <4>1, <4>2, ImageWrites, Zenon
        <5> QED
          BY <1>13, <3>1, <5>1, Zenon DEF PowerOff, Cut, TypeOK
    <3> QED
      BY <1>13, <3>1 DEF PowerOff, Cut, TypeOK
  <2> QED
    BY <1>13, <1>a, <1>b, <2>1, <2>2, Zenon DEF PowerOff, TypeOK, hist
<1>14. CASE UNCHANGED vars
  BY <1>14 DEF vars, disk, upd, loop, state, hist, TypeOK
<1> QED
  BY <1>1, <1>2, <1>3, <1>4, <1>5, <1>6, <1>7, <1>8, <1>9, <1>10, <1>11, <1>12, <1>13, <1>14
  DEF Next

LEMMA SameMd ==
  ASSUME md' = md
  PROVE  /\ Readable' <=> Readable
         /\ Get' = Get /\ UpdateBank' = UpdateBank
         /\ \A k \in {0, 1} : Good(k)' <=> Good(k)
BY DEF Readable, Get, UpdateBank, Good

LEMMA ControlNext == TypeOK /\ Control /\ [Next]_vars => Control'
<1> SUFFICES ASSUME TypeOK, Control, [Next]_vars PROVE Control'
  OBVIOUS
<1> USE DEF Writing, InLoop
<1>1. CASE WritePrimary
  <2>1. wr \in Mdata /\ DOMAIN md = {0, 1} /\ UNCHANGED <<cont, wr, todo, cap>>
    BY <1>1 DEF WritePrimary, Control, TypeOK, loop
  <2>2. CASE md' = [md EXCEPT ![0] = wr] /\ pc' = "secondary"
    BY <1>1, <2>1, <2>2 DEF WritePrimary, Control
  <2>3. CASE pc' = cont /\ res' = "failed"
    BY <1>1, <2>1, <2>3 DEF WritePrimary, Control
  <2> QED
    BY <1>1, <2>2, <2>3 DEF WritePrimary, FailedWrite
<1>2. CASE WriteSecondary
  <2>1. wr \in Mdata /\ md[0] = wr /\ DOMAIN md = {0, 1} /\ UNCHANGED <<cont, wr, todo, cap>>
    BY <1>2 DEF WriteSecondary, Control, TypeOK, loop
  <2>2. CASE md' = [md EXCEPT ![1] = wr] /\ pc' = cont
    BY <1>2, <2>1, <2>2 DEF WriteSecondary, Control
  <2>3. CASE pc' = cont /\ res' = "failed"
    BY <1>2, <2>1, <2>3 DEF WriteSecondary, Control
  <2> QED
    BY <1>2, <2>2, <2>3 DEF WriteSecondary, FailedWrite
<1>3. CASE Restore
  <2>1. wr \in Mdata /\ md[1] = wr /\ DOMAIN md = {0, 1} /\ cont = "bootidx"
    BY <1>3 DEF Restore, Control, TypeOK
  <2>2. CASE md' = [md EXCEPT ![0] = wr] /\ pc' = cont
    BY <1>3, <2>1, <2>2 DEF Restore, Control
  <2>3. CASE pc' = cont /\ res' = "failed"
    BY <1>3, <2>1, <2>3 DEF Restore, Control
  <2> QED
    BY <1>3, <2>2, <2>3 DEF Restore, FailedWrite
<1>4. CASE PowerOn
  BY <1>4 DEF PowerOn, Control
<1>5. CASE Validity
  <2>1. UNCHANGED md /\ cont' = "bootidx" /\ (MayFail("read")' <=> MayFail("read"))
    BY <1>5, SameConf DEF Validity, disk
  <2> QED
    BY <1>5, <2>1, Copies, SameMd, ValidityCases DEF Control
<1>6. CASE BootMismatch
  <2>1. Readable
    BY <1>6, Copies DEF BootMismatch, Control, Readable
  <2>2. SetActive(boot) \in Mdata
    BY <2>1, Written DEF TypeOK
  <2> QED
    BY <1>6, <2>2 DEF BootMismatch, Update, Control, disk, loop
<1>7. CASE BootTrial
  <2>1. Readable
    BY <1>7, Copies DEF BootTrial, Control, Readable
  <2>2. Reverted \in Mdata
    BY <2>1, Written
  <2>3. CASE pc' = "capsules"
    BY <2>3 DEF Control
  <2>4. CASE Update(Reverted, "reverted")
    BY <2>4, <2>2 DEF Update, Control
  <2>5. CASE pc' = "reverted"
    BY <2>5 DEF Control
  <2> QED
    BY <1>7, <2>3, <2>4, <2>5 DEF BootTrial, Checked
<1>8. CASE BootInvalid \/ BootRegular \/ Mismatch \/ RevertedCtr \/ PowerOff \/ Deliver \/ Switched
  <2>1. pc' \in {"capsules", "off", "os", "reset"}
    BY <1>8 DEF BootInvalid, BootRegular, Mismatch, RevertedCtr, PowerOff, Deliver, Switched,
                Checked, upd
  <2> QED
    BY <2>1 DEF Control
<1>9. CASE Launch
  BY <1>9 DEF Launch, Control
<1>10. CASE Apply
  <2>1. PICK c \in todo : todo' = todo \ {c} /\ cap' = c
              /\ \/ Readable /\ (Update(Reverted, "applied")
                                   \/ (c.kind = "accept" /\ Update(Accept(c.img, Get.active, TRUE), "applied")))
                 \/ c.kind = "image" /\ UpdateChecks /\ Readable /\ pc' = "setimage"
                 \/ pc' = "applied"
    BY <1>10, Zenon DEF Apply, Refuse
  <2>2. c \in Capsules /\ (c.kind = "accept" => c.img \in Images) /\ c \in files
    BY <2>1 DEF TypeOK, Capsules
  <2>3. Readable => Get.active \in Banks
    BY Copies DEF Mdata
  <2>4. Readable /\ c.kind = "accept" => Accept(c.img, Get.active, TRUE) \in Mdata
    BY <2>2, <2>3, Written, Zenon
  <2>5. Readable => Reverted \in Mdata
    BY Written
  <2>6. UNCHANGED <<md, files>> /\ UpdateChecks' = UpdateChecks
    BY <1>10 DEF Apply, disk, state, UpdateChecks
  <2>7. CASE pc' = "applied"
    BY <2>1, <2>2, <2>6, <2>7 DEF Control
  <2>8. CASE c.kind = "image" /\ UpdateChecks /\ Readable /\ pc' = "setimage"
    BY <2>1, <2>2, <2>6, <2>8, SameMd DEF Control
  <2>9. CASE pc' = "primary" /\ cont' = "applied" /\ wr' \in Mdata
    BY <2>1, <2>2, <2>6, <2>9 DEF Control
  <2> QED
    BY <2>1, <2>4, <2>5, <2>7, <2>8, <2>9, Zenon DEF Update
<1>11. CASE SetImage
  <2>1. Readable /\ cap.img \in Images /\ (~cap.os) \in BOOLEAN
    BY <1>11 DEF SetImage, Control, Capsules
  <2>2. Accept(cap.img, UpdateBank, ~cap.os) \in Mdata
    BY <2>1, Written, Zenon
  <2>3. UNCHANGED <<md, todo, cap, files>> /\ cap \notin todo /\ cap \in files
    BY <1>11 DEF SetImage, Control, loop
  <2>4. CASE Update(Accept(cap.img, UpdateBank, ~cap.os), "applied")
    BY <2>2, <2>3, <2>4 DEF Update, Control
  <2>5. CASE pc' = "applied"
    BY <2>3, <2>5 DEF Control
  <2> QED
    BY <1>11, <2>4, <2>5 DEF SetImage, Refuse
<1>12. CASE Applied
  BY <1>12 DEF Applied, Control
<1>13. CASE Post
  <2>1. Readable => SetActive(UpdateBank) \in Mdata
    BY Written
  <2>2. CASE pc' = "reset"
    BY <2>2 DEF Control
  <2>3. CASE Readable /\ Update(SetActive(UpdateBank), "switched")
    BY <2>1, <2>3 DEF Update, Control
  <2> QED
    BY <1>13, <2>2, <2>3 DEF Post
<1>14. CASE UNCHANGED vars
  BY <1>14, SameMd, SameConf DEF vars, disk, upd, loop, state, Control, UpdateChecks
<1> QED
  BY <1>1, <1>2, <1>3, <1>4, <1>5, <1>6, <1>7, <1>8, <1>9, <1>10, <1>11, <1>12, <1>13, <1>14
  DEF Next

\* What the write of copy k leaves in the copies.
LEMMA CopyWritten ==
  ASSUME TypeOK, NEW k \in {0, 1}, wr \in Mdata,
         md' \in {md, [md EXCEPT ![k] = wr], [md EXCEPT ![k] = Torn]}
  PROVE  \A j \in {0, 1} : Good(j)' => md'[j] = wr \/ (Good(j) /\ md'[j] = md[j])
<1>1. DOMAIN md = {0, 1} /\ Torn.crc = "bad"
  BY DEF TypeOK, Torn
<1>2. \A j \in {0, 1} : md'[j] \in {md[j], wr, Torn}
  BY <1>1
<1> QED
  BY <1>1, <1>2 DEF Good

LEMMA BootedNext == TypeOK /\ Control /\ Booted /\ [Next]_vars => Booted'
<1> SUFFICES ASSUME TypeOK, Control, Booted, [Next]_vars PROVE Booted'
  OBVIOUS
<1> USE DEF Writing, InLoop, AfterCheck, UpdateChecks
<1>1. CASE WritePrimary
  <2>1. wr \in Mdata /\ UNCHANGED <<cont, wr, boot, in_trial, check>>
    BY <1>1 DEF WritePrimary, Control, state
  <2>2. md' \in {md, [md EXCEPT ![0] = wr], [md EXCEPT ![0] = Torn]}
    BY <1>1 DEF WritePrimary, FailedWrite
  <2>3. pc' = "secondary" \/ (pc' = cont /\ res' = "failed")
    BY <1>1 DEF WritePrimary, FailedWrite
  <2>4. \A j \in {0, 1} : Good(j)' => md'[j] = wr \/ (Good(j) /\ md'[j] = md[j])
    BY <2>1, <2>2, CopyWritten
  <2> QED
    BY <1>1, <2>1, <2>3, <2>4 DEF WritePrimary, Booted, Control
<1>2. CASE WriteSecondary
  <2>1. wr \in Mdata /\ UNCHANGED <<cont, wr, boot, in_trial, check>>
    BY <1>2 DEF WriteSecondary, Control, state
  <2>2. md' \in {md, [md EXCEPT ![1] = wr], [md EXCEPT ![1] = Torn]} /\ md'[0] = wr
    BY <1>2 DEF WriteSecondary, FailedWrite, Control, TypeOK
  <2>3. pc' = cont
    BY <1>2 DEF WriteSecondary, FailedWrite
  <2>4. \A j \in {0, 1} : Good(j)' => md'[j] = wr \/ (Good(j) /\ md'[j] = md[j])
    BY <2>1, <2>2, CopyWritten
  <2> QED
    BY <1>2, <2>1, <2>2, <2>3, <2>4 DEF WriteSecondary, Booted, Control
<1>3. CASE Restore \/ PowerOn \/ Validity
  BY <1>3 DEF Restore, FailedWrite, PowerOn, Validity, Booted, Control
<1>4. CASE BootMismatch
  <2>1. Readable
    BY <1>4, Copies DEF BootMismatch, Control, Readable
  <2>2. SetActive(boot).active = boot
    BY <2>1, Written DEF TypeOK
  <2> QED
    BY <1>4, <2>2 DEF BootMismatch, Update, Booted, state
<1>5. CASE BootRegular
  <2>1. md' = md /\ boot' = boot /\ pc' = "capsules"
    BY <1>5 DEF BootRegular, Checked
  <2>2. md[0] = Get /\ md[1] = Get /\ boot = Get.active
    BY <1>5, Copies DEF BootRegular, Control, Get
  <2> QED
    BY <2>1, <2>2 DEF Booted
<1>6. CASE BootTrial
  <2>1. in_trial' = TRUE /\ (pc' \in {"capsules", "reverted"} \/ (pc' = "primary" /\ cont' = "reverted"))
    BY <1>6 DEF BootTrial, Update, Checked
  <2> QED
    BY <2>1 DEF Booted
<1>7. CASE BootInvalid \/ Deliver \/ Switched \/ PowerOff
  <2>1. \/ check' = FALSE /\ pc' = "capsules"
        \/ pc' \in {"os", "reset", "off"}
    BY <1>7 DEF BootInvalid, Checked, Deliver, Switched, PowerOff, upd
  <2> QED
    BY <2>1 DEF Booted
<1>8. CASE Mismatch
  <2>1. UNCHANGED <<md, boot, in_trial>> /\ pc' = "capsules" /\ (check' => res = "ok")
    BY <1>8, Zenon DEF Mismatch, Checked, disk
  <2>2. res = "ok" => md[0].active = boot /\ md[1] = md[0]
    BY <1>8 DEF Mismatch, Booted, Control
  <2> QED
    BY <2>1, <2>2 DEF Booted
<1>9. CASE RevertedCtr
  <2>1. in_trial' /\ pc' = "capsules"
    BY <1>9 DEF RevertedCtr, Checked, Booted
  <2> QED
    BY <2>1 DEF Booted
<1>10. CASE Launch \/ Applied
  <2>1. UNCHANGED <<md, boot, in_trial, check>> /\ pc' \in {"next", "os"} /\ AfterCheck
    BY <1>10 DEF Launch, Applied, state
  <2> QED
    BY <2>1, SameMd DEF Booted
<1>11. CASE Apply
  <2>1. UNCHANGED <<md, boot, in_trial, check>> /\ AfterCheck
    BY <1>11 DEF Apply, disk, state
  <2>2. \/ in_trial /\ pc' = "primary" /\ cont' = "applied"
        \/ pc' \in {"setimage", "applied"}
    BY <1>11, Zenon DEF Apply, Refuse, Update, EmptyChecks
  <2> QED
    BY <2>1, <2>2, SameMd DEF Booted
<1>12. CASE SetImage
  <2>1. Readable /\ cap.img \in Images /\ (~cap.os) \in BOOLEAN
    BY <1>12 DEF SetImage, Control, Capsules
  <2>2. Accept(cap.img, UpdateBank, ~cap.os).active = Get.active
    BY <2>1, Written, Zenon
  <2>3. UNCHANGED <<md, boot, in_trial, check>> /\ AfterCheck /\ UpdateChecks
    BY <1>12 DEF SetImage, state, Control
  <2>4. Get.active = boot
    BY <2>1, <2>3 DEF Booted, Get, Readable
  <2>5. \/ pc' = "primary" /\ cont' = "applied" /\ wr'.active = boot
        \/ pc' = "applied"
    BY <1>12, <2>2, <2>4 DEF SetImage, Refuse, Update
  <2> QED
    BY <2>3, <2>5, SameMd DEF Booted
<1>13. CASE Post
  <2>1. pc' = "reset" \/ (pc' = "primary" /\ cont' = "switched")
    BY <1>13 DEF Post, Update
  <2> QED
    BY <2>1 DEF Booted
<1>14. CASE UNCHANGED vars
  BY <1>14, SameMd DEF vars, disk, upd, loop, state, Booted
<1> QED
  BY <1>1, <1>2, <1>3, <1>4, <1>5, <1>6, <1>7, <1>8, <1>9, <1>10, <1>11, <1>12, <1>13, <1>14
  DEF Next

\* Repairing a copy at boot does not change what is read.
LEMMA RepairKeeps ==
  ASSUME TypeOK, Control, WriteSecondary \/ Restore, cont = "bootidx", ~MayFail("read")
  PROVE  Get' = Get /\ Readable /\ Readable' /\ pc' = "bootidx"
<1>1. wr \in Mdata /\ DOMAIN md = {0, 1} /\ wr.crc = "ok" /\ Torn.crc = "bad"
  BY DEF WriteSecondary, Restore, Control, TypeOK, Writing, Mdata, Torn
<1>2. CASE WriteSecondary
  <2>1. md[0] = wr /\ md'[0] = wr /\ pc' = "bootidx"
    BY <1>1, <1>2 DEF WriteSecondary, FailedWrite, Control
  <2> QED
    BY <1>1, <2>1 DEF Get, Readable, Good
<1>3. CASE Restore
  <2>1. md[1] = wr /\ ~Good(0) /\ pc' = "bootidx" /\ md'[1] = wr /\ md'[0] \in {md[0], wr, Torn}
    BY <1>1, <1>3 DEF Restore, FailedWrite, Control
  <2> QED
    BY <1>1, <2>1 DEF Get, Readable, Good
<1> QED
  BY <1>2, <1>3

LEMMA AcceptedNext ==
  TypeOK /\ Control /\ Booted /\ Accepted /\ ~conf.fallback /\ ~MayFail("read") /\ [Next]_vars
    => Accepted'
<1> SUFFICES ASSUME TypeOK, Control, Booted, Accepted, ~conf.fallback, ~MayFail("read"),
                    [Next]_vars
             PROVE  Accepted'
  OBVIOUS
<1> USE DEF Writing, InLoop, AfterCheck, UpdateChecks
<1>1. CASE (WriteSecondary \/ Restore) /\ cont = "bootidx"
  <2>1. Get' = Get /\ Readable /\ pc' = "bootidx" /\ boot' = boot
    BY <1>1, RepairKeeps DEF WriteSecondary, Restore, state
  <2>2. boot = Get.active
    BY <1>1, <2>1 DEF Accepted, WriteSecondary, Restore
  <2> QED
    BY <2>1, <2>2 DEF Accepted
<1>2. CASE WritePrimary \/ (WriteSecondary /\ cont # "bootidx")
  <2>1. wr \in Mdata /\ UNCHANGED <<cont, wr, boot, in_trial, check>>
    BY <1>2 DEF WritePrimary, WriteSecondary, Control, state
  <2>2. PICK k \in {0, 1} : md' \in {md, [md EXCEPT ![k] = wr], [md EXCEPT ![k] = Torn]}
    BY <1>2 DEF WritePrimary, WriteSecondary, FailedWrite
  <2>3. (pc = "primary" /\ pc' = "secondary") \/ pc' = cont
    BY <1>2 DEF WritePrimary, WriteSecondary, FailedWrite
  <2>4. \A j \in {0, 1} : Good(j)' => md'[j] = wr \/ (Good(j) /\ md'[j] = md[j])
    BY <2>1, <2>2, CopyWritten
  <2>5. cont # "bootidx" /\ cont # "mismatch" /\ cont # "validity" /\ cont # "capsules"
          /\ pc \in {"primary", "secondary"}
    BY <1>2 DEF Control, Accepted, WritePrimary, WriteSecondary
  <2>6. ASSUME AfterCheck', UpdateChecks' PROVE AfterCheck /\ UpdateChecks /\ ~Trial(wr)
    BY <2>1, <2>3, <2>5, <2>6 DEF Accepted, Control
  <2>7. \A j \in {0, 1} : Trial(md[j])' <=> Trial(md'[j])
    BY DEF Trial
  <2>8. ASSUME AfterCheck', UpdateChecks', NEW j \in {0, 1}, Good(j)' PROVE ~Trial(md'[j])
    BY <2>4, <2>6, <2>8 DEF Accepted
  <2>9. Trial(wr)' <=> Trial(wr)
    BY <2>1 DEF Trial
  <2> QED
    BY <2>1, <2>3, <2>5, <2>6, <2>7, <2>8, <2>9 DEF Accepted, Control
<1>3. CASE Restore
  BY <1>1, <1>3 DEF Restore, Control
<1>4. CASE PowerOn
  <2>1. md' = md /\ pc' = "validity" /\ (Readable => boot' = Get.active)
    BY <1>4 DEF PowerOn, disk
  <2> QED
    BY <2>1, SameMd DEF Accepted
<1>5. CASE Validity
  <2>1. UNCHANGED <<md, boot>> /\ pc' \in {"bootidx", "secondary", "restore"} /\ cont' = "bootidx"
          /\ pc = "validity"
    BY <1>5 DEF Validity, disk, state
  <2> QED
    BY <2>1, SameMd DEF Accepted
<1>6. CASE BootMismatch
  <2>1. Readable
    BY <1>6, Copies DEF BootMismatch, Control, Readable
  <2> QED
    BY <1>6, <2>1 DEF BootMismatch, Accepted
<1>7. CASE BootRegular
  <2>1. md' = md /\ pc' = "capsules"
    BY <1>7 DEF BootRegular, Checked
  <2>2. md[0] = Get /\ md[1] = Get /\ ~Trial(Get)
    BY <1>7, Copies DEF BootRegular, Control, Get
  <2>3. ~Trial(md[0])' /\ ~Trial(md[1])'
    BY <2>1, <2>2 DEF Trial
  <2> QED
    BY <2>1, <2>3 DEF Accepted
<1>8. CASE BootTrial
  <2>1. in_trial' = TRUE /\ (pc' \in {"capsules", "reverted"} \/ (pc' = "primary" /\ cont' = "reverted"))
    BY <1>8 DEF BootTrial, Update, Checked
  <2> QED
    BY <2>1 DEF Accepted
<1>9. CASE BootInvalid \/ Deliver \/ Switched \/ PowerOff \/ RevertedCtr
  <2>1. \/ (check' = FALSE \/ in_trial') /\ pc' = "capsules"
        \/ pc' \in {"os", "reset", "off"}
    BY <1>9 DEF BootInvalid, Checked, Deliver, Switched, PowerOff, RevertedCtr, Booted, upd
  <2> QED
    BY <2>1 DEF Accepted
<1>10. CASE Mismatch
  BY <1>10 DEF Mismatch, Accepted
<1>11. ASSUME UNCHANGED <<md, in_trial, check>>, AfterCheck,
              ~Writing' \/ in_trial' \/ cont' = "switched"
                \/ (cont' = "applied" /\ UpdateChecks /\ ~Trial(wr')),
              pc' \in {"next", "os", "setimage", "applied", "reset"}
                \/ (pc' = "primary" /\ cont' \in {"applied", "switched"})
       PROVE  Accepted'
  <2>1. \A j \in {0, 1} : Trial(md[j])' <=> Trial(md[j])
    BY <1>11 DEF Trial
  <2>2. Trial(wr)' <=> Trial(wr')
    BY DEF Trial
  <2> QED
    BY <1>11, <2>1, <2>2, SameMd DEF Accepted
<1>12. CASE Launch \/ Applied
  BY <1>11, <1>12 DEF Launch, Applied, state
<1>13. CASE Apply
  <2>1. UNCHANGED <<md, in_trial, check>> /\ AfterCheck
    BY <1>13 DEF Apply, disk, state
  <2>2. \/ in_trial /\ pc' = "primary" /\ cont' = "applied"
        \/ pc' \in {"setimage", "applied"}
    BY <1>13, Zenon DEF Apply, Refuse, Update, EmptyChecks
  <2> QED
    BY <1>11, <2>1, <2>2
<1>14. CASE SetImage
  <2>1. Readable /\ cap.img \in Images /\ (~cap.os) \in BOOLEAN
    BY <1>14 DEF SetImage, Control, Capsules
  <2>2. UNCHANGED <<md, in_trial, check>> /\ AfterCheck /\ UpdateChecks
    BY <1>14 DEF SetImage, state, Control
  <2>3. ~Trial(Get)
    BY <2>1, <2>2 DEF Accepted, Get, Readable
  <2>4. ~Trial(Accept(cap.img, UpdateBank, ~cap.os))
    BY <2>1, <2>3, AcceptTrial, Written, Zenon
  <2>5. \/ pc' = "primary" /\ cont' = "applied" /\ ~Trial(wr')
        \/ pc' = "applied"
    BY <1>14, <2>4 DEF SetImage, Refuse, Update
  <2> QED
    BY <1>11, <2>2, <2>5
<1>15. CASE Post
  <2>1. pc' = "reset" \/ (pc' = "primary" /\ cont' = "switched")
    BY <1>15 DEF Post, Update
  <2> QED
    BY <1>11, <1>15, <2>1 DEF Post, disk, state
<1>16. CASE UNCHANGED vars
  BY <1>16, SameMd DEF vars, disk, upd, loop, state, Accepted, Trial
<1> QED
  BY <1>1, <1>2, <1>3, <1>4, <1>5, <1>6, <1>7, <1>8, <1>9, <1>10, <1>12, <1>13, <1>14, <1>15,
     <1>16
  DEF Next
-----------------------------------------------------------------------------
\* Between updates: an update of the metadata starts, or the metadata stays.
Settled == pc \notin {"off", "validity", "primary", "secondary", "restore"}

LEMMA CandidatesNext ==
  TypeOK /\ Control /\ Candidates /\ ~MayFail("md") /\ ~MayFail("read") /\ [Next]_vars
    => Candidates'
<1> SUFFICES ASSUME TypeOK, Control, Candidates, ~MayFail("md"), ~MayFail("read"), [Next]_vars
             PROVE  Candidates'
  OBVIOUS
<1> USE DEF Writing
<1>a. DOMAIN md = {0, 1} /\ Torn.crc = "bad" /\ \A m \in Mdata : m.crc = "ok"
  BY DEF TypeOK, Torn, Mdata
<1>1. CASE WritePrimary
  <2>1. /\ md'[0] = wr /\ pc' = "secondary" /\ UNCHANGED <<cand, cont, wr>>
        /\ wr \in Mdata /\ wr \in cand /\ cont # "bootidx"
    BY <1>1, <1>a DEF WritePrimary, FailedWrite, Control, Candidates
  <2> QED
    BY <1>a, <2>1 DEF Candidates, Readable, Get, Good
<1>2. CASE WriteSecondary
  <2>1. md'[0] = wr /\ md'[1] = wr /\ pc' = cont /\ cand' = {wr} /\ res' = "ok" /\ wr \in Mdata
    BY <1>2, <1>a DEF WriteSecondary, FailedWrite, Control
  <2>2. Readable' /\ Get' = wr /\ cont \notin {"primary", "secondary", "restore"}
    BY <1>2, <1>a, <2>1 DEF Readable, Get, Good, WriteSecondary, Control
  <2> QED
    BY <2>1, <2>2 DEF Candidates
<1>3. CASE Restore
  <2>1. /\ md'[0] = wr /\ md'[1] = wr /\ pc' = "bootidx" /\ cand' = cand /\ res' = "ok"
        /\ wr \in Mdata /\ md[1] = wr /\ ~Good(0) /\ cand = {Get}
    BY <1>3, <1>a DEF Restore, FailedWrite, Control, Candidates
  <2>2. Readable' /\ Get' = wr /\ Get = wr
    BY <1>a, <2>1 DEF Readable, Get, Good
  <2> QED
    BY <2>1, <2>2 DEF Candidates
<1>4. CASE PowerOn
  BY <1>4, SameMd DEF PowerOn, Candidates, disk
<1>5. CASE Validity
  <2>1. UNCHANGED <<md, cand>> /\ cand = {Get} /\ cont' = "bootidx" /\ Readable
    BY <1>5 DEF Validity, Candidates, disk, hist
  <2>2. \/ pc' = "bootidx" /\ res' = "ok" /\ md[0] = md[1]
        \/ pc' \in {"secondary", "restore"} /\ wr' = Get
    BY <1>5, <2>1, ValidityCases DEF Get
  <2> QED
    BY <2>1, <2>2, SameMd DEF Candidates
<1>6. ASSUME Settled, UNCHANGED md, NEW m, NEW k, Update(m, k), k # "bootidx"
      PROVE  Candidates'
  <2>1. cand = {Get} /\ md[0] = md[1] /\ Readable
    BY <1>6 DEF Settled, Candidates
  <2>2. Good(1) /\ md[1] \in cand
    BY <2>1 DEF Good, Get, Readable
  <2> QED
    BY <1>6, <2>1, <2>2, SameMd DEF Update, Candidates
<1>7. ASSUME Settled, Settled', pc' \notin {"bootidx", "mismatch", "reverted", "switched"},
             UNCHANGED <<md, cand>>
      PROVE  Candidates'
  BY <1>7, SameMd DEF Settled, Candidates
<1>8. CASE BootMismatch
  BY <1>6, <1>8 DEF BootMismatch, Settled, disk
<1>9. CASE BootInvalid
  BY <1>9 DEF BootInvalid, Candidates
<1>10. CASE BootRegular \/ Mismatch \/ RevertedCtr \/ Deliver \/ Launch \/ Applied \/ Switched
  BY <1>7, <1>10 DEF BootRegular, Mismatch, RevertedCtr, Deliver, Launch, Applied, Switched,
                     Checked, Settled, disk, upd, hist
<1>11. CASE BootTrial
  <2>1. Settled /\ UNCHANGED md
    BY <1>11 DEF BootTrial, Settled
  <2>2. (pc' = "capsules" /\ UNCHANGED cand) \/ Update(Reverted, "reverted")
    BY <1>11 DEF BootTrial, Checked
  <2> QED
    BY <1>6, <1>7, <2>1, <2>2 DEF Settled
<1>12. CASE Apply
  <2>1. Settled /\ UNCHANGED md
    BY <1>12 DEF Apply, Settled, disk
  <2>2. \/ pc' \in {"setimage", "applied"} /\ UNCHANGED cand
        \/ \E m : Update(m, "applied")
    BY <1>12, Zenon DEF Apply, Refuse
  <2> QED
    BY <1>6, <1>7, <2>1, <2>2 DEF Settled
<1>13. CASE SetImage
  <2>1. Settled /\ UNCHANGED md
    BY <1>13 DEF SetImage, Settled
  <2>2. \/ pc' = "applied" /\ UNCHANGED cand
        \/ \E m : Update(m, "applied")
    BY <1>13 DEF SetImage, Refuse
  <2> QED
    BY <1>6, <1>7, <2>1, <2>2 DEF Settled
<1>14. CASE Post
  <2>1. Settled /\ UNCHANGED md
    BY <1>14 DEF Post, Settled, disk
  <2>2. (pc' = "reset" /\ UNCHANGED cand) \/ Update(SetActive(UpdateBank), "switched")
    BY <1>14 DEF Post
  <2> QED
    BY <1>6, <1>7, <2>1, <2>2 DEF Settled
<1>15. CASE PowerOff
  <2>1. pc' = "off" /\ cand' = cand
    BY <1>15 DEF PowerOff, hist
  <2>2. Readable' /\ Get' \in cand
    <3>1. CASE md' = md
      BY <3>1, SameMd DEF Candidates
    <3>2. CASE pc = "primary" /\ md' = [md EXCEPT ![0] = Torn]
      BY <1>a, <3>2 DEF Candidates, Readable, Get, Good
    <3>3. CASE pc = "restore" /\ md' = [md EXCEPT ![0] = Torn]
      BY <1>a, <3>3 DEF Candidates, Control, Readable, Get, Good
    <3>4. CASE pc = "secondary" /\ md' = [md EXCEPT ![1] = Torn]
      BY <1>a, <3>4 DEF Candidates, Control, Readable, Get, Good
    <3> QED
      BY <1>15, <3>1, <3>2, <3>3, <3>4 DEF PowerOff, Cut
  <2> QED
    BY <2>1, <2>2 DEF Candidates
<1>16. CASE UNCHANGED vars
  BY <1>16, SameMd DEF vars, disk, upd, hist, Candidates
<1> QED
  BY <1>1, <1>2, <1>3, <1>4, <1>5, <1>8, <1>9, <1>10, <1>11, <1>12, <1>13, <1>14, <1>15, <1>16
  DEF Next
-----------------------------------------------------------------------------
Inv ==
  /\ TypeOK /\ Control /\ Booted
  /\ ~conf.fallback /\ ~MayFail("read") => Accepted
  /\ ~MayFail("md") /\ ~MayFail("read") => Candidates

LEMMA InvInit == Init => Inv
<1> SUFFICES ASSUME Init PROVE Inv
  OBVIOUS
<1>1. TypeOK /\ Control
  BY TypeInit
<1>2. Good(0) /\ Good(1)
  BY DEF Init, Good
<1>3. Booted /\ Accepted
  BY DEF Init, Booted, Accepted, AfterCheck, InLoop, Writing
<1>4. Candidates
  BY <1>2 DEF Init, Candidates, Readable, Get, Writing
<1> QED
  BY <1>1, <1>3, <1>4 DEF Inv

LEMMA InvNext == Inv /\ [Next]_vars => Inv'
<1> SUFFICES ASSUME Inv, [Next]_vars PROVE Inv'
  OBVIOUS
<1>1. TypeOK' /\ Control' /\ Booted'
  BY TypeNext, ControlNext, BootedNext DEF Inv
<1>2. (~conf.fallback /\ ~MayFail("read") => Accepted)'
  BY AcceptedNext, SameConf DEF Inv
<1>3. (~MayFail("md") /\ ~MayFail("read") => Candidates)'
  BY CandidatesNext, SameConf DEF Inv
<1> QED
  BY <1>1, <1>2, <1>3 DEF Inv

\* Wherever power is lost, if no write and no read of the metadata fails, the
\* metadata can be read and is the value before or after the update under way
\* (MetadataSafe), for every number of banks and images: fwu_gpt_update_mdata()
\* writes one copy after the other, and fwu_check_mdata_validity() repairs from
\* the copy that was read.
THEOREM MetadataSafeAlways == Spec => []MetadataSafe
<1>1. Inv => MetadataSafe
  BY DEF Inv, MetadataSafe, Candidates
<1> QED
  BY <1>1, InvInit, InvNext, PTL DEF Spec

\* Whatever fails and whichever bank was booted, no image is written into the
\* bank the platform runs from (SparesRunning).
THEOREM SparesRunningAlways == Spec => []SparesRunning
<1>1. Inv => SparesRunning
  <2> SUFFICES ASSUME Inv, pc = "setimage" PROVE UpdateBank # boot
    BY DEF SparesRunning
  <2>1. TypeOK /\ Readable /\ UpdateChecks
    BY DEF Inv, Control
  <2>2. Get.active = boot
    BY <2>1 DEF Inv, Booted, AfterCheck, InLoop, Get, Readable
  <2> QED
    BY <2>1, <2>2, Written
<1> QED
  BY <1>1, InvInit, InvNext, PTL DEF Spec

\* No image is updated while an image of the active bank waits to be accepted
\* (NoUpdateInTrial), if the earlier stage boots the active bank and no read of the
\* metadata fails, whatever else does: a bank that is found to differ from the
\* active one is not checked for the trial state.
THEOREM NoUpdateInTrialAlways == Spec => []NoUpdateInTrial
<1>1. Inv => NoUpdateInTrial
  <2> SUFFICES ASSUME Inv, pc = "setimage", ~conf.fallback, ~MayFail("read") PROVE ~Trial(Get)
    BY DEF NoUpdateInTrial
  <2>1. TypeOK /\ Readable /\ UpdateChecks
    BY DEF Inv, Control
  <2> QED
    BY <2>1 DEF Inv, Accepted, AfterCheck, InLoop, Get, Readable
<1> QED
  BY <1>1, InvInit, InvNext, PTL DEF Spec
-----------------------------------------------------------------------------
LEMMA FilesNext == Inv /\ Files /\ FilesHyp /\ [Next]_vars => Files'
<1> SUFFICES ASSUME Inv, Files, FilesHyp, [Next]_vars PROVE Files'
  OBVIOUS
<1> USE DEF InLoop
<1>a. ~MayFail("delete") /\ ~MayFail("md") /\ ~MayFail("read") /\ ~conf.powerLoss
  BY DEF FilesHyp, MayFail
<1>b. files' = files => (Full(files)' <=> Full(files))
  BY DEF Full, HasImage
<1>1. CASE WritePrimary \/ WriteSecondary \/ Restore
  <2>1. UNCHANGED <<files, todo, cap>> /\ (InLoop' <=> InLoop) /\ pc # "next" /\ pc' # "next"
    BY <1>1, <1>a DEF WritePrimary, WriteSecondary, Restore, FailedWrite, Inv, Control, loop
  <2> QED
    BY <1>b, <2>1 DEF Files
<1>2. CASE PowerOn \/ Validity \/ BootMismatch \/ BootInvalid \/ BootRegular \/ BootTrial
             \/ Mismatch \/ RevertedCtr \/ Switched \/ PowerOff
  <2>1. UNCHANGED files /\ ~InLoop /\ ~InLoop'
    BY <1>2, <1>a, Zenon DEF PowerOn, Validity, BootMismatch, BootInvalid, BootRegular, BootTrial,
                     Mismatch, RevertedCtr, Switched, PowerOff, Checked, Update, disk
  <2> QED
    BY <1>b, <2>1 DEF Files
<1>3. CASE Deliver
  <2>1. PICK b \in conf.batches : files' = files \cup b
    BY <1>3 DEF Deliver
  <2>2. Full(files) /\ Full(b) /\ pc' = "os"
    BY <1>3, <2>1 DEF Deliver, Files, FilesHyp, FullBatches, upd
  <2>3. Full(files')
    BY <2>1, <2>2 DEF Full, HasImage
  <2> QED
    BY <2>2, <2>3 DEF Files, Full, HasImage
<1>4. CASE Launch
  BY <1>4, <1>b DEF Launch, Files
<1>5. CASE Apply
  <2>1. \E c \in todo : todo' = todo \ {c} /\ cap' = c
    BY <1>5 DEF Apply
  <2>2. InLoop' /\ pc' # "next" /\ files' = files /\ files = todo
    BY <1>5, Zenon DEF Apply, Refuse, Update, Files, disk
  <2> QED
    BY <2>1, <2>2 DEF Files
<1>6. CASE SetImage
  <2>1. InLoop' /\ pc' # "next" /\ UNCHANGED <<files, todo, cap>> /\ pc = "setimage"
    BY <1>6 DEF SetImage, Refuse, Update, loop
  <2> QED
    BY <2>1 DEF Files
<1>7. CASE Applied
  <2>1. pc' = "next" /\ files' = files \ {cap} /\ files = todo \cup {cap} /\ todo' = todo
    BY <1>7, <1>a DEF Applied, Files
  <2>2. cap \notin todo
    BY <1>7 DEF Applied, Inv, Control
  <2> QED
    BY <2>1, <2>2 DEF Files
<1>8. CASE Post
  <2>1. ~InLoop' /\ files' = {}
    BY <1>8 DEF Post, Update, Files, disk
  <2> QED
    BY <2>1 DEF Files, Full
<1>9. CASE UNCHANGED vars
  BY <1>9, <1>b DEF vars, disk, upd, loop, Files
<1> QED
  BY <1>1, <1>2, <1>3, <1>4, <1>5, <1>6, <1>7, <1>8, <1>9 DEF Next

\* One step, for one image that is incomplete before and after it.
LEMMA StaysRepairable ==
  ASSUME Inv, IntactHyp, FilesHyp => Files, [Next]_vars,
         NEW b \in Banks, NEW i \in Images, ~img[b][i], ~img'[b][i], Repairable(b, i)
  PROVE  Repairable(b, i)'
<1> USE DEF InLoop, AfterCheck, UpdateChecks, Writing
<1>a. /\ ~MayFail("delete") /\ ~MayFail("md") /\ ~MayFail("read") /\ ~MayFail("ctr") /\ conf' = conf
      /\ ~conf.fallback /\ (MayFail("image") \/ conf.powerLoss => conf.fails = {} \/ FilesHyp)
  BY SameConf DEF IntactHyp, FilesHyp, MayFail
<1>b. TypeOK /\ Control /\ Accepted /\ Candidates
  BY <1>a DEF Inv
<1>c. \A j : (HasImage(Left, j)' <=> HasImage(Left', j)) /\ (HasImage(files, j)' <=> HasImage(files', j))
  BY DEF HasImage
<1>d. \A m : Trial(m)' <=> Trial(m)
  BY DEF Trial
<1>e. Readable /\ Get \in cand /\ ~Trial(Get) /\ b = UpdateBank
  BY <1>b DEF Candidates, Repairable, UpdateBank
\* Outside of the loop the files only grow.
<1>1. ASSUME cand' \subseteq cand, ~InLoop, ~InLoop', files \subseteq files',
             pc' = "capsules" => UpdateChecks',
             pc' # "reverted" /\ ~(Writing' /\ cont' = "reverted")
      PROVE  Repairable(b, i)'
  <2>1. conf.fails = {} => HasImage(files, i)
    BY <1>1 DEF Repairable
  <2>2. conf.fails = {} => HasImage(files', i)
    BY <1>1, <2>1 DEF HasImage
  <2> QED
    BY <1>1, <1>a, <1>c, <1>d, <2>2 DEF Repairable
<1>2. CASE (WritePrimary \/ WriteSecondary \/ Restore) /\ cont # "applied"
  <2>1. UNCHANGED <<files, cont>> /\ cand' \subseteq cand /\ pc' \in {"secondary", cont}
    BY <1>2, <1>a, <1>b, Zenon DEF WritePrimary, WriteSecondary, Restore, FailedWrite, Candidates
  <2>2. cont \in {"bootidx", "mismatch", "switched"} /\ pc \in {"primary", "secondary", "restore"}
    BY <1>2, <1>b, Zenon DEF WritePrimary, WriteSecondary, Restore, Control, Repairable
  <2> QED
    BY <1>1, <2>1, <2>2
<1>3. CASE (WritePrimary \/ WriteSecondary \/ Restore) /\ cont = "applied"
  <2>1. /\ UNCHANGED <<todo, cap, cont, in_trial, check, capsule_update, update_status>>
        /\ cand' \subseteq cand /\ pc \in {"primary", "secondary"}
        /\ pc' = "secondary" \/ (pc' = "applied" /\ res' = "ok")
    BY <1>3, <1>a, <1>b, Zenon DEF WritePrimary, WriteSecondary, Restore, FailedWrite, Candidates,
                            Control, loop, state
  <2>2. Left = todo /\ Left' = Left /\ (OtherLeft' <=> OtherLeft) /\ (Succeeding' => Succeeding)
    BY <2>1, Zenon DEF Left, OtherLeft, Succeeding
  <2>3. InLoop /\ InLoop'
    BY <1>3, <2>1, Zenon
  <2> QED
    BY <1>a, <1>c, <1>d, <2>1, <2>2, <2>3, Zenon DEF Repairable
<1>4. CASE PowerOn \/ Validity \/ Switched \/ Deliver
  <2>1. cand' \subseteq cand /\ ~InLoop /\ ~InLoop' /\ files \subseteq files' /\ pc' # "capsules"
          /\ pc' # "reverted" /\ ~(Writing' /\ cont' = "reverted")
    BY <1>4, <1>e, Zenon DEF PowerOn, Validity, Switched, Deliver, disk, hist, upd
  <2> QED
    BY <1>1, <2>1, Zenon
<1>5. CASE BootMismatch \/ BootInvalid \/ BootTrial \/ Mismatch \/ RevertedCtr
  BY <1>5, <1>a, <1>b, <1>e, Zenon DEF BootMismatch, BootInvalid, BootTrial, Mismatch, RevertedCtr,
                          Accepted, Candidates, Repairable
<1>6. CASE BootRegular
  <2>1. pc' = "capsules" /\ in_trial' = FALSE /\ check' = TRUE /\ UNCHANGED <<files, cand>>
    BY <1>6, <1>a, Zenon DEF BootRegular, Checked
  <2> QED
    BY <1>1, <1>6, <2>1 DEF BootRegular
<1>7. CASE Launch
  <2>1. UNCHANGED <<in_trial, check, files, cand>> /\ pc = "capsules"
    BY <1>7 DEF Launch, state, hist
  <2>2. CASE pc' = "os"
    BY <1>1, <2>1, <2>2
  <2>3. CASE pc' = "next" /\ todo' = files /\ files # {}
    <3>1. Left' = files
      BY <2>3 DEF Left
    <3>2. HasImage(files, i) \/ (\E c \in files : c.kind # "image")
      BY <1>a, <2>1, <2>3 DEF Repairable, Files, Full, IntactHyp, FilesHyp
    <3>3. HasImage(files, i) \/ OtherLeft'
      BY <2>3, <3>2 DEF OtherLeft
    <3> QED
      BY <1>a, <1>c, <1>d, <2>1, <2>3, <3>1, <3>3 DEF Repairable
  <2> QED
    BY <1>7, <2>2, <2>3 DEF Launch
<1>8. CASE Apply
  <2>1. /\ UpdateChecks /\ ~EmptyChecks /\ pc = "next"
        /\ UNCHANGED <<in_trial, check, files, capsule_update, update_status>>
    BY <1>8, Zenon DEF Apply, Repairable, EmptyChecks, disk, state
  <2>2. PICK c \in todo : /\ todo' = todo \ {c} /\ cap' = c /\ UNCHANGED cand
                          /\ \/ c.kind = "image" /\ pc' = "setimage"
                             \/ /\ pc' = "applied" /\ res' = "failed"
                                /\ c.kind = "image" => MayFail("image")
    BY <1>8, <1>a, <1>e, <2>1, Zenon DEF Apply, Refuse, ReadFails
  <2>3. Left = todo
    BY <2>1 DEF Left
  <2>4. CASE c.kind = "image" /\ pc' = "setimage"
    <3>1. Left' = todo /\ (Succeeding' <=> Succeeding)
      BY <2>1, <2>2, <2>4 DEF Left, Succeeding
    <3>2. OtherLeft => OtherLeft'
      BY <2>1, <2>2, <2>4 DEF OtherLeft
    <3> QED
      BY <1>a, <1>c, <1>d, <2>1, <2>2, <2>3, <2>4, <3>1, <3>2 DEF Repairable
  <2>5. CASE pc' = "applied" /\ res' = "failed" /\ (c.kind = "image" => MayFail("image"))
    <3>1. Left' = todo \ {c} /\ ~Succeeding'
      BY <2>2, <2>5 DEF Left, Succeeding
    <3>2. conf.fails = {} => HasImage(todo \ {c}, i)
      BY <2>1, <2>3, <2>5 DEF Repairable, HasImage, MayFail
    <3> QED
      BY <1>a, <1>c, <1>d, <2>1, <2>2, <2>5, <3>1, <3>2 DEF Repairable
  <2> QED
    BY <2>2, <2>4, <2>5
<1>9. CASE SetImage
  <2>1. /\ UNCHANGED <<in_trial, check, todo, cap, capsule_update, update_status>>
        /\ pc = "setimage" /\ cap.img \in Images /\ (~cap.os) \in BOOLEAN
        /\ Left = todo \cup {cap} /\ cand = {Get}
    BY <1>9, <1>b DEF SetImage, state, loop, Control, Capsules, Left, Candidates
  <2>2. UpdateBank # Get.active /\ UpdateBank \in Banks
    BY <1>b, <1>e, Written, Zenon
  <2>3. CASE Update(Accept(cap.img, UpdateBank, ~cap.os), "applied")
               /\ img' = [img EXCEPT ![UpdateBank][cap.img] = TRUE]
    <3> DEFINE new == Accept(cap.img, UpdateBank, ~cap.os)
    <3>1. i # cap.img
      <4>1. TypeOK /\ cap.img \in Images /\ UpdateBank \in Banks
        BY <1>b, <2>1, <2>2
      <4>2. [img EXCEPT ![UpdateBank][cap.img] = TRUE][UpdateBank][cap.img] = TRUE
        BY <4>1 DEF TypeOK
      <4> QED
        BY <1>e, <2>3, <4>1, <4>2
    <3>2. ~Trial(new)
      BY <1>b, <1>e, <2>1, <2>2, AcceptTrial, Zenon
    <3>3. new.active = Get.active
      BY <1>b, <1>e, <2>1, <2>2, Written, Zenon
    <3>4. cand' = {Get, new} /\ pc' = "primary" /\ cont' = "applied"
      BY <2>1, <2>3 DEF Update
    <3>5. Left' = todo /\ (HasImage(Left, i) => HasImage(todo, i)) /\ (OtherLeft => OtherLeft')
      BY <2>1, <3>1, <3>4, Zenon DEF Left, HasImage, OtherLeft
    <3>6. Succeeding' => Succeeding
      BY <2>1, Zenon DEF Succeeding
    <3> HIDE DEF new
    <3> QED
      BY <1>a, <1>c, <1>d, <1>e, <2>1, <3>2, <3>3, <3>4, <3>5, <3>6, Zenon DEF Repairable, UpdateBank
  <2>4. CASE (MayFail("image") \/ MayFail("read")) /\ Refuse
    <3>1. pc' = "applied" /\ ~Succeeding' /\ UNCHANGED cand
      BY <2>4 DEF Refuse, Succeeding
    <3>2. conf.fails # {}
      BY <2>4 DEF MayFail
    <3> QED
      BY <1>a, <1>c, <1>d, <2>1, <3>1, <3>2 DEF Repairable
  <2> QED
    BY <1>9, <2>3, <2>4 DEF SetImage
<1>10. CASE Applied
  <2>1. /\ UNCHANGED <<in_trial, check, todo, cand>> /\ pc = "applied" /\ pc' = "next"
        /\ Succeeding' => Succeeding /\ cap.kind = "image"
    <3>1. /\ UNCHANGED <<in_trial, check, todo, cand>> /\ pc = "applied" /\ pc' = "next"
      BY <1>10 DEF Applied, state, hist
    <3>2. Succeeding' => Succeeding /\ cap.kind = "image"
      <4>1. capsule_update' /\ update_status' =>
              res = "ok" /\ capsule_update /\ update_status /\ cap.kind = "image"
        BY <1>10, Zenon DEF Applied
      <4> QED
        BY <4>1 DEF Succeeding
    <3> QED
      BY <3>1, <3>2
  <2>2. Left = todo /\ Left' = todo /\ (OtherLeft /\ cap.kind = "image" => OtherLeft')
    BY <2>1 DEF Left, OtherLeft
  <2> QED
    BY <1>a, <1>c, <1>d, <2>1, <2>2 DEF Repairable
<1>11. CASE Post
  <2>1. ~HasImage(Left, i) /\ ~OtherLeft /\ pc = "next"
    BY <1>11 DEF Post, Left, HasImage, OtherLeft
  <2>2. ~Succeeding /\ conf.fails # {}
    BY <2>1 DEF Repairable
  <2>3. pc' = "reset" /\ UNCHANGED cand
    BY <1>11, <2>1, <2>2 DEF Post, Succeeding
  <2> QED
    BY <1>a, <1>c, <1>d, <2>2, <2>3 DEF Repairable
<1>12. CASE PowerOff
  <2>1. pc' = "off" /\ UNCHANGED <<files, cand>>
    BY <1>12 DEF PowerOff, hist
  <2>2. Left \subseteq files
    BY <1>b DEF Left, TypeOK, Control
  <2>3. conf.fails = {} => HasImage(files, i)
    BY <2>2 DEF Repairable, HasImage
  <2> QED
    BY <1>a, <1>c, <1>d, <2>1, <2>3 DEF Repairable
<1>13. CASE UNCHANGED vars
  <2>1. Left' = Left /\ (OtherLeft' <=> OtherLeft) /\ (Succeeding' <=> Succeeding)
    BY <1>13 DEF vars, loop, upd, Left, OtherLeft, Succeeding
  <2>2. UNCHANGED <<pc, cont, cand, files, in_trial, check>>
    BY <1>13 DEF vars, disk, upd, state, hist
  <2> QED
    BY <1>a, <1>c, <1>d, <2>1, <2>2, Zenon DEF Repairable
<1> QED
  BY <1>2, <1>3, <1>4, <1>5, <1>6, <1>7, <1>8, <1>9, <1>10, <1>11, <1>12, <1>13 DEF Next

\* An image that becomes incomplete is in the bank to be updated; power is lost
\* while its capsule is on the disk, or the update does not succeed.
LEMMA BecomesRepairable ==
  ASSUME Inv, IntactHyp, [Next]_vars,
         NEW b \in Banks, NEW i \in Images, img[b][i], ~img'[b][i]
  PROVE  Repairable(b, i)'
<1>1. /\ SetImage \/ PowerOff
      /\ pc = "setimage" /\ img' = [img EXCEPT ![UpdateBank][cap.img] = FALSE]
  <2>1. img' # img
    OBVIOUS
  <2>2. SetImage \/ PowerOff
    BY <2>1, Zenon DEF Next, vars, disk, WritePrimary, WriteSecondary, PowerOn, Validity, Restore,
       BootMismatch, BootInvalid, BootRegular, BootTrial, Mismatch, RevertedCtr, Deliver,
       Launch, Apply, Applied, Post, Switched
  <2>3. CASE PowerOff
    BY <2>1, <2>3 DEF PowerOff, Cut
  <2>4. CASE SetImage
    <3>1. cap.img \in Images /\ Readable /\ TypeOK
      BY <2>4 DEF SetImage, Inv, Control, Capsules
    <3>2. UpdateBank \in Banks
      BY <3>1, Written
    <3>3. img' \notin {img, [img EXCEPT ![UpdateBank][cap.img] = TRUE]}
      <4>1. [img EXCEPT ![UpdateBank][cap.img] = TRUE][b][i]
        BY <3>1, <3>2, ImageWrites
      <4> QED
        BY <2>1, <4>1, Zenon
    <3> QED
      BY <2>4, <3>3, Zenon DEF SetImage
  <2> QED
    BY <2>2, <2>3, <2>4
<1>2. /\ Readable /\ UpdateChecks /\ cap \in files /\ cap.kind = "image" /\ cap.img \in Images
      /\ TypeOK
  BY <1>1 DEF Inv, Control, InLoop, Capsules
<1>3. b = UpdateBank /\ i = cap.img
  BY <1>1, <1>2, Written, ImageWrites
<1>4. ~Trial(Get) /\ cand = {Get}
  BY <1>1, <1>2 DEF Inv, IntactHyp, MayFail, Accepted, Candidates, AfterCheck, InLoop, Get, Readable
<1>5. \A m : Trial(m)' <=> Trial(m)
  BY DEF Trial
<1>6. conf' = conf
  BY SameConf
<1>7. CASE PowerOff
  <2>1. pc' = "off" /\ UNCHANGED <<files, cand>>
    BY <1>7 DEF PowerOff, hist
  <2>2. HasImage(files, i)'
    BY <1>2, <1>3, <2>1 DEF HasImage
  <2> QED
    BY <1>3, <1>4, <1>5, <2>1, <2>2 DEF Repairable, AfterCheck, InLoop, Writing, UpdateBank
<1>8. CASE SetImage
  <2>1. img' \notin {img, [img EXCEPT ![UpdateBank][cap.img] = TRUE]}
    <3>1. [img EXCEPT ![UpdateBank][cap.img] = TRUE][b][i]
      BY <1>2, <1>3, ImageWrites
    <3> QED
      BY <3>1, Zenon
  <2>2. MayFail("image") /\ Refuse /\ UNCHANGED <<in_trial, check>>
    BY <1>8, <2>1 DEF SetImage, state
  <2>3. pc' = "applied" /\ ~Succeeding' /\ UNCHANGED cand /\ conf.fails # {}
    BY <2>2 DEF Refuse, Succeeding, MayFail
  <2> QED
    BY <1>2, <1>3, <1>4, <1>5, <1>6, <2>2, <2>3
    DEF Repairable, AfterCheck, InLoop, Writing, UpdateBank, UpdateChecks
<1> QED
  BY <1>1, <1>7, <1>8

\* The active bank holds complete images only (ActiveIntact), if the earlier stage
\* boots it: wherever power is lost if nothing fails, and whichever capsules fail
\* if no power is lost and each update covers all images.
\* efi_launch_capsules() deletes a file only after its capsule was processed, and
\* fwu_post_update_process() is not reached once one failed.
THEOREM ActiveIntactAlways == Spec => []ActiveIntact
<1> DEFINE J == Inv /\ (FilesHyp => Files) /\ (IntactHyp => Incomplete)
<1>1. Init => J
  <2> SUFFICES ASSUME Init PROVE J
    OBVIOUS
  <2>1. Files /\ Incomplete
    BY DEF Init, Files, Incomplete, InLoop, Full
  <2> QED
    BY <2>1, InvInit
<1>2. J /\ [Next]_vars => J'
  <2> SUFFICES ASSUME J, [Next]_vars PROVE J'
    OBVIOUS
  <2>1. (FilesHyp' <=> FilesHyp) /\ (IntactHyp' <=> IntactHyp)
    BY SameConf DEF FilesHyp, IntactHyp
  <2>2. Inv' /\ (FilesHyp => Files')
    BY InvNext, FilesNext
  <2>3. ASSUME IntactHyp PROVE Incomplete'
    <3> SUFFICES ASSUME NEW b \in Banks, NEW i \in Images, ~img'[b][i] PROVE Repairable(b, i)'
      BY DEF Incomplete
    <3>1. CASE img[b][i]
      BY <2>3, <3>1, BecomesRepairable
    <3>2. CASE ~img[b][i]
      BY <2>3, <3>2, StaysRepairable DEF Incomplete
    <3> QED
      BY <3>1, <3>2
  <2> QED
    BY <2>1, <2>2, <2>3
<1>3. J => ActiveIntact
  <2> SUFFICES ASSUME J, IntactHyp PROVE Readable /\ \A i \in Images : img[Get.active][i]
    BY DEF ActiveIntact, IntactHyp
  <2>1. TypeOK /\ Readable /\ Get \in cand
    BY DEF Inv, IntactHyp, MayFail, Candidates
  <2>2. Get.active \in Banks /\ UpdateBank # Get.active
    BY <2>1, Written DEF Mdata
  <2> QED
    BY <2>1, <2>2 DEF Incomplete, Repairable, UpdateBank
<1> HIDE DEF J
<1> QED
  BY <1>1, <1>2, <1>3, PTL DEF Spec
-----------------------------------------------------------------------------
NoRevert == \A b \in conf.batches : \A c \in b : c.kind # "revert"

\* What bounds the number of boots in trial state with metadata m.
Counted(m) == Trial(m) => /\ trialBoots <= ctr /\ ctr <= TrialCnt
                          /\ \A i \in Images : m.accepted[i][m.previous]

\* The metadata that is, or is about to be, in both copies.
Current == IF Writing THEN wr ELSE Get
OsPending == pc \in {"primary", "secondary", "applied"} /\ cap.kind = "image" /\ cap.os
At(k) == pc = k \/ (Writing /\ cont = k)

\* The trial state is entered by a switch of the banks only, which starts the
\* counter: an image that was not accepted was updated with accept_os.
CountInv ==
  /\ trialBoots <= TrialCnt + 1
  /\ ~At("switched") => Counted(Current)
  /\ At("reverted") => ~Trial(Current)
  /\ At("switched") => /\ Trial(Current) => accept_os
                       /\ \A i \in Images : Current.accepted[i][Current.previous]
LoopInv ==
  /\ \A c \in files : c.kind # "revert"
  /\ AfterCheck => check
  /\ pc = "next" /\ in_trial /\ capsule_update /\ update_status => todo # {}
  /\ InLoop /\ in_trial /\ pc # "next" => cap.kind # "image" \/ (pc = "applied" /\ res = "failed")
  /\ InLoop /\ ~in_trial /\ Succeeding =>
       \/ OtherLeft \/ accept_os \/ OsPending
       \/ \A i \in Images : HasImage(Left, i)
            \/ Current.accepted[i][(Current.active + 1) % NumBanks]

TrialHyp == FilesHyp /\ ~conf.fallback /\ NoRevert

LEMMA CountNext ==
  Inv /\ CountInv /\ LoopInv /\ TrialHyp /\ [Next]_vars => CountInv'
<1> SUFFICES ASSUME Inv, CountInv, LoopInv, TrialHyp, [Next]_vars PROVE CountInv'
  OBVIOUS
<1> USE DEF Writing, At
<1>a. /\ ~MayFail("delete") /\ ~MayFail("md") /\ ~MayFail("read") /\ ~MayFail("ctr")
      /\ ~conf.fallback /\ ~conf.powerLoss
  BY DEF TrialHyp, FilesHyp, MayFail
<1>b. TypeOK /\ Control /\ Accepted /\ Candidates /\ Readable
  BY <1>a DEF Inv, Candidates
<1>c. /\ TrialCnt \in Nat /\ NoCtr = TrialCnt + 1 /\ ctr \in 0 .. NoCtr
      /\ trialBoots \in 0 .. TrialCnt + 2
  BY <1>b, FwuAssumption DEF TypeOK, NoCtr
<1>d. \A m : Trial(m)' <=> Trial(m)
  BY DEF Trial
<1>e. DOMAIN md = {0, 1} /\ \A m \in Mdata : m.crc = "ok"
  BY <1>b DEF TypeOK, Mdata
\* The metadata and the counters stay.
<1>1. ASSUME Current' = Current, UNCHANGED <<ctr, trialBoots, accept_os>>,
             At("switched")' <=> At("switched"), At("reverted")' => At("reverted")
      PROVE  CountInv'
  <2>1. Counted(Current)' <=> Counted(Current)
    BY <1>1, <1>d DEF Counted
  <2>2. Trial(Current)' <=> Trial(Current)
    BY <1>1, <1>d
  <2> QED
    BY <1>1, <2>1, <2>2 DEF CountInv
\* Metadata that is not in trial state needs no count.
<1>2. ASSUME ~Trial(Current'), trialBoots' <= TrialCnt + 1, ~At("switched")'
      PROVE  CountInv'
  <2>1. ~Trial(Current)'
    BY <1>2, <1>d DEF Trial
  <2> QED
    BY <1>2, <2>1 DEF CountInv, Counted
<1>3. CASE WritePrimary \/ WriteSecondary \/ Restore
  <2>1. /\ wr \in Mdata /\ Current = wr /\ UNCHANGED <<ctr, trialBoots, accept_os, cont, wr>>
        /\ cont \notin {"primary", "secondary", "restore"}
    BY <1>3, <1>b DEF WritePrimary, WriteSecondary, Restore, Control, Current, loop
  <2>2. \/ pc' = "secondary"
        \/ pc' = cont /\ md'[0] = wr
    BY <1>3, <1>a, <1>b, <1>e DEF WritePrimary, WriteSecondary, Restore, FailedWrite, Control
  <2>3. Current' = wr
    BY <1>e, <2>1, <2>2 DEF Current, Get, Good
  <2>4. At("switched")' <=> At("switched")
    BY <1>3, <2>1, <2>2 DEF WritePrimary, WriteSecondary, Restore
  <2>5. At("reverted")' => At("reverted")
    BY <1>3, <2>1, <2>2 DEF WritePrimary, WriteSecondary, Restore
  <2> QED
    BY <1>1, <2>1, <2>3, <2>4, <2>5
<1>4. ASSUME UNCHANGED <<md, ctr, trialBoots, accept_os>>, ~Writing, ~Writing',
             pc \notin {"switched", "reverted"}, pc' \notin {"switched", "reverted"}
      PROVE  CountInv'
  BY <1>1, <1>4, SameMd DEF Current
<1>5. CASE PowerOn \/ Deliver \/ BootInvalid
  BY <1>4, <1>5 DEF PowerOn, Deliver, BootInvalid, Checked, disk, loop, hist, upd
<1>6. CASE Validity
  <2>1. UNCHANGED <<md, ctr, trialBoots, accept_os>> /\ pc = "validity" /\ cont' = "bootidx"
    BY <1>6 DEF Validity, disk, loop, hist
  <2>2. pc' = "bootidx" \/ (pc' \in {"secondary", "restore"} /\ wr' = Get)
    BY <1>6, <1>a, <1>b, ValidityCases DEF Get
  <2> QED
    BY <1>1, <2>1, <2>2, SameMd DEF Current
<1>7. CASE BootMismatch \/ Mismatch
  BY <1>7, <1>b DEF BootMismatch, Mismatch, Accepted
<1>8. CASE BootRegular
  <2>1. Current' = Get /\ ~Trial(Get) /\ trialBoots' = 0 /\ pc' = "capsules"
    BY <1>8, SameMd DEF BootRegular, Checked, Current
  <2> QED
    BY <1>2, <1>c, <2>1
<1>9. CASE BootTrial
  <2>1. UNCHANGED md /\ Trial(Get) /\ pc = "bootidx" /\ trialBoots' = Capped(trialBoots + 1)
    BY <1>9 DEF BootTrial
  <2>2. trialBoots <= ctr /\ ctr <= TrialCnt /\ \A i \in Images : Get.accepted[i][Get.previous]
    BY <2>1 DEF CountInv, Counted, Current
  <2>3. trialBoots' = trialBoots + 1 /\ trialBoots' <= TrialCnt + 1
    BY <1>c, <2>1, <2>2 DEF Capped
  <2>4. \/ ctr' = ctr + 1 /\ ctr < TrialCnt /\ pc' = "capsules"
        \/ Update(Reverted, "reverted")
    <3>1. ctr # NoCtr
      BY <1>c, <2>2
    <3> QED
      BY <1>9, <1>a, <3>1 DEF BootTrial, Checked
  <2>5. CASE ctr' = ctr + 1 /\ ctr < TrialCnt /\ pc' = "capsules"
    <3>1. Current' = Get
      BY <2>1, <2>5, SameMd DEF Current
    <3>2. Counted(Current)'
      BY <1>c, <2>2, <2>3, <2>5, <3>1 DEF Counted
    <3> QED
      BY <2>3, <2>5, <3>2 DEF CountInv
  <2>6. CASE Update(Reverted, "reverted")
    <3>1. Reverted.active = Get.previous /\ Reverted.accepted = Get.accepted
      BY <1>b, Written
    <3>2. ~Trial(Reverted)
      BY <2>2, <3>1 DEF Trial
    <3>3. Current' = Reverted /\ ~At("switched")'
      BY <2>6 DEF Update, Current
    <3> QED
      BY <1>2, <2>3, <3>2, <3>3
  <2> QED
    BY <2>4, <2>5, <2>6
<1>10. CASE RevertedCtr
  <2>1. /\ UNCHANGED md /\ pc' = "capsules" /\ pc = "reverted"
        /\ trialBoots' = trialBoots \/ trialBoots' = 0
    BY <1>10 DEF RevertedCtr, Checked
  <2>2. Current' = Current
    BY <2>1, SameMd DEF Current
  <2> QED
    BY <1>2, <1>c, <2>1, <2>2 DEF CountInv
<1>11. CASE Launch
  <2>1. /\ UNCHANGED <<md, ctr, trialBoots>> /\ Current' = Current /\ ~At("switched")
        /\ ~At("switched")' /\ ~At("reverted")'
    BY <1>11, SameMd DEF Launch, hist, Current
  <2>2. Counted(Current)' <=> Counted(Current)
    BY <1>d, <2>1 DEF Counted
  <2> QED
    BY <2>1, <2>2, Zenon DEF CountInv
<1>12. CASE Apply
  <2>1. UNCHANGED <<md, ctr, trialBoots, accept_os>> /\ pc = "next"
    BY <1>12 DEF Apply, disk
  <2>2. PICK c \in todo : /\ c.kind # "revert"
                          /\ \/ c.kind = "accept" /\ Update(Accept(c.img, Get.active, TRUE), "applied")
                             \/ pc' \in {"setimage", "applied"}
    BY <1>12, <1>b, Zenon DEF Apply, Refuse, LoopInv, TypeOK
  <2>3. CASE pc' \in {"setimage", "applied"}
    BY <1>4, <2>1, <2>3
  <2>4. CASE c.kind = "accept" /\ Update(Accept(c.img, Get.active, TRUE), "applied")
    <3> DEFINE new == Accept(c.img, Get.active, TRUE)
    <3>1. c.img \in Images /\ Get.active \in Banks /\ Get.previous \in Banks
      <4>1. c \in Capsules
        BY <1>b, <2>2 DEF TypeOK
      <4>2. c.img \in Images
        BY <2>4, <4>1 DEF Capsules
      <4> QED
        BY <1>b, <4>2, Copies DEF Mdata
    <3>2. new.active = Get.active /\ new.previous = Get.previous
      BY <1>b, <3>1, Written, Zenon
    <3>3. \A j \in Images, b \in Banks : Get.accepted[j][b] => new.accepted[j][b]
      BY <1>b, <3>1, AcceptSets, Zenon
    <3>4. Current = Get /\ Current' = new /\ pc' = "primary" /\ cont' = "applied"
      BY <2>1, <2>4 DEF Update, Current
    <3> HIDE DEF new
    <3>5. Trial(new) => Trial(Get)
      BY <3>1, <3>2, <3>3 DEF Trial
    <3>6. Counted(Get)
      BY <2>1, <3>4 DEF CountInv
    <3>7. Counted(Current)'
      BY <1>d, <2>1, <3>1, <3>2, <3>3, <3>4, <3>5, <3>6 DEF Counted
    <3> QED
      BY <2>1, <3>4, <3>7 DEF CountInv
  <2> QED
    BY <2>2, <2>3, <2>4, Zenon
<1>13. CASE SetImage
  <2>1. /\ UNCHANGED <<md, ctr, trialBoots, accept_os>> /\ pc = "setimage" /\ UpdateChecks
        /\ cap.img \in Images /\ (~cap.os) \in BOOLEAN
    BY <1>13, <1>b DEF SetImage, loop, Control, Capsules
  <2>2. ~Trial(Get)
    BY <1>b, <2>1 DEF Accepted, AfterCheck, InLoop, Get, Readable
  <2>3. ~Trial(Accept(cap.img, UpdateBank, ~cap.os))
    BY <1>b, <2>1, <2>2, AcceptTrial, Written, Zenon
  <2>4. \/ pc' = "primary" /\ cont' = "applied" /\ wr' = Accept(cap.img, UpdateBank, ~cap.os)
        \/ pc' = "applied"
    BY <1>13 DEF SetImage, Update, Refuse
  <2>5. ~Trial(Current')
    BY <2>1, <2>2, <2>3, <2>4, SameMd DEF Current
  <2> QED
    BY <1>2, <2>1, <2>4, <2>5 DEF CountInv
<1>14. CASE Applied
  <2>1. /\ UNCHANGED <<md, ctr, trialBoots>> /\ Current' = Current /\ ~At("switched")
        /\ ~At("switched")' /\ ~At("reverted")'
    BY <1>14, SameMd DEF Applied, hist, Current
  <2>2. Counted(Current)' <=> Counted(Current)
    BY <1>d, <2>1 DEF Counted
  <2> QED
    BY <2>1, <2>2 DEF CountInv
<1>15. CASE Post
  <2>1. UNCHANGED <<md, ctr, trialBoots, accept_os>> /\ pc = "next" /\ todo = {}
    BY <1>15 DEF Post, disk, loop
  <2>2. CASE pc' = "reset"
    BY <1>4, <2>1, <2>2
  <2>3. CASE capsule_update /\ update_status /\ Update(SetActive(UpdateBank), "switched")
    <3> DEFINE new == SetActive(UpdateBank)
    <3>1. ~in_trial /\ check /\ Succeeding /\ ~OtherLeft /\ ~OsPending
            /\ \A i \in Images : ~HasImage(Left, i)
      BY <2>1, <2>3 DEF LoopInv, AfterCheck, InLoop, Succeeding, OtherLeft, OsPending, HasImage, Left
    <3>2. ~Trial(Get)
      BY <1>b, <2>1, <3>1 DEF Accepted, AfterCheck, InLoop, UpdateChecks, Get, Readable
    <3>3. accept_os \/ \A i \in Images : Get.accepted[i][UpdateBank]
      BY <2>1, <3>1 DEF LoopInv, InLoop, Current, UpdateBank
    <3>4. new.active = UpdateBank /\ new.previous = Get.active /\ new.accepted = Get.accepted
      BY <1>b, Written
    <3>5. Current' = new /\ pc' = "primary" /\ cont' = "switched"
      BY <2>3 DEF Update, Current
    <3> HIDE DEF new
    <3>6. (Trial(new) => accept_os) /\ \A i \in Images : new.accepted[i][new.previous]
      BY <3>2, <3>3, <3>4 DEF Trial
    <3> QED
      BY <1>d, <2>1, <3>5, <3>6 DEF CountInv
  <2> QED
    BY <1>15, <2>2, <2>3 DEF Post
<1>16. CASE Switched
  <2>1. /\ UNCHANGED md /\ trialBoots' = 0 /\ pc = "switched" /\ pc' = "reset"
        /\ (res = "ok" /\ accept_os /\ ctr' = 0) \/ res # "ok" \/ ~accept_os
    BY <1>16, <1>a DEF Switched
  <2>2. Current' = Current /\ res = "ok"
    BY <1>b, <2>1, SameMd DEF Current, Candidates
  <2>3. Counted(Current)'
    <3>1. CASE accept_os /\ ctr' = 0
      BY <1>c, <2>1, <2>2, <3>1 DEF CountInv, Counted
    <3>2. CASE ~accept_os
      BY <1>d, <2>1, <2>2, <3>2 DEF CountInv, Counted
    <3> QED
      BY <2>1, <2>2, <3>1, <3>2
  <2> QED
    BY <1>c, <2>1, <2>3 DEF CountInv
<1>17. CASE PowerOff
  <2>1. /\ UNCHANGED <<md, ctr, trialBoots>> /\ Current' = Current /\ ~At("switched")
        /\ ~At("switched")' /\ ~At("reverted")'
    <3>1. pc \in {"os", "reset"} /\ pc' = "off"
      BY <1>17, <1>a DEF PowerOff
    <3>2. UNCHANGED <<md, ctr, trialBoots>>
      BY <1>17, <3>1 DEF PowerOff, Cut, hist
    <3> QED
      BY <3>1, <3>2, SameMd DEF Current
  <2>2. Counted(Current)' <=> Counted(Current)
    BY <1>d, <2>1 DEF Counted
  <2> QED
    BY <2>1, <2>2 DEF CountInv
<1>18. CASE UNCHANGED vars
  BY <1>1, <1>18, SameMd DEF vars, disk, upd, loop, hist, Current
<1> QED
  BY <1>3, <1>5, <1>6, <1>7, <1>8, <1>9, <1>10, <1>11, <1>12, <1>13, <1>14, <1>15, <1>16, <1>17,
     <1>18
  DEF Next

LEMMA LoopNext ==
  Inv /\ Files /\ CountInv /\ LoopInv /\ TrialHyp /\ [Next]_vars => LoopInv'
<1> SUFFICES ASSUME Inv, Files, CountInv, LoopInv, TrialHyp, [Next]_vars PROVE LoopInv'
  OBVIOUS
<1> USE DEF Writing, InLoop, AfterCheck
<1>a. /\ ~MayFail("delete") /\ ~MayFail("md") /\ ~MayFail("read") /\ ~MayFail("ctr")
      /\ ~conf.fallback /\ ~conf.powerLoss
  BY DEF TrialHyp, FilesHyp, MayFail
<1>b. TypeOK /\ Control /\ Accepted /\ Candidates /\ Readable
  BY <1>a DEF Inv, Candidates
<1>c. \A j : HasImage(Left, j)' <=> HasImage(Left', j)
  BY DEF HasImage
<1>e. DOMAIN md = {0, 1} /\ \A m \in Mdata : m.crc = "ok"
  BY <1>b DEF TypeOK, Mdata
\* Outside of the loop.
<1>1. ASSUME UNCHANGED files, ~InLoop', pc' = "capsules" => check'
      PROVE  LoopInv'
  BY <1>1 DEF LoopInv
<1>2. CASE (WritePrimary \/ WriteSecondary \/ Restore) /\ cont # "applied"
  <2>1. UNCHANGED <<files, cont>> /\ pc' \in {"secondary", cont}
    BY <1>2, <1>a, <1>b DEF WritePrimary, WriteSecondary, Restore, FailedWrite
  <2>2. cont \in {"bootidx", "mismatch", "switched", "reverted"}
    BY <1>2, <1>b DEF WritePrimary, WriteSecondary, Restore, Control
  <2> QED
    BY <1>1, <2>1, <2>2
<1>3. CASE (WritePrimary \/ WriteSecondary \/ Restore) /\ cont = "applied"
  <2>1. /\ UNCHANGED <<files, todo, cap, cont, wr, in_trial, check>>
        /\ UNCHANGED <<capsule_update, update_status, accept_os>>
        /\ pc \in {"primary", "secondary"} /\ wr \in Mdata
        /\ pc' = "secondary" \/ (pc' = "applied" /\ res' = "ok" /\ md'[0] = wr)
    BY <1>3, <1>a, <1>b, <1>e DEF WritePrimary, WriteSecondary, Restore, FailedWrite,
                            Control, loop, state
  <2>2. Left' = Left /\ (OtherLeft' <=> OtherLeft) /\ (Succeeding' => Succeeding)
          /\ (OsPending' <=> OsPending)
    BY <2>1 DEF Left, OtherLeft, Succeeding, OsPending
  <2>3. Current' = Current
    BY <1>e, <2>1 DEF Current, Get, Good
  <2>4. InLoop /\ InLoop' /\ pc' # "next"
    BY <1>3, <2>1
  <2>5. Succeeding' /\ ~in_trial =>
          \/ OtherLeft \/ accept_os \/ OsPending
          \/ \A i \in Images : HasImage(Left, i)
               \/ Current.accepted[i][(Current.active + 1) % NumBanks]
    BY <2>1, <2>2, <2>4 DEF LoopInv
  <2>6. check /\ (in_trial => cap.kind # "image")
    BY <2>1, <2>4 DEF LoopInv
  <2>7. \A c \in files' : c.kind # "revert"
    BY <2>1 DEF LoopInv
  <2> QED
    BY <1>c, <2>1, <2>2, <2>3, <2>4, <2>5, <2>6, <2>7, Zenon DEF LoopInv
<1>4. CASE PowerOn \/ Validity \/ Switched \/ PowerOff
  <2>1. UNCHANGED files /\ ~InLoop' /\ pc' # "capsules"
    BY <1>4 DEF PowerOn, Validity, Switched, PowerOff, disk
  <2> QED
    BY <1>1, <2>1
<1>5. CASE BootMismatch \/ BootInvalid \/ Mismatch
  BY <1>5, <1>a, <1>b, Zenon DEF BootMismatch, BootInvalid, Mismatch, Accepted, Candidates
<1>6. CASE BootRegular \/ RevertedCtr
  <2>1. UNCHANGED files /\ pc' = "capsules" /\ check' = TRUE
    BY <1>6, <1>a DEF BootRegular, RevertedCtr, Checked
  <2> QED
    BY <1>1, <2>1
<1>7. CASE BootTrial
  <2>1. ctr <= TrialCnt
    BY <1>7 DEF BootTrial, CountInv, Counted, Current, At
  <2>2. ctr # NoCtr
    BY <2>1, FwuAssumption DEF NoCtr
  <2>3. UNCHANGED files /\ ((pc' = "capsules" /\ check' = TRUE) \/ (pc' = "primary" /\ cont' = "reverted"))
    BY <1>7, <1>a, <2>2 DEF BootTrial, Checked, Update
  <2> QED
    BY <1>1, <2>3
<1>8. CASE Deliver
  <2>1. PICK b \in conf.batches : files' = files \cup b
    BY <1>8 DEF Deliver
  <2>2. (\A c \in b : c.kind # "revert") /\ (\A c \in files : c.kind # "revert") /\ pc' = "os"
    BY <1>8, <2>1 DEF Deliver, TrialHyp, NoRevert, LoopInv, upd
  <2> QED
    BY <2>1, <2>2 DEF LoopInv
<1>9. CASE Launch
  <2>1. UNCHANGED <<in_trial, check, files>> /\ pc = "capsules" /\ check
    BY <1>9 DEF Launch, state, LoopInv
  <2>2. CASE pc' = "os"
    BY <1>1, <2>1, <2>2
  <2>3. CASE pc' = "next" /\ todo' = files /\ files # {}
    <3>1. Left' = files
      BY <2>3 DEF Left
    <3>2. (\A i \in Images : HasImage(files, i)) \/ (\E c \in files : c.kind # "image")
      BY <2>1, <2>3 DEF Files, Full
    <3>3. (\A i \in Images : HasImage(files, i)) \/ OtherLeft'
      BY <2>3, <3>2 DEF OtherLeft
    <3> QED
      BY <1>c, <2>1, <2>3, <3>1, <3>3 DEF LoopInv
  <2> QED
    BY <1>9, <2>2, <2>3 DEF Launch
<1>10. CASE Apply
  <2>1. /\ pc = "next" /\ check
        /\ UNCHANGED <<md, in_trial, check, files, capsule_update, update_status, accept_os>>
    BY <1>10, Zenon DEF Apply, LoopInv, disk, state
  <2>2. PICK c \in todo : /\ todo' = todo \ {c} /\ cap' = c
                          /\ \/ /\ c.kind # "image" /\ in_trial
                                /\ pc' = "primary" /\ cont' = "applied"
                             \/ c.kind = "image" /\ pc' = "setimage" /\ ~in_trial
                             \/ pc' = "applied" /\ res' = "failed"
    BY <1>10, Zenon DEF Apply, Refuse, Update, EmptyChecks, UpdateChecks
  <2>3. CASE c.kind # "image" /\ in_trial /\ pc' = "primary" /\ cont' = "applied"
    BY <2>1, <2>2, <2>3 DEF LoopInv
  <2>4. CASE pc' = "applied" /\ res' = "failed"
    <3>1. ~Succeeding'
      BY <2>4 DEF Succeeding
    <3> QED
      BY <2>1, <2>2, <2>4, <3>1, Zenon DEF LoopInv
  <2>5. CASE c.kind = "image" /\ pc' = "setimage" /\ ~in_trial
    <3>1. Left = todo /\ Left' = todo /\ (Succeeding' <=> Succeeding) /\ ~OsPending
      BY <2>1, <2>2, <2>5 DEF Left, Succeeding, OsPending
    <3>2. OtherLeft => OtherLeft'
      BY <2>1, <2>2, <2>5 DEF OtherLeft
    <3>3. Current' = Current
      BY <2>1, <2>5, SameMd DEF Current
    <3>4. Succeeding =>
            \/ OtherLeft \/ accept_os
            \/ \A i \in Images : HasImage(Left, i)
                 \/ Current.accepted[i][(Current.active + 1) % NumBanks]
      BY <2>1, <2>5, <3>1, Zenon DEF LoopInv
    <3>5. \A d \in files' : d.kind # "revert"
      BY <2>1 DEF LoopInv
    <3> QED
      BY <1>c, <2>1, <2>2, <2>5, <3>1, <3>2, <3>3, <3>4, <3>5, Zenon DEF LoopInv
  <2> QED
    BY <2>2, <2>3, <2>4, <2>5
<1>11. CASE SetImage
  <2>1. /\ UNCHANGED <<md, in_trial, check, files, todo, cap>>
        /\ UNCHANGED <<capsule_update, update_status, accept_os>>
        /\ pc = "setimage" /\ ~in_trial /\ check /\ cap.kind = "image"
        /\ cap.img \in Images /\ (~cap.os) \in BOOLEAN
        /\ Left = todo \cup {cap} /\ ~OsPending
    BY <1>11, <1>b DEF SetImage, state, loop, Control, UpdateChecks, Capsules, Left, OsPending
  <2>2. CASE pc' = "applied" /\ res' = "failed"
    <3>1. ~Succeeding'
      BY <2>2 DEF Succeeding
    <3> QED
      BY <2>1, <2>2, <3>1, Zenon DEF LoopInv
  <2>3. CASE Update(Accept(cap.img, UpdateBank, ~cap.os), "applied")
    <3> DEFINE new == Accept(cap.img, UpdateBank, ~cap.os)
    <3>1. UpdateBank \in Banks /\ new.active = Get.active
      BY <1>b, <2>1, Written, Zenon
    <3>2. ASSUME ~cap.os, NEW j \in Images, Get.accepted[j][UpdateBank] \/ j = cap.img
          PROVE  new.accepted[j][UpdateBank]
      <4>1. (~cap.os) = TRUE
        BY <3>2
      <4>2. new = Accept(cap.img, UpdateBank, TRUE)
        BY <4>1, Zenon
      <4> QED
        BY <1>b, <2>1, <3>1, <3>2, <4>2, AcceptSets, Zenon
    <3>a. UpdateBank = (Get.active + 1) % NumBanks
      BY DEF UpdateBank
    <3>3. Current = Get /\ Current' = new /\ pc' = "primary" /\ cont' = "applied"
      BY <2>1, <2>3 DEF Update, Current
    <3> HIDE DEF new
    <3>4. Left' = todo /\ (Succeeding' => Succeeding) /\ (OtherLeft => OtherLeft')
            /\ (cap.os => OsPending')
      BY <2>1, <3>3 DEF Left, Succeeding, OtherLeft, OsPending
    <3>5. Succeeding =>
            \/ OtherLeft \/ accept_os
            \/ \A i \in Images : HasImage(Left, i) \/ Get.accepted[i][UpdateBank]
      BY <2>1, <3>1, <3>3, <3>a, Zenon DEF LoopInv
    <3>6. ASSUME ~cap.os, NEW i \in Images, HasImage(Left, i) \/ Get.accepted[i][UpdateBank]
          PROVE  HasImage(todo, i) \/ new.accepted[i][UpdateBank]
      BY <2>1, <3>2, <3>6 DEF HasImage
    <3>7. \A d \in files' : d.kind # "revert"
      BY <2>1 DEF LoopInv
    <3> QED
      BY <1>c, <2>1, <3>1, <3>3, <3>4, <3>5, <3>6, <3>7, <3>a, Zenon DEF LoopInv
  <2> QED
    BY <1>11, <2>2, <2>3 DEF SetImage, Refuse
<1>12. CASE Applied
  <2>1. /\ UNCHANGED <<md, in_trial, check, todo>> /\ files' \subseteq files
        /\ pc = "applied" /\ pc' = "next"
    BY <1>12 DEF Applied, state
  <2>2. capsule_update' /\ update_status' =>
          /\ res = "ok" /\ capsule_update /\ update_status /\ cap.kind = "image"
          /\ accept_os \/ cap.os => accept_os'
    BY <1>12, Zenon DEF Applied
  <2>3. (Succeeding' => Succeeding) /\ Left = todo /\ Left' = todo /\ ~OsPending'
    BY <2>1, <2>2 DEF Succeeding, Left, OsPending
  <2>4. Succeeding' /\ OtherLeft => OtherLeft'
    BY <2>1, <2>2 DEF Succeeding, OtherLeft
  <2>5. Succeeding' /\ (OsPending \/ accept_os) => accept_os'
    BY <2>2 DEF Succeeding, OsPending
  <2>6. Current' = Current
    BY <2>1, SameMd DEF Current
  <2>7. check /\ (in_trial => ~(capsule_update' /\ update_status'))
    BY <2>1, <2>2 DEF LoopInv
  <2>8. ~in_trial /\ Succeeding =>
          \/ OtherLeft \/ accept_os \/ OsPending
          \/ \A i \in Images : HasImage(todo, i)
               \/ Current.accepted[i][(Current.active + 1) % NumBanks]
    BY <2>1, <2>3 DEF LoopInv
  <2>9. \A d \in files' : d.kind # "revert"
    BY <2>1 DEF LoopInv
  <2> QED
    BY <1>c, <2>1, <2>3, <2>4, <2>5, <2>6, <2>7, <2>8, <2>9, Zenon DEF LoopInv
<1>13. CASE Post
  <2>1. UNCHANGED files /\ ~InLoop' /\ pc' # "capsules"
    BY <1>13 DEF Post, Update, disk
  <2> QED
    BY <1>1, <2>1
<1>14. CASE UNCHANGED vars
  <2>1. /\ Left' = Left /\ (OtherLeft' <=> OtherLeft) /\ (Succeeding' <=> Succeeding)
        /\ (OsPending' <=> OsPending)
    BY <1>14 DEF vars, loop, upd, Left, OtherLeft, Succeeding, OsPending
  <2>2. Current' = Current
    BY <1>14, SameMd DEF vars, disk, upd, Current
  <2>3. UNCHANGED <<pc, cont, res, files, in_trial, check, todo, cap, capsule_update,
                    update_status, accept_os>>
    BY <1>14 DEF vars, disk, upd, state, loop
  <2> QED
    BY <1>c, <2>1, <2>2, <2>3 DEF LoopInv
<1> QED
  BY <1>2, <1>3, <1>4, <1>5, <1>6, <1>7, <1>8, <1>9, <1>10, <1>11, <1>12, <1>13, <1>14
  DEF Next

\* The platform boots in trial state at most CONFIG_FWU_TRIAL_STATE_CNT + 1 times
\* (TrialBounded), whichever capsules fail, if no power is lost and nothing else
\* fails, the earlier stage boots the active bank, each update covers all images
\* and no capsule asks for a revert: a revert after fwu_boottime_checks() reverted,
\* or an update of some images, puts a bank in trial state that no counter bounds.
THEOREM TrialBoundedIfFull ==
  Spec => [](~conf.fallback /\ FullBatches /\ NoRevert => TrialBounded)
<1> DEFINE J == Inv /\ (FilesHyp => Files) /\ (TrialHyp => CountInv /\ LoopInv)
<1>1. Init => J
  <2> SUFFICES ASSUME Init PROVE J
    OBVIOUS
  <2>1. Files
    BY DEF Init, Files, InLoop, Full
  <2>2. TypeOK
    BY InvInit DEF Inv
  <2>3. Get = md[0] /\ Get.active \in Banks
    BY <2>2, Copies DEF Init, Get, Good, Readable, Mdata
  <2>4. ~Trial(Current)
    BY <2>3 DEF Init, Trial, Current, Writing
  <2>5. /\ pc = "off" /\ cont = "off" /\ files = {} /\ trialBoots = 0 /\ TrialCnt \in Nat
    BY FwuAssumption DEF Init
  <2>6. CountInv
    BY <2>4, <2>5 DEF CountInv, Counted, At, Writing
  <2>7. ~InLoop /\ ~AfterCheck
    BY <2>5 DEF InLoop, AfterCheck, At, Writing
  <2>8. LoopInv
    BY <2>5, <2>7 DEF LoopInv
  <2> QED
    BY <2>1, <2>6, <2>8, InvInit
<1>2. J /\ [Next]_vars => J'
  <2> SUFFICES ASSUME J, [Next]_vars PROVE J'
    OBVIOUS
  <2>1. (FilesHyp' <=> FilesHyp) /\ (TrialHyp' <=> TrialHyp) /\ (TrialHyp => FilesHyp)
    BY SameConf DEF FilesHyp, TrialHyp, NoRevert
  <2> QED
    BY <2>1, InvNext, FilesNext, CountNext, LoopNext
<1>3. J => (~conf.fallback /\ FullBatches /\ NoRevert => TrialBounded)
  BY DEF TrialHyp, FilesHyp, CountInv, TrialBounded
<1> HIDE DEF J
<1> QED
  BY <1>1, <1>2, <1>3, PTL DEF Spec
=============================================================================
