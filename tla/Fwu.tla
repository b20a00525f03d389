-------------------------------- MODULE Fwu --------------------------------
(***************************************************************************)
(* FWU multi-bank update: the two copies of the metadata                   *)
(* (drivers/fwu-mdata), the boot-time checks and the trial counter         *)
(* (lib/fwu_updates/fwu.c) and the capsules applied at boot                *)
(* (lib/efi_loader/efi_capsule.c), under power loss between any two writes *)
(* and in the middle of one.                                               *)
(*                                                                         *)
(* A metadata update writes the primary copy (pc = "primary"), then the    *)
(* secondary (pc = "secondary"), and goes on at cont with its result res.  *)
(***************************************************************************)
EXTENDS Naturals, FiniteSets

CONSTANTS NumBanks, Images,
          TrialCnt,     \* CONFIG_FWU_TRIAL_STATE_CNT
          Configs       \* configurations, a subset of Config

Banks == 0 .. NumBanks - 1

Capsules == [kind : {"image"}, img : Images, os : BOOLEAN]
              \cup [kind : {"accept"}, img : Images] \cup [kind : {"revert"}]

\* What may fail: a write or a read of the metadata, reading a capsule or writing
\* its image, the trial counter, the start of the capsules (the variable
\* OsIndications, the directory), deleting a capsule file.
Failures == {"md", "read", "image", "ctr", "launch", "delete"}

\* batches: sets of capsules the OS may put on the disk; powerLoss: power may be
\* lost at any step; fallback: the earlier stage may boot another bank;
\* ignoreOsInd: CONFIG_EFI_IGNORE_OSINDICATIONS.
Config == [batches : SUBSET SUBSET Capsules, fails : SUBSET Failures, powerLoss : BOOLEAN,
           fallback : BOOLEAN, ignoreOsInd : BOOLEAN]

ASSUME FwuAssumption ==
  /\ NumBanks \in Nat \ {0, 1}
  /\ IsFiniteSet(Images) /\ TrialCnt \in Nat
  /\ Configs \subseteq Config

VARIABLES conf,   \* the configuration, chosen once
          md,     \* md[0], md[1]: primary and secondary metadata partition
          ctr,    \* the EFI variable TrialStateCtr; NoCtr: not there
          img,    \* img[b][i]: image i in bank b is complete
          files,  \* capsule files on the disk
          osind,  \* OsIndications asks for capsules from the disk
          pc, cont, res, wr,
          boot,   \* the bank U-Boot was booted from
          in_trial, check,  \* in_trial, boottime_check
          todo,   \* the rest of the files found by efi_launch_capsules()
          cap,    \* the capsule being applied
          capsule_update, update_status, accept_os,
          cand,       \* history: metadata values a reader may find
          trialBoots  \* history: boots in trial state since the last decision

disk  == <<md, ctr, img, files, osind>>
upd   == <<pc, cont, res, wr>>
loop  == <<todo, cap, capsule_update, update_status, accept_os>>
state == <<boot, in_trial, check>>
hist  == <<cand, trialBoots>>
vars  == <<conf, disk, upd, loop, state, hist>>

Torn  == [crc |-> "bad"]
NoCtr == TrialCnt + 1
NoCap == [kind |-> "none"]
Good(i) == md[i].crc = "ok"
MayFail(f) == f \in conf.fails

\* gpt_get_mdata(): the primary copy, or the secondary if its CRC is wrong.
Get == IF Good(0) THEN md[0] ELSE md[1]
Readable == Good(0) \/ Good(1)

\* ... returns an error, which a copy that cannot be read from the disk is, too:
\* then the other copy is not tried.
ReadFails == ~Readable \/ MayFail("read")

\* fwu_plat_get_update_index()
UpdateBank == (Get.active + 1) % NumBanks

\* in_trial_state()
Trial(m) == \E i \in Images : ~m.accepted[i][m.active]
-----------------------------------------------------------------------------
\* fwu_update_mdata(): m goes to both copies, then control to k.
Update(m, k) ==
  /\ wr' = m /\ cont' = k /\ pc' = "primary"
  /\ cand' = cand \cup {m}
  /\ UNCHANGED res

\* A write of copy i that fails may leave it as it was, torn or written.
FailedWrite(i) ==
  /\ MayFail("md") /\ res' = "failed" /\ pc' = cont
  /\ md' \in {md, [md EXCEPT ![i] = Torn], [md EXCEPT ![i] = wr]}
  /\ UNCHANGED cand

\* fwu_gpt_update_mdata(), first write
WritePrimary ==
  /\ pc = "primary"
  /\ \/ md' = [md EXCEPT ![0] = wr] /\ pc' = "secondary" /\ UNCHANGED <<res, cand>>
     \/ FailedWrite(0)
  /\ UNCHANGED <<ctr, img, files, osind, cont, wr, trialBoots>>
  /\ UNCHANGED loop /\ UNCHANGED state

\* fwu_gpt_update_mdata(), second write
WriteSecondary ==
  /\ pc = "secondary"
  /\ \/ md' = [md EXCEPT ![1] = wr] /\ pc' = cont /\ res' = "ok" /\ cand' = {wr}
     \/ FailedWrite(1)
  /\ UNCHANGED <<ctr, img, files, osind, cont, wr, trialBoots>>
  /\ UNCHANGED loop /\ UNCHANGED state
-----------------------------------------------------------------------------
\* Reset: the earlier stage chooses a bank to boot, and U-Boot starts.
PowerOn ==
  /\ pc = "off"
  /\ boot' \in IF conf.fallback THEN Banks ELSE {IF Readable THEN Get.active ELSE 0}
  /\ pc' = "validity"
  /\ cand' = IF Readable THEN {Get} ELSE cand
  /\ UNCHANGED disk /\ UNCHANGED loop /\ UNCHANGED trialBoots
  /\ UNCHANGED <<cont, res, wr, in_trial, check>>

\* The copies fwu_check_mdata_validity() can read.
ReadSets == IF MayFail("read") THEN SUBSET {0, 1} ELSE {{0, 1}}

\* Mutant: two valid copies that differ are reconciled from the secondary.
ValidityFromSecondary ==
  /\ pc = "validity"
  /\ cont' = "bootidx"
  /\ \E valid \in {{k \in R : Good(k)} : R \in ReadSets} :
       \/ valid = {0, 1} /\ md[0] = md[1] /\ pc' = "bootidx" /\ res' = "ok" /\ UNCHANGED wr
       \/ valid = {0} /\ wr' = md[0] /\ pc' = "secondary" /\ UNCHANGED res
       \/ /\ valid = {1} \/ (valid = {0, 1} /\ md[0] # md[1])
          /\ wr' = md[1] /\ pc' = "restore" /\ UNCHANGED res
       \/ valid = {} /\ pc' = "bootidx" /\ res' = "failed" /\ UNCHANGED wr
  /\ UNCHANGED disk /\ UNCHANGED loop /\ UNCHANGED state /\ UNCHANGED hist

\* fwu_check_mdata_validity(): the copy that is wrong, or that could not be read,
\* is written from the other.
Validity ==
  /\ pc = "validity"
  /\ cont' = "bootidx"
  /\ \E valid \in {{k \in R : Good(k)} : R \in ReadSets} :
       \/ valid = {0, 1} /\ md[0] = md[1] /\ pc' = "bootidx" /\ res' = "ok" /\ UNCHANGED wr
       \/ /\ valid = {0} \/ (valid = {0, 1} /\ md[0] # md[1])
          /\ wr' = md[0] /\ pc' = "secondary" /\ UNCHANGED res
       \/ valid = {1} /\ wr' = md[1] /\ pc' = "restore" /\ UNCHANGED res
       \/ valid = {} /\ pc' = "bootidx" /\ res' = "failed" /\ UNCHANGED wr
  /\ UNCHANGED disk /\ UNCHANGED loop /\ UNCHANGED state /\ UNCHANGED hist

\* fwu_check_mdata_validity(): the primary copy is restored.
Restore ==
  /\ pc = "restore"
  /\ \/ md' = [md EXCEPT ![0] = wr] /\ pc' = cont /\ res' = "ok" /\ UNCHANGED cand
     \/ FailedWrite(0)
  /\ UNCHANGED <<ctr, img, files, osind, cont, wr, trialBoots>>
  /\ UNCHANGED loop /\ UNCHANGED state

\* fwu_boottime_checks() is over.
Checked(c) == check' = c /\ pc' = "capsules"

\* fwu_set_active_index()
SetActive(b) == [Get EXCEPT !.active = b, !.previous = Get.active]

\* fwu_revert_boot_index()
Reverted == [Get EXCEPT !.active = Get.previous, !.previous = Get.active]

Capped(n) == IF n > TrialCnt + 1 THEN TrialCnt + 2 ELSE n

\* fwu_boottime_checks() after the validity check: the metadata disagrees with
\* the bank that was booted.
BootMismatch ==
  /\ pc = "bootidx" /\ res = "ok" /\ boot # Get.active
  /\ Update(SetActive(boot), "mismatch")
  /\ UNCHANGED disk /\ UNCHANGED loop /\ UNCHANGED state /\ UNCHANGED trialBoots

\* ... the metadata is not usable, or one of the reads that follow fails.
BootInvalid ==
  /\ pc = "bootidx" /\ (res = "failed" \/ MayFail("read"))
  /\ Checked(FALSE)
  /\ UNCHANGED disk /\ UNCHANGED loop /\ UNCHANGED hist
  /\ UNCHANGED <<cont, res, wr, boot, in_trial>>

\* ... all images are accepted: the trial counter is deleted.
BootRegular ==
  /\ pc = "bootidx" /\ res = "ok" /\ boot = Get.active /\ ~Trial(Get)
  /\ in_trial' = FALSE
  /\ \/ ctr' = NoCtr /\ Checked(TRUE)
     \/ MayFail("ctr") /\ UNCHANGED ctr /\ Checked(FALSE)
  /\ trialBoots' = 0
  /\ UNCHANGED <<md, img, files, osind, cont, res, wr, boot, cand>>
  /\ UNCHANGED loop

\* ... in trial state, fwu_trial_count_update(): the counter cannot be read,
\* it is increased, or it has reached its limit and the bank is reverted.
BootTrial ==
  /\ pc = "bootidx" /\ res = "ok" /\ boot = Get.active /\ Trial(Get)
  /\ in_trial' = TRUE
  /\ trialBoots' = Capped(trialBoots + 1)
  /\ \/ /\ ctr = NoCtr \/ MayFail("ctr")
        /\ Checked(FALSE)
        /\ UNCHANGED <<ctr, cont, res, wr, cand>>
     \/ /\ ctr < TrialCnt
        /\ ctr' = ctr + 1 /\ Checked(TRUE)
        /\ UNCHANGED <<cont, res, wr, cand>>
     \/ /\ ctr = TrialCnt
        /\ \/ Update(Reverted, "reverted")
           \/ /\ MayFail("read") /\ pc' = "reverted" /\ res' = "failed"
              /\ UNCHANGED <<cont, wr, cand>>
        /\ UNCHANGED <<ctr, check>>
  /\ UNCHANGED <<md, img, files, osind, boot>>
  /\ UNCHANGED loop

\* After fwu_set_active_index(boot_idx) in fwu_boottime_checks()
Mismatch ==
  /\ pc = "mismatch"
  /\ Checked(res = "ok")
  /\ trialBoots' = IF res = "ok" THEN 0 ELSE trialBoots
  /\ UNCHANGED disk /\ UNCHANGED loop
  /\ UNCHANGED <<cont, res, wr, boot, in_trial, cand>>

\* After fwu_revert_boot_index() at the limit, whatever its result: the trial
\* counter is deleted.
RevertedCtr ==
  /\ pc = "reverted"
  /\ \/ ctr' = NoCtr /\ Checked(TRUE)
     \/ MayFail("ctr") /\ UNCHANGED ctr /\ Checked(FALSE)
  /\ trialBoots' = IF res = "ok" THEN 0 ELSE trialBoots
  /\ UNCHANGED <<md, img, files, osind, cont, res, wr, boot, in_trial, cand>>
  /\ UNCHANGED loop
-----------------------------------------------------------------------------
\* While the OS runs it may put capsules on the disk and ask for them.
Deliver ==
  /\ pc = "os"
  /\ \E b \in conf.batches : files' = files \cup b
  /\ osind' = TRUE
  /\ UNCHANGED <<md, ctr, img>> /\ UNCHANGED upd
  /\ UNCHANGED loop /\ UNCHANGED state /\ UNCHANGED hist

\* check_run_capsules() and the scan of efi_launch_capsules(): the capsules run
\* even if OsIndications cannot be written back, and do not run if it or the
\* directory cannot be read.
Launch ==
  /\ pc = "capsules"
  /\ osind' = FALSE \/ (MayFail("launch") /\ UNCHANGED osind)
  /\ \/ /\ (osind \/ conf.ignoreOsInd) /\ files # {}
        /\ pc' = "next" /\ todo' = files
     \/ /\ ~(osind \/ conf.ignoreOsInd) \/ files = {} \/ MayFail("launch")
        /\ pc' = "os" /\ UNCHANGED todo
  /\ capsule_update' = TRUE /\ update_status' = TRUE /\ accept_os' = FALSE
  /\ UNCHANGED <<md, ctr, img, files, cont, res, wr, cap>>
  /\ UNCHANGED state /\ UNCHANGED hist

\* fwu_clrset_image_accept()
Accept(i, b, a) == [Get EXCEPT !.accepted[i][b] = a]

\* The capsule is refused or cannot be read.
Refuse == pc' = "applied" /\ res' = "failed" /\ UNCHANGED <<cont, wr, cand>>

\* Mutant: fwu_update_checks_pass() does not look at the boot-time checks.
UpdateChecksTrialOnly == ~in_trial

\* Mutant: fwu_update_checks_pass() does not look at the trial state.
UpdateChecksBootOnly == check

\* fwu_update_checks_pass()
UpdateChecks == ~in_trial /\ check

\* fwu_empty_capsule_checks_pass()
EmptyChecks == in_trial /\ check

\* efi_capsule_update_firmware() up to set_image(): an empty capsule is
\* processed in trial state only and an image capsule outside of it only.
Apply ==
  /\ pc = "next"
  /\ \E c \in todo :
       /\ todo' = todo \ {c} /\ cap' = c
       /\ \/ /\ c.kind = "revert" /\ EmptyChecks /\ Readable
             /\ Update(Reverted, "applied")
          \/ /\ c.kind = "accept" /\ EmptyChecks /\ Readable
             /\ Update(Accept(c.img, Get.active, TRUE), "applied")
          \/ /\ c.kind = "image" /\ UpdateChecks /\ Readable
             /\ pc' = "setimage" /\ UNCHANGED <<cont, res, wr, cand>>
          \/ /\ \/ ~(IF c.kind = "image" THEN UpdateChecks ELSE EmptyChecks)
                \/ ReadFails \/ MayFail("image")
             /\ Refuse
  /\ UNCHANGED disk /\ UNCHANGED state
  /\ UNCHANGED <<capsule_update, update_status, accept_os, trialBoots>>

\* set_image() into the update bank and the accept bit of that image.  A write of
\* the image that fails may leave it as it was, incomplete or complete; so may a
\* read of the metadata before it or after it, but not incomplete.  The accept bit
\* stays as it was.
SetImage ==
  /\ pc = "setimage"
  /\ \/ /\ img' = [img EXCEPT ![UpdateBank][cap.img] = TRUE]
        /\ Update(Accept(cap.img, UpdateBank, ~cap.os), "applied")
     \/ /\ MayFail("image")
        /\ img' = [img EXCEPT ![UpdateBank][cap.img] = FALSE]
        /\ Refuse
     \/ /\ MayFail("image") \/ MayFail("read")
        /\ img' \in {img, [img EXCEPT ![UpdateBank][cap.img] = TRUE]}
        /\ Refuse
  /\ UNCHANGED <<md, ctr, files, osind, trialBoots>>
  /\ UNCHANGED loop /\ UNCHANGED state

\* The rest of the loop of efi_launch_capsules(): fwu_post_update_checks(),
\* and the file is deleted in case of success or failure.
Applied ==
  /\ pc = "applied"
  /\ IF res = "ok"
       THEN /\ capsule_update' = (capsule_update /\ cap.kind = "image")
            /\ accept_os' = (accept_os \/ (cap.kind = "image" /\ cap.os))
            /\ UNCHANGED update_status
       ELSE update_status' = FALSE /\ UNCHANGED <<capsule_update, accept_os>>
  /\ \/ files' = files \ {cap}
     \/ MayFail("delete") /\ UNCHANGED files
  /\ pc' = "next" /\ cap' = NoCap
  /\ UNCHANGED <<md, ctr, img, osind, cont, res, wr, todo>>
  /\ UNCHANGED state /\ UNCHANGED hist

\* Mutant: the banks are switched although a capsule failed.
PostAnyStatus ==
  /\ pc = "next" /\ todo = {}
  /\ \/ capsule_update /\ Readable /\ Update(SetActive(UpdateBank), "switched")
     \/ /\ ~capsule_update \/ ReadFails
        /\ pc' = "reset" /\ UNCHANGED <<cont, res, wr, cand>>
  /\ UNCHANGED disk /\ UNCHANGED loop /\ UNCHANGED state /\ UNCHANGED trialBoots

\* After the loop: fwu_post_update_process() if all went well
Post ==
  /\ pc = "next" /\ todo = {}
  /\ \/ /\ capsule_update /\ update_status /\ Readable
        /\ Update(SetActive(UpdateBank), "switched")
     \/ /\ ~(capsule_update /\ update_status) \/ ReadFails
        /\ pc' = "reset" /\ UNCHANGED <<cont, res, wr, cand>>
  /\ UNCHANGED disk /\ UNCHANGED loop /\ UNCHANGED state /\ UNCHANGED trialBoots

\* Mutant: fwu_trial_state_ctr_start() is never called.
SwitchedNoCtr ==
  /\ pc = "switched" /\ pc' = "reset"
  /\ trialBoots' = 0
  /\ UNCHANGED disk /\ UNCHANGED <<cont, res, wr, cand>>
  /\ UNCHANGED loop /\ UNCHANGED state

\* fwu_post_update_process(): the trial counter starts.
Switched ==
  /\ pc = "switched" /\ pc' = "reset"
  /\ \/ res = "ok" /\ accept_os /\ ctr' = 0
     \/ (res # "ok" \/ ~accept_os \/ MayFail("ctr")) /\ UNCHANGED ctr
  /\ trialBoots' = 0
  /\ UNCHANGED <<md, img, files, osind, cont, res, wr, cand>>
  /\ UNCHANGED loop /\ UNCHANGED state
-----------------------------------------------------------------------------
\* What a write that is cut off by the loss of power leaves behind.
Cut ==
  /\ CASE pc \in {"primary", "restore"} -> md' \in {md, [md EXCEPT ![0] = Torn]}
       [] pc = "secondary" -> md' \in {md, [md EXCEPT ![1] = Torn]}
       [] OTHER -> md' = md
  /\ IF pc = "setimage"
       THEN img' \in {img, [img EXCEPT ![UpdateBank][cap.img] = FALSE]}
       ELSE img' = img

\* The OS reboots, the capsules are done, or power is lost.
PowerOff ==
  /\ pc # "off" /\ (conf.powerLoss \/ pc \in {"os", "reset"})
  /\ Cut
  /\ pc' = "off" /\ cont' = "off" /\ res' = "ok" /\ wr' = Torn
  /\ in_trial' = FALSE /\ check' = FALSE /\ boot' = 0
  /\ todo' = {} /\ cap' = NoCap
  /\ capsule_update' = TRUE /\ update_status' = TRUE /\ accept_os' = FALSE
  /\ UNCHANGED <<ctr, files, osind>> /\ UNCHANGED hist

\* A platform as it leaves the factory: all banks hold accepted images.
Init ==
  /\ conf \in Configs
  /\ md = [i \in {0, 1} |->
             [crc |-> "ok", active |-> 0, previous |-> 1,
              accepted |-> [i2 \in Images |-> [b \in Banks |-> TRUE]]]]
  /\ ctr = NoCtr /\ img = [b \in Banks |-> [i \in Images |-> TRUE]]
  /\ files = {} /\ osind = FALSE
  /\ pc = "off" /\ cont = "off" /\ res = "ok" /\ wr = Torn
  /\ boot = 0 /\ in_trial = FALSE /\ check = FALSE
  /\ todo = {} /\ cap = NoCap
  /\ capsule_update = TRUE /\ update_status = TRUE /\ accept_os = FALSE
  /\ cand = {md[0]} /\ trialBoots = 0

Next ==
  /\ \/ WritePrimary \/ WriteSecondary \/ PowerOn \/ Validity \/ Restore
     \/ BootMismatch \/ BootInvalid \/ BootRegular \/ BootTrial
     \/ Mismatch \/ RevertedCtr
     \/ Deliver \/ Launch \/ Apply \/ SetImage \/ Applied \/ Post \/ Switched
     \/ PowerOff
  /\ UNCHANGED conf

Spec == Init /\ [][Next]_vars
-----------------------------------------------------------------------------
Mdata == [crc : {"ok"}, active : Banks, previous : Banks,
          accepted : [Images -> [Banks -> BOOLEAN]]]

\* The metadata the code reads and writes is well formed, and the variable
\* TrialStateCtr never passes CONFIG_FWU_TRIAL_STATE_CNT.
TypeOK ==
  /\ conf \in Configs
  /\ md \in [{0, 1} -> Mdata \cup {Torn}] /\ wr \in Mdata \cup {Torn}
  /\ ctr \in 0 .. NoCtr /\ img \in [Banks -> [Images -> BOOLEAN]]
  /\ files \subseteq Capsules /\ todo \subseteq files
  /\ cap \in Capsules \cup {NoCap}
  /\ boot \in Banks /\ res \in {"ok", "failed"}
  /\ osind \in BOOLEAN /\ in_trial \in BOOLEAN /\ check \in BOOLEAN
  /\ capsule_update \in BOOLEAN /\ update_status \in BOOLEAN /\ accept_os \in BOOLEAN
  /\ cand \subseteq Mdata /\ trialBoots \in 0 .. TrialCnt + 2

\* Unless a write or a read of the metadata fails: whenever power is lost, a valid
\* copy is left, and it is the value before or after the update under way; once
\* the earlier stage booted with one of the two, fwu_check_mdata_validity() does
\* not go back on it.
MetadataSafe ==
  TypeOK /\ (~MayFail("md") /\ ~MayFail("read") => Readable /\ Get \in cand)

\* Whatever fails and whichever bank was booted: an image is never written into
\* the bank the platform runs from.
SparesRunning == pc = "setimage" => UpdateBank # boot

\* fwu_update_checks_pass(): no image is updated while an image of the active
\* bank waits to be accepted, if the earlier stage boots the active bank and the
\* metadata can always be read (a write of it may fail).
NoUpdateInTrial ==
  ~conf.fallback /\ ~MayFail("read") /\ pc = "setimage" => ~Trial(Get)

\* Capsules for images come in batches for all images of a bank.
HasImage(S, i) == \E c \in S : c.kind = "image" /\ c.img = i
Full(S) == (\E c \in S : c.kind = "image") => \A i \in Images : HasImage(S, i)
FullBatches == \A b \in conf.batches : Full(b)

\* fwu_post_update_process() switches only when all images were updated: the
\* active bank never holds an incomplete image, if the earlier stage boots the
\* active bank.  This is stated for loss of power, and for capsules that fail if
\* each update covers all images, but not for both at once.
ActiveIntact ==
  ~conf.fallback /\ (conf.fails = {} \/ (conf.fails = {"image"} /\ ~conf.powerLoss /\ FullBatches))
    => Readable /\ \A i \in Images : img[Get.active][i]

\* The platform boots in trial state at most CONFIG_FWU_TRIAL_STATE_CNT times,
\* and once more for fwu_trial_count_update() to revert.  This is stated for a
\* platform that loses no power and where nothing fails but capsules: power lost
\* between the switch of the banks and the start of the counter leaves the bank in
\* trial state without a counter.
TrialBounded ==
  conf.fails \subseteq {"image"} /\ ~conf.powerLoss => trialBoots <= TrialCnt + 1
=============================================================================
