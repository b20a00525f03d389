# A verification development for U-Boot on the Orange Pi 3 LTS

U-Boot 2023.04, trimmed to ARM, with the Allwinner H6 board support of the
Orange Pi 3 LTS. Paths are relative to `src/u-boot-orangepi_3lts/`.

The boot loader is one sequential program: no threads, no preemption. What makes
it hard to get right is what happens around and between its steps: power is lost
in the middle of an update of persistent state, one of several operations fails,
a cached value outlives what it was computed from, a counter wraps, packets are
lost, duplicated and reordered, a function calls itself through a driver. The
models therefore keep every step that touches persistent state as an action of
its own, let power fail between any two of them (and in the middle of a write),
let every operation that can fail do so, and leave the network free to misbehave.

## 1. The parts of the system

| part | source | state | operations | what is hard | properties |
|---|---|---|---|---|---|
| Block cache | `drivers/block/blkcache.c`, `blk-uclass.c` | LRU list of nodes, entry count, limits | read, fill, invalidate, configure, free | stale nodes after a partial write or a partition switch; buffers reused across sizes | coherence; behaves as the device; buffer fits; list exact |
| Environment on MMC | `env/mmc.c`, `env/common.c`, `env/env.c` | two copies with a serial byte; `env_valid`, `env_flags` | load, save, erase, select | power loss; the serial wraps; failed writes use up serials | a boot finds the last or the interrupted environment; reported results are true |
| Environment in NOR flash | `env/flash.c` | one or two sectors with a flag byte; pointers; `gd->env_addr` | init, load, save | power loss between erase, write and flag; error exits with `rc` 0 | the same, and programming in one direction only |
| FWU update | `lib/fwu_updates/fwu.c`, `drivers/fwu-mdata/`, `lib/efi_loader/efi_capsule.c` | two metadata copies, trial counter, banks, capsule files | boot-time checks, accept, revert, update, bank switch | power loss anywhere; values computed once per boot; one capsule of several fails | metadata survives; running bank untouched; active bank complete; trial state ends |
| TFTP | `net/tftp.c` | block number, wrap offset, window, state | get, put, server, timeout | loss, duplication, reordering, wrap of the block number | every block stored once at its place; acknowledged only if stored |
| Network loop, ARP | `net/net.c`, `net/arp.c`, `net/eth-uclass.c` | `net_state`, handlers, timer, retries, interface | start, receive, timeout, restart | a handler that does not arm itself again; packets after the end of a transfer | every transfer ends |
| Memory buffer | `lib/membuff.c` | head, tail, start, end | put, get, extend, make contiguous | wrap, full against empty | is a bounded queue |
| Console | `common/console.c`, `common/iomux.c` | pre-console ring, silence, devices, recorder, `tstcdev` | print, two initialisations, flush, silence, record, getchar | a character is kept, sent and flushed in several places | shown once and in order; silent when it must be; recorded or reported |
| Android A/B | `boot/android_ab.c` | slot table in one block | select a slot, store | ignored store result; tries used up; torn block | boots of a failing slot are bounded; the slot that works is reached |
| Driver model | `drivers/core/` | tree of devices, flags, memory | bind, probe, remove, unbind | recursion to parents and children; an error half way | brought up once; parents stay; what a call reports is true |
| Hash table, memory blocks | `lib/hashtable.c`, `lib/lmb.c` | table, region list | enter, find, delete; reserve, free | deleted slots; merging of regions | not modelled yet (section 6) |

The remaining parts (boot flow, bootm and image formats, the rest of the EFI
loader, file systems, other protocols, downloads over USB, virtio, allocation,
command line, board and peripheral code, libraries, tools) are listed in
`PROJECT.json` with the reason why they are not modelled.

How the modelled parts meet:

* The environment on MMC, the FWU metadata and the A/B block are read and written
  through the block layer, which `BlkDevice` specifies and `BlkCache` implements.
  What their modules assume of it is what `BlkDevice` allows: a write may stop
  after any number of blocks and may report an error after the last.
* `Tftp` is a protocol under the network loop: it extends `NetLoop` with its start
  function and its handlers, as `tftp.c` does with `net.c`.
* The recorder and the fed input of `Console` are two membuffs: `Console` and
  `MembuffCalls` extend the same `Membuff`.

## 2. The modules

One module per component; `MC*` modules give the constants for TLC; `*Proofs`
modules hold theorems only. A definition marked `Mutant` is a plausible error in
the code. No specification uses it; it is there to show that a property notices it.

Most modules have a constant `Configs`, a set of configurations, and a variable
`conf` that takes one of them in `Init` and never changes: the build options, which
operations fail, how far the network misbehaves, how often something happens. One
run then covers several boards, and a property that does not hold on every board
names in its precondition the ones it is about. Section 4 says what happens on
the others.

There is one type invariant `TypeOK` per module. `BlkCacheProofs` and `EnvMmcProofs`
prove theirs; in the other modules it is a conjunct of one of the invariants (`EnvFlash!PowerFailSafe`, `Fwu!MetadataSafe`,
`Tftp!AckedIsStored`, `MembuffCalls!CountsExact`, `Console!ShownInOrder`,
`AndroidAb!TriesCounted`, `DeviceModel!NoRunaway`).

**`BlkDevice`** is the promise of the block layer: a read that reports all its
blocks returns what the selected hardware partition holds, a write changes only
the blocks it names.

**`BlkCache`** is `blk_read`, `blk_write`, `blk_erase`, `mmc_select_hwpart`,
`part_init` and the commands that configure or free the cache. A node is a heap
object in a slot, `lru` the list `block_cache`. `FillReuse` and `FillNew` are the
two halves of `blkcache_fill`, with failing `malloc`. Sums of block numbers wrap
at `LbaMod`, and requests are restricted to those whose end does not wrap, which
is what its callers guarantee. Hit and miss counters are left out.

**`EnvMmc`** is `env_mmc_load`, `env_mmc_save` and `env_mmc_erase` of the redundant
variant with `env_check_redund`, `env_import_redund` and `env_export`. A save is
`SaveStart` (serial increased, first block on the medium, so the copy is invalid),
`SaveWrite` (last block) and `SaveReturn` (`env_valid` switched). `SaveFail` reports
an error before the last block is on the medium or after it. `Select` is
`env_select` to another location and back.

**`EnvFlash`** is `env_flash_init`, `env_flash_load` and `env_flash_save`, with two
sectors and with a single one, which is what the H6 board configures; protection,
erase, write, flag and restore are separate steps. A power loss during an erase is
taken as before or after it.

**`Fwu`** is the boot (`Validity` to `RevertedCtr`: `fwu_check_mdata_validity`,
`fwu_boottime_checks`, `fwu_trial_count_update`) and the capsule loop (`Launch` to
`Switched`: `efi_launch_capsules`, `efi_capsule_update_firmware`,
`fwu_post_update_process`). A metadata update is `WritePrimary` then
`WriteSecondary`, returning to `cont`. A read of the metadata may fail: outside
`fwu_check_mdata_validity` the other copy is then not tried (`ReadFails`), inside it
the copy counts as invalid (`ReadSets`). `Launch` may fail to clear `OsIndications`
or to scan the directory. The earlier boot stage (`PowerOn`) and the
OS (`Deliver`) are outside the repository and modelled by what the code expects of
them. It assumes `CONFIG_EFI_CAPSULE_ON_DISK_EARLY`, so that capsules are launched
after the boot-time checks, and one image per capsule.

**`NetLoop`** is `net_loop`: a pass (`Pass`: `arp_timeout_check`), the packets of one
`eth_rx` (up to `EndRx`), the timeout handler, the switch over `net_state`
(`Check`, `Done`, `Continue`, `Abort`), and `net_start_again` with its retry limit
and the rotation of interfaces. A packet whose Ethernet address is not known waits
for ARP, with ARP's own tries. Timers have no values: a timeout may come in any
pass that did not set the timer back.

**`Tftp`** is `tftp_start`, `tftp_start_server`, `tftp_send`, `tftp_handler` (one
action per kind of packet) and the timeout handler. `t` holds the static variables
of `tftp.c`. Block numbers are taken modulo `SeqSize`; the comparison of a block
with the expected one keeps its signed and unsigned 16-bit halves (`IsAhead`). The
peer is external: it follows the RFCs, repeats itself and may fall silent. A packet
can be received any number of times, or never, until the transfer is `late` blocks
further on. Every start uses a port of its own, so that packets of an earlier start
are not looked at; the limit of 32 packets per `eth_rx` is not counted, a pass may
take any number.

**`Transfer`** is what `Tftp` implements: the blocks of one source arrive in order,
each once and at its place, and success means all of them.

**`Membuff`** has one operator per function of `lib/membuff.c`, **`MembuffCalls`** a
client that calls them in any order, and **`BoundedQueue`** is what a caller sees. In
both, `call` holds the last call with its arguments and `ret` its result, so that a
step of `MembuffCalls` is matched with the same call of the queue: a put has to
store all that fits, a get to return all that is asked for and there.
`BoundedQueue` is the queue of `include/membuff.h` but for two promises that
`lib/membuff.c` does not keep (section 4).

**`Console`** numbers the characters in the order in which they are printed, so that
"once and in order" is about increasing numbers. `ConsoleInitF`, `LoadEnv` and
`ConsoleInitR` are the stages of a boot, `Puts` is `puts` at each of them, `Flush`
is `print_pre_console_buffer`. A change of the variable `silent` acts at once
(`CONFIG_SILENT_CONSOLE_UPDATE_ON_SET`). Input is fed by a test (`InPuts`) or typed
(`Key`), and read by `Tstc` and `Getchar`.

**`AndroidAb`** is `ab_select_slot`: `SelectSlot` up to the decision, `Store` the
write, `Boot` the start of the slot. The system that runs from the slot is external:
it fails, marks its boot successful, or makes another slot active, as the A/B
scheme has it.

**`DeviceModel`** keeps the calls in progress on a stack of frames, so that
`device_probe`, `device_remove`, `device_unbind` and `device_bind` can call each
other and themselves. An action is a stretch of a function up to a call that may
nest or fail. `conf.early` lets a device probe any device below it from its pinctrl
call, `conf.bus` its children from its `probe` method, and `conf.family` bind
children from its `bind` method.

History variables are not in the code and state the properties: `good` (the
environments a boot may come up with), `cand` (the metadata a reader may find),
`trialBoots` (boots in trial state since the last bank switch, automatic revert or
regular boot), `boot` of `Console` (what `console_init_r` left), `attempts` and
`loaded` of `AndroidAb`, `last` of `DeviceModel` (the outermost call).

## 3. The runs

| run | instance | checks |
|---|---|---|
| `blkcache` | two devices, one with blocks of twice the size and two hardware partitions, two blocks each, two nodes, limits 0/2 entries and 1/2 blocks | `Coherent`, `BufferFits`, `ListExact`, refinement of `BlkDevice` |
| `env_mmc` | four serials, three contents; the board of the theorem, failing writes, and all errors with and without a boot partition per copy and a second location | `PowerFailSafe`, `ErasedMeansErased`, `KeepsLastCopy` |
| `env_mmc_skip` | failing writes | `SavedMeansStored`, violated (section 4) |
| `env_flash` | one sector and two, larger or not, with the errors a save reports and with all errors | `PowerFailSafe`, `LoadsSaved`, `NorProgram` |
| `fwu` | two banks, two images, one trial boot; power loss anywhere with reverts; failing image writes; every write failing and power loss, without and with a fallback boot; failing reads and variables with a fallback boot | `MetadataSafe`, `SparesRunning`, `NoUpdateInTrial`, `ActiveIntact`, `TrialBounded` |
| `fwu_trial_revert` | updates of one image and revert capsules, nothing fails | `TrialBounded`, violated (section 4) |
| `tftp` | a file of nine blocks, eight block numbers, windows up to three, two peers, one timeout; get then server, a file too large, a late OACK, no memory, put then server | `AckedIsStored`, `PutInPlace`, refinement of `Transfer`, `TransferEnds` |
| `tftp_put` | a put, packets not late | `Complete`, violated (section 4) |
| `membuff` | buffers of up to five bytes, strings of up to three, two bytes of which one ends a line | `CountsExact`, `ContigIsContiguous`, refinement of `BoundedQueue` |
| `console` | boots with every kind of silence, five early characters and a ring of three; tests that record seven characters into four; input fed and typed at two devices | `ShownInOrder`, `EarlyShown`, `SilentUntilEnv`, `RecordedAll`, `TstcPending` |
| `android_ab` | two slots and room for three, two tries, every fault, any slot able to come up, two losses of power, two changes by the system | `TriesCounted`, `RoundRobin`, `DeadStaysDead`, `Rollback` |
| `device_model` | five devices in four levels, three with active DMA, two vital; every step failing, nested probes and binds, all removal flags | `NoRunaway`, `StartedKeepsMemory`, `ParentStays`, `ParentActive`, `ReturnsTruth`, `DmaQuiet`, `ProbedOnce`, `VitalStays`, `Returns` |

Why the bounds are enough to reach the interesting cases:

* *Block cache.* Two nodes are the least with an order in the LRU list. Two
  block sizes make buffers pass between devices in both directions, and two blocks
  give a hit at a non-zero offset inside a node. `LbaMod` exceeds the device, so
  that requests beyond its end occur.
* *Environment.* Three contents tell apart the default, the last saved and the
  one being saved. Four serials wrap within a few saves; three is the least number
  for which "newer" is defined, and the theorem covers every larger one, 256
  included. Saves, losses of power and reloads are not bounded: the state spaces
  are finite as they stand.
* *FWU.* Two banks are what the wrap of the bank index and "previous" need; two
  images make an update that is half done; a trial limit of one has a boot below
  the limit, at it and past it. `trialBoots` is capped just above the bound it is
  compared with. The failures are spread over three platforms that update the first
  image only, which keeps the run at 5.6 million states.
* *TFTP.* Nine blocks against eight numbers wrap once, with a block on each side
  of the wrap. A window of three has blocks to lose at its start, middle and end.
  Two peers are what a repeated request gives the server. `late` is how far a
  delayed packet can reach back; two is less than half of `SeqSize`, as a delay is
  less than half of 65536 blocks.
* *Membuff.* Five bytes have room for every arrangement of two wrapped parts, and
  for one that is made contiguous in each of the ways the code knows. A string of
  three is put in two parts into a buffer that has room for it across its end.
* *Console.* Five characters into a ring of three wrap it; seven into a recorder
  of four fill it in the middle of a string.
* *Android A/B.* Two tries have a first, a last and a used-up one; two changes by
  the system let an update follow a boot that was marked.
* *Driver model.* Four levels put a device both above and below another that is
  probed, removed or vital, and the two children of the bus are siblings.

All runs but `android_ab` check for deadlock: none of the other parts may stop for
good, while a board with no slot left to boot does.

**Fairness.** Three specifications assume it, for what runs on the processor by
itself and for nothing else:

* `Tftp`: weak fairness of the steps of the loop, of ARP's timer and of the
  timeout, because `net_loop` polls both timers in every pass and only returns
  through the switch. Nothing is assumed of the network or the peer. `TransferEnds`
  says that every command ends, whatever the peer does or fails to do.
* `AndroidAb`: weak fairness of the choice, the write, the boot, and the reset of
  a system that fails (its watchdog). Power may stay on or be lost; `Rollback` says
  that a slot that works is reached.
* `DeviceModel`: weak fairness of the steps inside a call. `Returns` says that
  every call returns, whatever calls it makes.

The other specifications assume none. That trial state ends is stated as the
safety property `TrialBounded`, a bound on the number of boots, because how often a
board is booted is not the code's choice.

## 4. Where the code and its promises part

Three runs end in a violation and are findings in `PROJECT.json`:

* `env_mmc_skip`: a failed save uses up a serial number. If that happens at the
  wrap, the copy saved next is taken for the older one.
* `fwu_trial_revert`: a revert capsule in the boot in which the trial counter runs
  out undoes the automatic revert, and the failed bank stays without a counter.
* `tftp_put`: once the last block was sent, any acknowledgement completes a put,
  also a repeated one for the block before.

The following configurations also refute a property, stated without its
precondition on `conf`. Each was checked with TLC, starting from the constants of
the property's run, with `Configs` replaced by the one given. They are what the
preconditions exclude, and have no run of their own.

| property | configuration | cause |
|---|---|---|
| `EnvMmc!SavedMeansStored` | `fails = {"nodev"}` or `{"read"}` | a failed load leaves a low `env_flags`; the next save loses against the old copy (`env/mmc.c:404`, `env/common.c:400`) |
| `EnvMmc!KeepsLastCopy` | `twoLocations` | `env_select` sets `ENV_INVALID` (`env/env.c:405`); a save then writes copy 0 whichever is valid (`env/mmc.c:272`) |
| `EnvMmc!KeepsLastCopy` | `fails = {"report"}` | a save that is complete but reported as failed leaves `env_valid` as it was (`env/mmc.c:288-294`); if the other copy is invalid, the next save overwrites the only valid one |
| `EnvMmc!ErasedMeansErased` | `hwRedund`, `fails = {"erase"}` | the result of the first erase is overwritten (`env/mmc.c:349`) |
| `EnvFlash!SavedMeansStored` | two sectors, `fails = {"erase"}`, or `{"malloc"}` with `larger` | the exits at `env/flash.c:150-153` and `166-167` leave with `rc` 0 |
| `EnvFlash!PowerFailSafe` | two sectors, `larger`, `fails = {"restore"}` | the pointers are not swapped (`env/flash.c:187-190`); the next save erases the sector in use |
| `EnvFlash!LoadsSaved` | `Reloading`: two sectors, `cmdLoad` | `env load` after a save returns to the sector found at boot (`env/flash.c:310`, `88-110`) and marks the one saved last obsolete |
| `Fwu!TrialBounded` | `powerLoss`, updates of one image | power loss between the switch and the start of the counter (`efi_capsule.c:526`, `533`) |
| `Fwu!TrialBounded` | batches that update one image of two | an unaccepted image of an earlier batch, no counter started (`efi_capsule.c:532`) |
| `Fwu!TrialBounded` | `fails = {"md"}` | the second write of the switch fails: it takes effect, without a counter; a revert that fails deletes the counter all the same (`fwu.c:113`) |
| `Fwu!NoUpdateInTrial` | `fallback` | `in_trial` is not computed when the booted bank differs (`fwu.c:693-700`) |
| `Fwu!MetadataSafe` | `fails = {"md"}` | a failed update tears one copy, the next one of the batch the other |
| `Fwu!MetadataSafe` | `fails = {"read"}`, `powerLoss` | power is lost between the two writes, and at the next boot the primary cannot be read: the older secondary is written over it (`fwu.c:237`, `278-291`) |
| `Fwu!NoUpdateInTrial` | `fails = {"read"}`, `powerLoss` | the same after the write that switches the bank: the metadata goes back to the old bank, the booted one differs, and its trial state is not looked at |
| `Fwu!ActiveIntact` | `fails = {"image"}`, `powerLoss`, `ignoreOsInd` | `update_status` is lost at the reset, the failed capsule is already deleted, and the rest of the batch switches |
| `Tftp!Complete` | `LateOack`: a repeated OACK, window of three | the handler goes back to `STATE_OACK` (`tftp.c:529`); the next block is counted and dropped, and the transfer completes with a hole |
| `Tftp!PutInPlace` | put, `late = 1` | an acknowledgement repeated at the wrap counts the wrap twice (`tftp.c:497`) |
| `AndroidAb!ReadErrorStops` | `faults = {"short"}` | a short read is no error to `IS_ERR_VALUE` (`android_ab.c:111-117`), against the comment at 194-198; good metadata is replaced by the default |
| `AndroidAb!SuccessfulBootable` | `OnlyMarks`: the system marks a boot and leaves the tries | a successful slot without tries is skipped (`android_ab.c:249-250`), against the comment at 229-234 |
| `AndroidAb!TriesCounted` | `faults = {"store"}` or `{"torn"}` | the result of the write is ignored (`android_ab.c:297`); a torn block is replaced by the default with all its tries |
| `MembuffCalls!LinesUpToMaxlen` | as in the run | `membuff_readline` needs room for the end of the line and a terminator (`membuff.c:299`), where `membuff.h:186-196` says "up to maxlen characters" |
| `MembuffCalls!ExtendsInFull` | as in the run | `membuff_extend_by` adds what `max` leaves and returns 0 (`membuff.c:336-342`), where `membuff.h:201-209` says `-E2BIG` |
| `Console!ShownInOrder` | without its exception | where `console_init_r` lifts the silence, the UART shows the device names twice (`console.c:1106`) |
| `DeviceModel!StartedKeepsMemory` | `bus`, `fails = {"probe"}`; or `early`, `{"prepare"}`; or `{"post", "remove"}` | the error path frees the memory of a device whose child, or which itself, is still started |
| `DeviceModel!ProbedOnce`, `ParentActive` | `bus`, `fails = {"probe"}` | children that a failing parent probed stay active; the parent's next probe finds them so |
| `DeviceModel!ParentStays` | `family`, `fails = {"bind"}` | a bind that fails after its children were bound frees their parent (`device.c:194`) |
| `DeviceModel!ParentActive` | `flags = {"dma"}` | `DM_REMOVE_ACTIVE_DMA` removes a parent and leaves a child without DMA active |
| `DeviceModel!DmaQuiet` | `flags = {"dma"}` without `last.whole`; or with `fails = {"remove"}` | a device probed below such a child is not found by the next removal; a failed removal stops the others |

## 5. What is proved

Every theorem is for all values of the constants that the named assumption of the
module allows; the configurations it is about are in its property's precondition or
in its statement. `Spec => []P` rests on an inductive invariant in each case, and a
lemma per action (or per group of actions) that the step preserves it.

**Block cache** (`BlkCacheProofs`, `BlkAssumption`).

* `CacheSafe`: types, `Coherent`, `BufferFits` and `EntriesExact`, for any devices,
  sizes, limits and number of nodes. The invariant says what makes one node good
  (inside its device, content equal to the device's, buffer large enough) and that
  the entry count is exact.
* `CacheRefines`: the block layer with its cache implements `BlkDevice`. A hit is a
  `Read` of the device because the node matches the request (`MatchInside`, where the
  wrapping comparison of `cache_find` is shown harmless) and is coherent.
* `ListExactAlways`: the list holds each allocated node once and no other. It needs
  what removing from, appending to and filtering a sequence do, for all lengths.

**Environment on MMC** (`EnvMmcProofs`, `EnvMmcAssumption`).

* `PowerFailSafeAlways`: types on every board, and `PowerFailSafe` on those that are
  `Reliable` (the device operations succeed, MMC is the only location), for every
  number of serials from three. `PowerFailSafe` is not inductive: one must know that,
  between calls, the copy `env_valid` names carries the serial `env_flags` and is the
  one a boot chooses, and that a copy just written carries the next serial. The
  arithmetic is in `NewerConsecutive`.
* `KeepsLastCopyAlways`: also with saves that fail half way, where copies can be
  read, erases work, and no complete save is reported as failed. `env_valid` names a
  valid copy whenever there is one.
* `ErasedAlways`: whatever fails, with both copies in one partition.

**Environment in flash** (`EnvFlashProofs`, `EnvFlashAssumption`). `Sound` says that
the errors are those a save reports or that come after the environment is complete,
and that `env load` is not used with two sectors.

* `PowerFailSafeAlways`, `SavedMeansStoredIfSound`, `LoadsSavedIfSound`: where `Sound`
  holds, a boot comes up with what was saved or was being saved, what a save reported
  as stored is stored, and a load yields it. Without `Sound` none of them holds
  (section 4): it excludes the exits that return 0 without storing. The invariant
  says, for one sector and for two, which sector a boot finds at each step of a save.
* `NorProgramAlways`: in every configuration, whatever fails. A sector is blank when
  it is written.

**FWU** (`FwuProofs`, `FwuAssumption`), for any number of banks and images.

* `MetadataSafeAlways`: if no read and no write of the metadata fails, with power
  lost anywhere. Between updates both copies are the same and the only candidate;
  during one, the copy that is not being written is a candidate.
* `SparesRunningAlways`: whatever fails. Where the checks at boot passed outside the
  trial state, every readable copy and the one being written name the booted bank.
* `NoUpdateInTrialAlways`: without a fallback boot and without read errors, whatever
  else fails. The same copies are all accepted.
* `ActiveIntactAlways`: without a fallback boot; with power lost anywhere and nothing
  failing, or with failing image writes, no power loss and updates of all images. An
  incomplete image is in the bank to be updated, and a capsule that writes it again
  is left or the banks are not switched.
* `TrialBoundedIfFull`: without power loss, fallback boots, revert capsules and
  failures other than of image writes, and with updates of all images. The counter
  and the boots counted add up.

**Android A/B** (`AndroidAbProofs`, `SlotAssumption`, `ConfigAssumption`), for any
number of slots and tries. `BestIs` says which slot the loop of `ab_select_slot` finds,
by induction over the slots, and `SelectIs` what it then stores.

* `TriesCountedAlways`: with power lost anywhere and failing reads; writes succeed and
  are not torn. The boots of a slot and the tries left on the disk never exceed the
  tries it was given.
* `RoundRobinAlways`: under the same faults, until the system changes the block. No
  slot is more than one boot ahead, plus one for each reset. The invariant is that
  the tries left differ by one at most, that the slot chosen has the fewest, and that
  a try without a boot was lost to a reset.
* `DeadStaysDeadAlways`: also with failing writes; no torn writes, no short reads.

**Memory buffer** (`MembuffProofs`, `SizeAssumption`), for buffers of any size.

* `QueueRefined`: each call, with its arguments, is that call of `BoundedQueue`, with
  the same effect and result. The lemmas say what each function does to the bytes
  from tail to head, wrapped or not; the loop of `membuff_readline` is treated by
  induction over the set of numbers of rounds for which the claim holds.
* `CountsExactAlways`, `ContigAlways`: from the same lemmas.

Only model-checked: all of `Tftp`, `NetLoop`, `Console` and `DeviceModel`, and the
configurations that the preconditions above exclude. Beyond the prover and left to
TLC in any case: liveness (`TransferEnds`, `Rollback`, `Returns`), `ENABLED`, and
induction through the library's theorems with an operator parameter; the few
inductions above are made over a set of numbers instead (`NatSet`).

## 6. The plan

Theorems: the placement invariant behind `Tftp!ImplementsTransfer`;
`DeviceModel!NoRunaway` and `ParentStays`; `Console!RecordedAll` from the lemmas about
`Membuff`.

Components, after them: `lib/hashtable.c` and `lib/lmb.c` as functions against a
finite map and a set of addresses; the event queue of `lib/efi_loader/efi_boottime.c`;
the descriptor ring of virtio; the buffering of `drivers/dfu/dfu.c`. They come last
because their state does not outlive a call, or because a test reaches it.

## 7. What is not modelled, and why

* Inside the modelled parts: the single-copy environments and the offsets on MMC;
  the rest of a larger flash sector's content; the GPT lookup, parsing and
  authentication of capsules and the `UpdateCapsule` runtime call; capsules with
  several images; hit counters; block numbers at the end of their range.
* TFTP and the network loop: the start functions of the other protocols, IPv6,
  `netretry=yes` (which has no end), the environment variables that choose options,
  `eth_init` that fails, the values of timers.
* Membuff: `membuff_dispose`, which nothing calls and which hands `free` the address
  of a field; `membuff_extend_by` by one byte or more on a membuff of no bytes, which
  doubles zero and does not return (`membuff.c:334-335`).
* Console: the build without `CONSOLE_MUX`, the debug UART,
  `GD_FLG_DISABLE_CONSOLE`, `stderr`, Ctrl-C, and the start and stop of devices.
* Driver model: the searches, sequence numbers, reparenting, of-platdata without
  bind, power domains switched off, and the creation of uclasses.
* Checksums are modelled by what they are for: a copy that is not completely
  written fails its CRC. Collisions are ignored.
* Board, architecture and peripheral code is register sequences; it appears as
  steps that may fail. File formats, compression, cryptography and text processing
  are functions on byte strings, out of the reach of bounded checking. Host tools and
  tests do not run on the board.
