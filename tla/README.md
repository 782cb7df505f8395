# TLA+ verification of the Andromeda platform loaders

This directory holds a TLA+ model of the state machines in
`Platforms/` of mu_andromeda_platforms, TLC configurations that check them on
small instances, and TLAPS proofs of the properties that matter most. Paths
below are relative to the repository; `FastbootLib/` stands for
`Platforms/QcomModulePkg/Library/FastbootLib/`, `BootLib/` for
`Platforms/QcomModulePkg/Library/BootLib/`, `avb/` for
`Platforms/QcomModulePkg/Library/avb/`, `AndromedaPkg/` for
`Platforms/AndromedaPkg/`.

    tlc -config FastbootThreads.cfg MCFastboot     # any Fastboot*.cfg
    tlc -config SlotsBuilt.cfg MCBootSlots         # any Slots*.cfg
    tlc -config GptUpdate.cfg MCGptUpdate          # and so for the others
    tlapm FastbootProofs.tla
    tlapm BootSlotsProofs.tla                      # and so for the other six

## 1. The system and its parts

The repository is UEFI firmware for Qualcomm based devices. Most of it is
platform description (device trees, ACPI tables, memory maps, build files).
Its own behaviour sits in a few programs and drivers:

| Part | State | Operations | Interacts with | Hard behaviour |
|---|---|---|---|---|
| fastboot download/flash pipeline (`FastbootLib/FastbootMain.c`, `FastbootCmds.c`) | `mState`, the two halves of the download buffer, `mBytesReceivedSoFar`, `IsFlashComplete`, `FlashResult`, two locks, three timers, one queued USB transfer | commands download, flash, erase, getvar, reboot, continue; data phase; flash thread; timer callbacks | USB host by messages, block device by writes, flash thread by locks and flags | threads and timer callbacks against the main loop, put-off answers, cable drops, allocation and thread failures |
| A/B boot slots (`BootLib/PartitionTableUpdate.c`, `avb/VerifiedBoot.c`, `Application/LinuxLoader/LinuxLoader.c`) | attributes and type GUIDs of slotted partitions in `PtnEntries`, the GPT on the medium, the UFS boot LUN, published variables | set_active, flash and erase of a boot partition, flash:partition, continue, boot, start of the loader | fastboot commands call it; the running system writes the same table | three records of one fact of which a reset keeps only one; failure of one step of several |
| GPT update (`BootLib/PartitionTableUpdate.c`) | MBR, two headers and two entry arrays per LUN; `PtnEntries`; the statics `Lun` and `ParseSecondaryGpt` | flash:partition, `UpdatePartitionTable`, `WriteGpt`, `PatchGpt` | called by `CmdFlash`; the slots read `PtnEntries` | power loss and failed writes between the two copies; statics that outlive a command |
| sparse image format (`FastbootLib/FastbootCmds.c`) | position in image and partition | `HandleSparseImgFlash` and its chunk handlers | called by a flash | arithmetic at the limits of sizes |
| verified boot and device state (`BootLib/DeviceInfo.c`, `avb/VerifiedBoot.c`) | `DevInfo`: lock bits, verity mode; boot state | unlock, lock, `LoadImageAndAuth` | fastboot commands, slots, menus, recovery | a lock changed before its wipe is recorded; a status that replaces another |
| recovery (`BootLib/Recovery.c`) | the message in misc | read and write of the message | unlock, reboot, menus | the message outlives a reset and is shared by its writers |
| menus and keys (`BootLib/*Menu*`) | one timer event, one menu record per file, statics of the key handler | timer driven key polling, screens with timeouts | device state, reset, boot | the timer callback against the thread that draws, waits and delays |
| authenticated variables (`AndromedaPkg/Library/AuthVariableLib`) | PK, KEK, db, certdb, time stamps, setup and custom mode, vendor keys | verified writes, start-up | variable driver, buttons (`PlatformSecureLib`) | several writes per request, each of which may be refused or the last |
| secure boot provisioning | none of its own | enrolment of dbx, db, KEK, PK | authenticated variables | |
| boot manager and boot policy (`AndromedaPkg/Library/DeviceBootManagerLib`, `MsBootOptionsLib`, `MsBootPolicyLib`) | BootOrder and its options, BootNext, OsIndications, settings, locked variables | registration, checks of keys, priority boot, completion and failure of a boot | buttons, front page, OS | many boots in a row, each over what the last one, a user or an OS left |
| front page, buttons | ButtonState, settings | boot next, restart, exit | boot manager | a key timer against four checks |
| WHEA early storage (`AndromedaPkg/Library/MsWheaEarlyStorageLib`) | header with checksum, records, in bytes that survive a reset | read, write, clear, append | error reports | a reset between any two bytes; 8-bit arithmetic |
| serial and debug logs, memory map, firmware data, drivers, tables | static tables, ring buffer | lookups, output | | mostly sequential |

`PROJECT.json` lists every part with its sources, its status and the reason it
is not modelled, and every hazard at the line where it bites.

How the parts interact: `HandleUsbEvents` is the scheduler of the
fastboot program. It polls one USB event at a time, and a completed receive is
either a command (`AcceptCmd`) or data (`AcceptData`). A command is answered by
`FastbootAck`, which queues a send; the completion of the send queues the next
receive. A flash of a large partition goes on after its answer, in a thread or
in the main loop under a polling timer, while the host downloads the next
image into the other half of the buffer. Commands that act on slots use
`PartitionTableUpdate.c` on `PtnEntries`, an in-memory copy of the table;
flash:partition writes the table itself and reads `PtnEntries` again. A boot
goes through `LoadImageAndAuth`, which may show warning screens; the screens
and the menus share one key timer with fastboot's menu. Lock commands open a
confirmation menu and leave a wipe in misc for the recovery system. On the UEFI
side the boot manager starts the front page, an application or an OS, and all
of them write variables: boot options, and those of secure boot, which
`AuthVariableLib` guards.

What makes each correct: every command is answered once; what is written is
what was downloaded; nothing overtakes a flash; failures are reported; locks
are used in one order; receives stay in their buffer. For slots: attributes,
GUIDs and boot LUN name the same slot; what set_active was asked for is what
is booted; the published variables are not stale; a bad slot leads to the good
one. For a table: no reader ever finds one that nobody sent. For a sparse image:
nothing is read or written outside, and what is written is what the image
describes. For locks and screens: no lock changes without a wipe, nothing boots
past a warning that says otherwise, no screen hangs. For variables: modes follow
PK, a variable and its signer stay together, an older request undoes nothing, an append
brings in what it lists. For the boot
manager: choices of the user survive, locks hold, keys are honoured, the user
gets to the front page when nothing boots. For the early store: the checksum
tells whole from torn.

## 2. Modules

| Module | What it is |
|---|---|
| `Fastboot` | the download/flash pipeline |
| `FlashStore` | abstract specification: a store with at most one write in progress |
| `MCFastboot` | the instance of `Fastboot` for TLC |
| `FastbootProofs` | theorems about `Fastboot` |
| `BootSlots` | the A/B slots |
| `MCBootSlots` | partition tables and command sets for TLC |
| `BootSlotsProofs` | theorems about `BootSlots` |
| `GptUpdate`, `MCGptUpdate`, `GptUpdateProofs` | flashing a partition table, write by write |
| `SparseFlash`, `MCSparseFlash`, `SparseFlashProofs` | flashing a sparse image |
| `Menus`, `MCMenus`, `MenusProofs` | locks, misc, menus, key timer, verified-boot screens |
| `AuthVariable`, `MCAuthVariable`, `AuthVariableProofs` | authenticated variables |
| `BootManager`, `MCBootManager`, `BootManagerProofs` | boot options, keys and boots, front page |
| `EarlyStorage`, `MCEarlyStorage`, `EarlyStorageProofs` | the store of early hardware errors |
| `Sums` | `SumTo`, a sum as a recursive function; used by `SparseFlash` and `EarlyStorage` |

The modules are separate state machines; `Fastboot` and `FlashStore` are
composed by a refinement. In `BootSlots` a command is one step, since a slot
command never runs beside a flash: it waits for it (`WaitsForFlash`, below) or
is put off until it is done (but see 2.1 on `AcceptCmdTimerInit`: these modules leave
that failure to `Fastboot`). The same holds of `GptUpdate` and `Menus`. A flash of a sparse image is
a number of writes in `Fastboot`, and `SparseFlash` is what decides which writes.
A flashed table is one step in `BootSlots` and five writes in `GptUpdate`.

### 2.1 Fastboot

State. `hostWait`, `hostCmd`, `hostSent`, `hostImage` are the host (external:
the protocol as the device's code uses it). `rx`, `rxDone`, `gRx`, `tx`,
`txDone`, `connected`, `evConnect` are the USB driver: the queued receive and
its completion, the command in `gRxBuffer`, the sends in flight and completed,
the cable. `mState`, `mNumDataBytes`, `mBytesReceivedSoFar`, `mUsbDataBuffer`,
`mFlashDataBuffer`, `IsFlashComplete`, `FlashResult` keep the code's names.
`mem` is the content of the two buffer halves and `part` that of the medium,
unit by unit: a unit is one bulk transfer and one write, and holds the name of
the image it came from. `mpc` is where the main loop is when a command takes
more than one step; `thr[t]` is a flash thread.

The code has two builds and both are modelled. `MThread = TRUE` is
`IsUseMThreadParallel ()`, the one the platforms are built with: `CmdFlash`
creates a `SparseImgFlashThread` which takes `LockFlash`, while the main loop
holds `LockDownload` over a data phase and over the exchange of the buffers.
`MThread = FALSE` flashes in the main loop with a periodic timer whose callback
polls USB; there `inCallback` says who runs, `deferred` that a command waits
for `AcceptCmdHandler`, and `okayDelay` that the answer to a flash waits for
`FlashCompleteHandler`.

`AcceptCmd` puts a command off while the inline flash runs, if it gets a timer
for it. If it does not (`AcceptCmdTimerInit` fails: no memory, no event), the
code goes on (`GoesOn`) and the command runs there and then, inside the callback
and in the middle of the flash. The flash stands still meanwhile: `outer` is the
flash that was interrupted, and `Return` is the end of the command, which goes
back to it. The command may be an erase, a reset or another flash, and further
callbacks wait until it is done. `overtaken` is history: this has happened. The
properties about the flash that is interrupted (`FlashFaithful`,
`FailureRemembered`, `ImplementsStore`) hold until it has, and section 3 shows
what happens then; `InStep` and `Answered` hold regardless. A put-off command whose
cable was pulled stays put off, and is still run, from whatever `gRxBuffer` then
holds; the build without threads is checked with the cable in.

Actions. One per handler: `HandleConnected`, `ProcessBulkXfrCompleteTx`,
`ProcessBulkXfrCompleteRx` (with `AcceptCmd`, `CmdDownload`, `AcceptData`
inside), `AcceptCmdHandler`, `FlashCompleteHandler`. `CmdFlash` is cut where
other actors can step in: `ExchangeAndFlash` is its part after the wait for the
locks; `InlineWrite`, `InlineDone`, `InlineFail` are its writes. `CmdErase`,
`RebootDevice`, `CmdContinue` are the parts after `WaitForFlashFinished`.
`InfoSent` and `InfoOther` are the private event loop of `getvar all`, in which
one INFO line stands for all. `ThreadAcquire`, `ThreadBegin`, `ThreadWrite`,
`ThreadEnd` are the steps of a thread. `Disconnect` and `Reconnect` are the
cable. `Done` marks the end of a bounded run.

`StartAtResume` says when a thread first runs: inside `ThreadResume`, until it
holds `LockFlash` (it has the priority `UEFI_THREAD_PRIORITY`, above the main
loop), or at any later time. The kernel is not in the repository, so both are
checked.

`FlashStore` has the partitions, one flash in progress and whether the device
has left fastboot. Its flash starts, writes the next unit, ends or fails; an
erase needs that no flash is in progress, and so does leaving fastboot. Its
promise ends with `Overtake`, which the pipeline maps to a command that could not
be put off.

Left out: a timer tick between the last write and `StopUsbTimer`;
`ThreadResume` failing after a successful create; padding to a page; `LunSet`;
ordinary meta and UBI images (a meta image for a locked critical partition is
there); flash of the partition table (see `GptUpdate`); battery check; the key
of avb_custom_key; NAND and eMMC; oem and unlock commands; an erase
that fails midway.

### 2.2 BootSlots

State. `gpt`, `lun` and `img` are on the medium: the table, the UFS boot LUN,
and whether the image of a slot loads and verifies. `ptn` is `PtnEntries`:
priority, active, retry, successful and unbootable bits of boot_a and boot_b,
and for each slotted partition the slot whose copy has its own type GUID.
`HeadNode` is the list of slotted partitions, built on first use. `FirstBoot`,
`CurrentSlotFB` and `slotVars` are the static flag and the published variables.
`phase` is reset, fastboot, linux or stray (a loop that has left its array).
`asked` and `fresh` are history: the slot last made active and that nothing
has undone it since.

`GetActiveSlot` writes when it finds a first boot, so every caller passes
through `Seen`. `SetActiveSlot`, `SwitchPtnSlots`, `FastbootUpdateAttr`,
`ValidateSlotGuids`, `HandleActiveSlotUnbootable` and `LoadImageAndAuth` (with
`FindBootableSlot` inside) are operators with the code's names, `Marked` is
`MarkPtnActive`, and the
commands are the actions. The swap of GUIDs is relative, as in the code: it
exchanges the two GUIDs whatever they are.

Facts of the build the model follows: `IsUpdatePartitionAttributes` returns
FALSE, so `PtnEntries` is never written back; `BootIntoFastboot` is always set,
so the loader always enters fastboot and never decrements a retry count;
`Andromeda.dsc.inc` sets neither `VERIFIED_BOOT_2` nor `USER_BUILD_VARIANT`
(constants of the model, so that both values can be checked).

Left out: a write of the table that fails midway (see `GptUpdate`); a boot
LUN other than 1 and 2; devices without slots; `BootLinux` returning; one
character names that are not letters; dm-verity reboot reasons; virtual A/B.

### 2.3 GptUpdate

A LUN is five regions: MBR, two headers, two arrays of entries. A header on the
medium says whether its CRC verifies, which array its CRC of the entries was
taken from and over how many entries; an array is the name of its table and the
entry that was extended to the end of the device. `disk` is the medium, `ptn`
what `PtnEntries` shows of each LUN, `Lun` and `ParseSecondaryGpt` the statics
that outlive a command. `Flash` is the "partition" branch of `CmdFlash` with
`UpdatePartitionTable` and the checks of `WriteGpt`; `Erase` is
`ErasePartition`, `Write` one `WriteBlocks`, `ReenumeratePartTable` the last
step. Each may fail, an erase or a write half done, and `Reset` is a loss of
power in any of them. What is read back (`Sound`, `Table`) is external and
follows the rules of `ParseGptHeader`.

Kept as the code has it: `PatchGpt` takes the header CRC over 92 bytes whatever
`HeaderSz` says; the `MaxPtCnt` of the second header, parsed over the first, is
used for both arrays; the backup header gets `CurrentLba` 1; a LUN that is not
configured is answered OKAY. An image without a used entry is among the inputs:
`PatchGpt` then computes the place of the last entry from -1 in 32 bits
(`PartitionTableUpdate.c:953-959`) and stores past the image, so the entries stay as
they are and the device may stop there, which is a `Reset` before the erase. What
that store overwrites is not modelled. Left out: the single entries, MBR images, eMMC,
`UpdatePartitionAttributes` (disabled in this build).

### 2.4 SparseFlash

The image is arbitrary: the header of a chunk is chosen when it is read,
wherever it is read from. Integers are narrowed: `UINT32` has the width of
`MAX_UINT32`, addresses and 64-bit sums twice that, so that sums and products
wrap where the code's would. Data is known by its place in the image, so the
content of a block says which bytes were written to it. `ReadHeader` and
`ReadChunk` are the checks of `HandleSparseImgFlash`,
`ValidateChunkDataAndFlash` and the chunk handlers, in their order; `WriteRaw`
and `WriteFill` are one `WriteBlocks` each, which may fail having written some
of the blocks; `RawDone` counts a raw chunk after it is written, as the code
does. `Described`, `WellFormed` and `Laid` are the reference: what the format
says, from chunk sizes alone: where a chunk begins in the image and on the
partition is a sum (`SumTo`) over the chunks before it. The partition is assumed to be smaller than 16 TB
(the block count fits in 32 bits).

### 2.5 Menus

Fastboot commands, the boot and the screens are the main thread; the key handler
is a timer callback that may run wherever the main thread is. So the main thread
is cut where it draws a menu (the record of that menu is zeroed first), where it
waits for the handler and where it delays. There is one event,
`CallbackKeyDetection`, and one menu record per file (`info`), which the handler
reads through the context of the event (`cb`). `notice`, `lastKey`, `waited` and
`refresh` are the statics and the start time of the handler. `dev` is `DevInfo`,
`misc` the message in misc, `boot` the image. `KeyTimeout`, `KeyError`,
`KeyIdle` and the key actions are the branches of `MenuKeysHandler`;
`SetDeviceUnlock` is the lock command, on devices with and without a menu;
`LoadImageAndAuth` with `SlotUnbootable` is the part of a boot that decides on
the screens; `Draw...`, `Proceed` and `RedShutdown` are the screens.

Both the build of the platform file (`NO_AVB`, `Andromeda.dsc.inc:641`) and the
verified-boot builds of `QcomModulePkg` are instances. Facts the model follows:
`DeviceInfoInit` starts every boot unlocked, so a lock state does not survive a
reset; the factory reset is only a message in misc. Left out: the authentication
itself, rollback indexes, AVB_LE, MDTP, keymaster calls, drawing, key repeat.

### 2.6 AuthVariable

One variable stands for each kind: PK, KEK, db (db, dbx and dbt are alike) and
priv, a variable of a private signer kept in certdb. `Submit` is
`AuthVariableLibProcessVariable`: it decides as `ProcessVarWithPk`,
`ProcessVarWithKek` and `ProcessVariable` do and leaves the writes of the handler
in `todo`; `Apply` makes one, `Refuse` is the variable driver refusing one, with
what the caller does then, and `Reset` may come between any two. A payload and a
variable say how often each entry is listed. An append to KEK or db is filtered
(`Filtered`): entries are compared with those of the variable and not with each
other, and without a scratch buffer nothing is filtered. `FilterSignatureList`
copies the filtered list over the start of the caller's buffer while the caller
keeps the old size, so when a db request goes on to KEK it does so from a changed
buffer (`Rewritten`, `buffer`): the new entries, then as many of the old bytes as
were filtered out. Which entries these are depends on the order of the payload,
which is left open; a changed buffer has lost its signature, and may be ill-formed. `AuthVariableLibInitialize` is a list of writes too. `buttons`
is `PlatformSecureLib`'s notion of a present user. Signatures are perfect: all
that matters is whose a request's signature is.

Assumptions: PK is not appended to, an append carries a payload, certdb holds the
entry of one variable. The creation of SetupMode, SignatureSupport and certdbv at
start is not shown by itself; its failure is that of the write after it. What
boot services do at run time (a first physical presence test there) is left out.

### 2.7 BootManager

State that a reset keeps: `order` (BootOrder with the options it names),
`bootNext`, `osInd`, `settings`, `files` (whether the image has the shell). State
of one boot: `pc`, the key in `button`, the four `flags`, what the BDS still has
to boot in `todo`, the policy `locked`. `RegisterFvBootOption`, `AfterConsole`
(`MsPreBootChecks`), `CheckButton` (four of them), `PriorityBoot`,
`PreReadyToBoot`, `ProcessBootCompletion`, `UnableToBoot`, `EnterFrontPage` and
`ProcessBootNext` are the functions of the libraries and of `FrontPage.c`;
`BdsEntry`, `Dispatch`, `Runs` are the BDS that calls them, and the OS may set and
delete options, set BootNext and reset (external). `Fault` bounds refused writes,
low batteries, a missing screen, a boot option that cannot be built
(`PriorityBoot` then leaves the boot order as it is) or read (`ProcessBootNext`
then resets to the front page) and losses of power.

Left out: reboot reason, consoles, on-screen keyboard, device path policy
(`IsDevicePathBootable`), the retry loop of the thermal check (the library of this
platform never asks for one).

### 2.8 EarlyStorage

`mem` is the log buffer, byte by byte; every `MmioWrite8` is a step and `Reset`
may come between any two. A byte is narrowed to `MAX_UINT8`; offsets, sizes and
capacities are computed in that width as in the code. `AddRecord`,
`UpdateHeader` and `AddDone` are `MsWheaESAddRecordV0`, `Format` is the user that
empties the store (external), `InRange` and `Accepted` are the checks of every
read, write and clear. `mapped` says whether the platform's memory map has a "Log
Buffer" (of the memory maps in the repository those of Sm8350 and Sm8150 have one), and
`known` that it was looked up, which only a read does (`HeaderRead`, and `UserRead`
for a read by the user). Until then writes go through address 0; `stray` is
history: which operations did so. `MsWheaESFindSlot` ignores the status of its read:
when that fails, `RangesRead` is any value its uninitialised header may hold. The header keeps the fields the library changes; the
signature adds a constant to the sum, which is a `SumTo` over the words
(`Words`). `DefaultValue` is the byte the store is emptied with, a PCD of the
package outside the repository. The library has no lock; additions that
nest are left out.

## 3. Runs

A *pass* run finishes without error. A *violation* run checks a statement that
a comment or a message of the repository makes and that the code does not keep;
`PROJECT.json` quotes the line under "findings".

| Run | Result | What it shows |
|---|---|---|
| `FastbootThreads` | pass | Build with threads, any host: `InStep` (one transfer in the air, in the right buffer, in bounds), `FlashFaithful`, `WaitsForFlash`, the refinement `ImplementsStore`; under fairness every command and data phase is answered (`Answered`) and every thread ends (`FlashEnds`) |
| `FastbootTimer` | pass | Build without threads: `InStep`, `FlashFaithful`, `FailureRemembered`, `ImplementsStore` until a command is let into a flash; `Answered` though timers put answers off |
| `FastbootDrops` | pass | Cable pulled at any moment, two threads that start late, no memory for a thread: `ReceiveInBounds`, `LockDiscipline` |
| `SlotsBuilt` | pass | The build as it is, without flash:partition: `SetActiveHonoured`, `ContinueBoots`, `CurrentSlotVar` |
| `SlotsTables` | pass | With `VERIFIED_BOOT_2`, flashed tables and failing allocations: `BootedConsistent`, `AtMostOneActive` |
| `SlotsForgotten` | violation of `SlotSurvivesReset` | A slot made active is forgotten at the next reset |
| `GptUpdate` | pass | Good and bad images to two LUNs, two failures or losses of power anywhere: `TablesSound` (copies never contradict each other, no table that nobody sent), `OnlyNamedLuns`, `OkayMeansFlashed` |
| `SparseFlash` | pass | Any image, near the top of the address space too: `StaysInside`, `WrittenAsDescribed` (after a failure as well), `RefusedForCause` (an image of the format is not refused) |
| `Menus` | pass | Five kinds of build, keys at any time, one failing call: `WipeKept`, `BootsAsShown`, `LockAsConfirmed`; under fairness `ScreensEnd` |
| `AuthVariable` | pass | Signed, unsigned, replayed and malformed requests, a refused write and any number of resets: `ModesMatch`, `SignersMatch`, `TimeForward`, `AppendsOnce` |
| `BootManager` | pass | Any number of boots: `ChoicesKept`, `LockHolds`, `KeyHonoured`; under fairness `ReachesUser` |
| `EarlyStorage` | pass | Three records, a reset between any two bytes, capacities on both sides of every limit, with and without a log buffer: `WritesInside`, `DoneKept`, `ChecksumTells` |

Several properties are conjunctions of named parts (`InStep`, `TablesSound`,
`OkayMeansFlashed`, `StaysInside`, `WrittenAsDescribed`, `BootsAsShown`,
`ModesMatch`, `SignersMatch`, `ChecksumTells`); a part can be put in a
configuration by itself to see which one a change breaks. `TypeOK` of the modules
whose configurations do not list it holds in them too; in `Menus` it says more
than types: the handler never reads the message of a zeroed record.

### Other places where the code departs from its comments

The passing runs stay clear of these by the constants they choose or because
the property is not listed; each shows as a violation when the configuration is
changed as said. "Base" is `FastbootThreads` with `SPECIFICATION Spec`,
`DisciplinedHost = TRUE`, `MaxCmds = 3`, `CHECK_DEADLOCK FALSE` and only the
property of the row.

| Property | Change | What happens |
|---|---|---|
| `WaitsForFlash` | Base, `StartAtResume = FALSE` | a thread that has not run yet is invisible to `WaitForFlashFinished` ("Shoud block command until flash finished", `FastbootCmds.c:2424`) |
| `FlashFaithful`, `ImplementsStore` (PROPERTY) | Base, `StartAtResume = FALSE`, `MaxCmds = 4` | the same thread runs after the next flash has begun, and both write the partition |
| `FailureRemembered` | Base | with threads the result of a flash is dropped (`FastbootCmds.c:1358`); "Check last flash result" (3365) finds nothing to report |
| `FlashFaithful`, `FailureRemembered` and `ImplementsStore` without their condition `~overtaken` | `FastbootTimer` | when the timer for it cannot be had, a command is not put off ("Wait for flash finished before next command", `FastbootCmds.c:3354`; the fall-through is 3359-3363): an erase wipes what the inline flash has written, a flash swaps the buffers under it, and the outer flash overwrites the failure of the inner one in `FlashResult` (1921) |
| `WaitsForFlash` | `FastbootTimer` | the same: a reset, an erase or a boot in the middle of the inline flash, since `WaitForFlashFinished` (2427) does nothing without threads |
| `OneAnswer` | Base, `Parts = {equal}` | a sparse image for a partition of exactly `MaxDownLoadSize` is never answered (`FastbootCmds.c:1954`) |
| `OneAnswer` | Base, `Images = {meta}` | `HandleMetaImgFlash` and `CmdFlash` both answer FAIL for a locked critical partition (`FastbootCmds.c:1288`) |
| `OneAnswer` | Base, `PoolMayFail = TRUE` | without memory for the thread's `FlashInfo` there is no answer (`FastbootCmds.c:1890`) |
| `FlashHasData` | Base, `DisciplinedHost = FALSE` | the test for "No data to flash" (`FastbootCmds.c:1725`) compares a pointer that is never NULL |
| `RxMatchesState` | Base, `MaxDrops = 1` | after a drop in a data phase the next command is received as data (`FastbootMain.c:322`) |
| `AtMostOneActive` | `SlotsForgotten` with `SetActiveArgs <- AnyNames` | an empty slot name makes both slots active (`FastbootCmds.c:2148`) |
| `SlotInfoInBounds` | `SlotsForgotten` with `SetActiveArgs <- Underscored` | the loop over `BootSlotInfo` finds no entry for `_a` or `_b` (`FastbootCmds.c:2192`) |
| `SetActiveHonoured` | `SlotsForgotten` with `AllocMayFail = TRUE` | OKAY although neither GUIDs nor boot LUN were switched (`PartitionTableUpdate.c:561`) |
| `SetActiveHonoured` | `SlotsForgotten` with `HostOps <- SetTable` | a refused flash:partition leaves boot LUN 1 behind (`FastbootCmds.c:1815`) |
| `SlotVarsCurrent` | `SlotsForgotten` with `Gpts <- AllGpts`, `HostOps <- TableOnly` | the slot variables do not follow a flashed table (`FastbootCmds.c:569`) |
| `FailoverBoots` (PROPERTY) | `SlotsForgotten` with `SPECIFICATION LiveSpec`, `Gpts <- BadGpt`, `HostOps <- ContinueOnly` | from an unbootable slot with a good other one the device never boots: the switch ends in a reset that undoes it (`PartitionTableUpdate.c:1502`) |
| `OkayWritten` | `GptUpdate` with `Images <- OneImage`, `MaxFaults = 0` | a table for a LUN that is not configured is answered OKAY: `GetBlkIOHandles` finds nothing and says success |
| `ModificationRecorded` (PROPERTY) | `AuthVariable` with `Configs <- OnConfig`, `Requests <- DbRequests` | `mVendorKeyState` is set before the write it stands for, and stays when that is refused (`AuthService.c:643`) |
| `AppendsOnce` with `req.payload` also for the second try | `AuthVariable` | db has A and a request appends A, B, B: the PK path fails after `FilterSignatureList` has rewritten the buffer to B, B, B, and the KEK path appends one B more than was asked for ("shall not perform an append of EFI_SIGNATURE_DATA values that are already part", `AuthService.c:297`; the copy is 1196, the retry `AuthVariableLib.c:463`) |
| `FirstPressPauses` (PROPERTY) | `Menus` with `Builds <- OrangeBuilds`, `MaxFaults = 0` | `IsRefresh` is never reset, so a first press on a later screen continues at once (`MenuKeysDetection.c:253`) |
| `FrontPageKey` (PROPERTY) | `BootManager` | the key of the front page boots the bootloader menu: three checks look for the same button (`DeviceBootManagerLib.c:928`) |
| `mapped => stray = {}` | `EarlyStorage` | a clear before any read goes through address 0 (`MsWheaEarlyStorageLib.c:158`) |
| `stray \subseteq {"clear"}` | `EarlyStorage` | on a platform without a log buffer a record is written through address 0 (118), at a place that an uninitialised header decides (341) |
| `low = {}` without `Capacity <= B` | `EarlyStorage` | with a capacity above 256 a record can be written below the store (110) |
| `InStep` | `SparseFlash` | a DONT_CARE or CRC chunk with data is not skipped by its `total_sz` (`SparseFormat.h:45`) |

Met while reading, and visible in the modules though no property is about them:

- `CmdFlash` assigns `Lun` before it refuses a number that is too large, and the
  next flash:partition without a number looks that LUN's GUID up past the end of
  `LunGuids` (`FastbootCmds.c:1797`).
- A chunk with the CRC type is always refused; a chunk of size 0 after the
  partition is full is refused; a failed flash leaves the partition partly
  written.
- An AVB 1 boot whose failure leaves GREEN in the boot state boots.
- When an event cannot be created, `CallbackKeyDetection` keeps a closed event
  and `WaitForExitKeysDetection` waits for ever.
- `MsWheaEarlyStorageLib` accepts a size larger than the capacity, which its
  comments call refused, and capacities from 0x100 to 0x140 wrap; a record added
  to a store that was never formatted makes it valid.
- The keys are labelled in three ways that do not agree: `GpioButtons.c:33` has
  volume up for the front page and 58 volume down for the alternate boot, the
  arguments in `DeviceBootManagerLib.c:937` and 941 are "VOL+" for the bootloader menu
  and "VOL-" for UFP, and `MsBootPolicyLib` looks for volume up for UFP and volume
  down for the front page, the bootloader menu and the alternate boot, of which the
  bootloader menu is chosen first. So volume up boots UFP and volume down the
  bootloader menu. `KeyHonoured` takes no side: it says that the four checks agree
  with one look at the key.
- A key pressed between two of the four checks may choose what neither key stands
  for, or be lost: volume up before them and volume down after the second choose the
  alternate boot if it is enabled and nothing otherwise. A key pressed between the
  last check and the clear of the button state is lost.
- An image without a used entry makes `PatchGpt` store about 4 GB past it
  (`PartitionTableUpdate.c:959`).
- A deleted variable keeps no time stamp: an old signed request may create it again.

How the properties work. `OneAnswer` counts the places where a request or its
answer can be (a pending connect event, a queued or completed receive, a send,
a put-off answer, a command in work) and says that the sum is one. Less than
one is a host that waits for ever; more than one is an answer taken for that of
the next command and a buffer in use twice. `FlashFaithful` says that all a
flash has written, and all it has still to read, is the image the host
downloaded last: it fails if the next download goes to the half being flashed.
`WaitsForFlash` is an action property, since the flag it depends on and the
thread it speaks of change at different times. `ImplementsStore` is the
refinement of `FlashStore` under the mapping at the end of `Fastboot`.

Each property of a pass run is shown to depend on the code by a variant of one
operator (comments `Variant:` in the modules, listed under "mutants"), under
which TLC finds it violated.

### Bounds

`MCFastboot`: a buffer half of 2 units; partitions `large` (3 units, above the
half, flashed in parallel), `equal` (2, the boundary) and `small` (1, flashed
inline); images `s1` (sparse, 2 units), `s2` (sparse, 1), `r1` (raw, 1),
`meta` (1) and `big` (3, more than the half: refused). So a download takes one
or two transfers or is refused, and an image fits, fills or exceeds a
partition. `MaxCmds` is 5: download, flash, download, flash and one more
command, the shortest run in which a second flash waits for the first and
something follows. One flash thread suffices with
`StartAtResume`, since a second flash waits for `LockFlash` before it creates
one; `FastbootDrops`, where threads start late, has two. `MaxDrops` is 1 where
the cable is pulled: the code keeps no count of drops.

`MCBootSlots` needs no bound: the state is finite. Six tables stand for what
the code tells apart: a factory table (no slot active, all zero), slot a or b
active and successful, an active slot that is unbootable beside a good one, an
active slot with its retries used up, and a table with no active slot that is
not a first boot. Image good or bad is free for each slot. Two slotted
partitions suffice: `ValidateSlotGuids` reads those two, and all others are
swapped by the same loop.

`MCGptUpdate`: two LUNs and the numbers of one that is not configured, one too
large and none; eight images: a good one, one without a used entry, and one per way
in which the parser tells images apart;
two faults, so that a second one meets what the first left. `MCSparseFlash`: a
32-bit integer has four bits, a device block four words (of 4 bytes), the
partition four blocks; three chunks, so that a chunk follows one that failed to
advance; chunk sizes and lengths on both sides of every comparison; an image that
ends just below the top of the address space. `MCMenus`: time in units of ten
seconds, so that the three timeouts are 1, 2 and 3 (in the code 10, 30 and 60
seconds: only their order matters); one failing library call. `MCAuthVariable`:
two certificates and two time stamps, so that a request may be older, of the
same time or newer, and signed by the right or the wrong key; an append that lists
one entry once and the other twice, filtered or not; no request that would make an
entry occur more than twice (`MaxCopies`; a second try by KEK may); one refused
write, any number of resets. `MCBootManager`: two of the default options, one of them
the shell, and one option of an OS; one fault. `MCEarlyStorage`: a byte of four
bits, nine capacities around the sizes of header and record and the width of a
byte, three additions, one record that leaves the checksum as it was. The
configuration has `DefaultValue = 15`; with 0 it passes as well.

Deadlock is checked in all runs but `FastbootDrops`, where a data phase cut by
a drop or a flash without memory may leave host and device waiting for each
other, and `SparseFlash` and `EarlyStorage`, which end with the image and with
the last record.

### Fairness

`FairSpec` has weak fairness of the device (the main loop polls for ever and
timers tick), of each flash thread (the kernel schedules it; it is never
blocked but on `LockFlash`, which the holder gives back), and of the host
reading an answer and sending the data it has announced. Nothing makes the
host send a command or plug the cable. `LiveSpec` of `BootSlots` has weak
fairness of the loader after a reset and of a host that repeats continue; it
serves only the counterexample `FailoverBoots`. `Menus` has weak fairness of
time (`Elapse`), of the timeout branch of the key handler, which a periodic
timer calls, and of the main thread that draws, waits and delays (`Screens`);
no key is ever assumed. `BootManager` has weak fairness of the firmware's own
steps, which nothing but a loss of power stops; nothing makes a user, an OS or
an application do anything.

## 4. What is proved

TLAPS proves these for every value of the constants that meets the named
assumptions (`FastbootAssumption`, `GptAssumption`, `GptUpdateAssumption`,
`AuthVariableAssumption`, `BootAssumption`, `SparseAssumption`,
`StorageAssumption`, and `TimesOrdered`, `BuildsKnown`, `FaultsBounded` of
`Menus`).

| Theorem | Statement | Extra assumption |
|---|---|---|
| `FastbootProofs!Typed` | `Spec => []TypeOK` | none |
| `FastbootProofs!LocksDisciplined` | `Spec => []LockDiscipline` | none |
| `FastbootProofs!ReceivesInBounds` | `Spec => []ReceiveInBounds` | `MThread` |
| `FastbootProofs!WaitsForFlashEager` | `Spec => WaitsForFlash` | `MThread`, `StartAtResume` |
| `FastbootProofs!FailureRememberedInline` | `Spec => []FailureRemembered` | `~MThread`, `AlwaysAnswers` |
| `FastbootProofs!StaysInStep` | `Spec => []InStep` | `AlwaysAnswers` |
| `FastbootProofs!FlashesFaithfully` | `Spec => []FlashFaithful` | `EagerThreads`, `AlwaysAnswers` |
| `FastbootProofs!PipelineImplementsStore` | `Spec => ImplementsStore` | `EagerThreads`, `AlwaysAnswers` |
| `BootSlotsProofs!SlotsTyped` | `Spec => []TypeOK` | none |
| `BootSlotsProofs!SetActiveKept` | `Spec => []SetActiveHonoured` | names a and b, memory, no flash:partition |
| `BootSlotsProofs!CurrentSlotKept` | `Spec => []CurrentSlotVar` | the same |
| `BootSlotsProofs!ContinueKept` | `Spec => ContinueBoots` | the same |
| `BootSlotsProofs!BootedRight` | `Spec => []BootedConsistent` | none |
| `BootSlotsProofs!OneSlotActive` | `Spec => []AtMostOneActive` | no empty slot name |
| `GptUpdateProofs!NamedLunsOnly` | `Spec => []OnlyNamedLuns` | none |
| `GptUpdateProofs!TablesStaySound` | `Spec => []TablesSound` | none |
| `GptUpdateProofs!OkayIsFlashed` | `Spec => []OkayMeansFlashed` | none |
| `AuthVariableProofs!EntriesOnce` | `Spec => AppendsOnce` | none |
| `AuthVariableProofs!SignersStay` | `Spec => []SignersMatch` | none |
| `AuthVariableProofs!ModesFollowPk` | `Spec => []ModesMatch` | none |
| `AuthVariableProofs!NoReplay` | `Spec => TimeForward` | none |
| `BootManagerProofs!LockKept` | `Spec => LockHolds` | none |
| `BootManagerProofs!KeyDecides` | `Spec => KeyHonoured` | none |
| `BootManagerProofs!ChoicesStay` | `Spec => ChoicesKept` | none |
| `MenusProofs!TypesKept` | `Spec => []TypeOK` | none |
| `MenusProofs!WipeStaysAsked` | `Spec => []WipeKept` | none |
| `MenusProofs!NoBootPastScreens` | `Spec => []BootsAsShown` | none |
| `MenusProofs!LocksConfirmed` | `Spec => LockAsConfirmed` | none |
| `SparseFlashProofs!FlashStaysInside` | `Spec => []StaysInside` | none |
| `SparseFlashProofs!FlashWritesDescribed` | `Spec => []WrittenAsDescribed` | none |
| `SparseFlashProofs!RefusalHasCause` | `Spec => []RefusedForCause` | none |
| `EarlyStorageProofs!StoreKept` | `Spec => []WritesInside` | none (the property is about capacities up to `B`, a byte) |
| `EarlyStorageProofs!FinishedStay` | `Spec => [](Capacity <= B => DoneKept)` | `DefaultKnown` |
| `EarlyStorageProofs!ChecksumTellsTorn` | `Spec => [](Capacity <= B => ChecksumTells)` | `DefaultKnown` |

The extra assumptions of `Fastboot` are conditions on its constants.
`EagerThreads`: in the build with threads, a thread runs when it is resumed.
`AlwaysAnswers`: the cable stays in, there is memory for a `FlashInfo`, no meta
image names a locked critical partition, and no partition has exactly the size of
a buffer half: otherwise the code does not give exactly one answer to every
command. `FastbootThreads` and `FastbootTimer` meet both, so neither
is empty; `EagerThreads` holds of every instance without threads. Section 3 has
counterexamples for instances that do not meet them. The failure of a timer is no
assumption: `EventsMayFail` is free, and `FlashFaithful`, `FailureRemembered` and
`ImplementsStore` say themselves that they end with the first command that is let
into a flash (`overtaken`).

`DefaultKnown` of `EarlyStorage`: the store is emptied with 0 or 0xFF, the latter
being what the package's PCD has and the run uses. The argument below says where
another value would leave a gap.

The arguments.

- Types (`TypeInv`): `TypeOK` is inductive once it is known that the host is in
  a data phase only for a download that names an image (`HostInv`), because the
  units it sends are of that image.
- Locks (`LockInv`): `LockDiscipline` is inductive once it is known that only
  the build without threads puts commands off; otherwise `AcceptCmdHandler`
  could start a flash in the middle of a download. The proof is for threads
  that start at once or late, and with drops.
- Bounds (`BoundsInv`): the accounting of `AcceptData` stays in the buffer
  because of `CmdDownload`'s check and because, with threads, a command never
  comes in the middle of a data phase, which is where `LockInv` and `MThread`
  are used. Without threads it takes the next argument.
- One transfer (`StepInv`): `OneAnswer` adds up eight places, and a proof needs to
  know which one it is: `OneInAir` says that exactly one of them is taken.
  `PlaceInv` says what the state machine does when the transfer is there (it
  receives data only when no answer is owed), and `TimerInv` that the USB timer
  runs, and a flash can be interrupted, only beside an inline flash which the host
  has its OKAY for: a command that is let into it owes one answer of its own and
  the flash owes none. The bounds follow in the build without threads too.
- Host and device (`PhaseInv`): the image in a buffer half is known only to the
  host, so `FlashFaithful` needs that both agree on the command in hand
  (`HandInv`), on the answer on the line (`LineInv`) and on the units of a data
  phase sent and received (`DataInv`).
- Halves (`ImageInv`, `JobInv`): what the host has sent lies in the half USB
  fills, and stays there until the exchange (`SentInv`, `KeptInv`); the halves
  differ, and a flash reads the other one, of which it has written `k` units and
  the rest is unread and untouched (`Faithful`). The exchange waits for the flash
  before it, which is where `EagerInv` is used.
- Refinement: `FaithfulInv` is all of these with `EraseInv` (an erase names a
  partition). `WritingRight` says what the mapping's `Writing` is: the one thread
  there is, or the inline job, or none. With it, each action is a step of
  `FlashStore` or leaves its variables alone: `ExchangeAndFlash` begins a flash
  or not at all, `ThreadWrite` and `InlineWrite` write its next unit, `ThreadEnd`,
  `InlineDone` and `InlineFail` end it, `CmdErase` erases and `RebootDevice` and
  `CmdContinue` leave with no flash under way. Fairness is not part of `FlashStore`.
- Waiting (`WaitInv`): if every thread has run by the time `ThreadResume`
  returns, a thread that exists is past the line that clears
  `IsFlashComplete` (`EagerInv`), so the flag tells the truth
  (`EagerFinished`). Section 3 shows the assumption is needed.
- Failures (`RememberInv`): a flash starts only when `FlashResult` is good, and
  an error is cleared only by the answer that reports it. `StepInv` is needed to
  know that a flash with an early answer is not interrupted by another one unless
  `overtaken` says so. Section 3 shows why the theorem is for the build without
  threads.
- Slots (`SlotInv`): the swap of GUIDs is relative, so `SetActiveHonoured` is
  not inductive: a swap from GUIDs that disagree with the attributes leaves
  them in disagreement. The strengthening adds `EntriesAgree` (outside a reset,
  the GUIDs name the active slot, if there is one, and the attributes are sane:
  never two slots active, none active without priority), that `HeadNode` is
  empty or complete, and `CurrentSlotVar`. The extra assumptions are each
  needed: section 3 gives the counterexamples without them.
- Continue (`ContinueKept`): by `SlotInv` the slot asked for is the active one, is
  bootable and is named by the GUIDs and the boot LUN. An active slot means that
  this is no first boot, so the table continue goes by is the one in memory
  (`Seen`); `FindBootableSlot` accepts the slot and `LoadImageAndAuth` starts it.
- Boot and active slot: `BootedConsistent` follows from what `LoadImageAndAuth`
  checks last. For `AtMostOneActive` an active slot must also have a priority
  (`OneInv`), or `GetActiveSlot` would take an active slot for none and make the
  other active. Both hold with failing allocations and flashed tables; an empty
  slot name makes `MarkPtnActive` mark both.
- Tables (`GptInv`): nothing on the medium says which of the five regions
  `WriteGpt` has reached, so the invariant says it. `WorkInv`: the LUN in work
  was erased first, so each of its regions is blank or this command's content,
  as far as `pc` has come. `LunInv`: of any LUN, if both headers verify they
  were made for the same entries, because `PatchGpt` gives both the CRC of one
  array. A header found after a failure therefore never vouches for the array
  of another image, and the two copies cannot differ and both verify.
- Authenticated variables (`AuthInv`): the writes of a request come one by one,
  so the invariant is about those still to make. `StoreInv`: each is of the
  type of its variable; the value was computed when the request
  was taken, and nothing else writes before it is done. `SignerInv` lists the
  five forms `todo` can have with respect to certdb: nothing of it or of the
  private variable; a signer to be cleaned up while there is no variable; a
  signer followed by its variable; a new value of a variable with a signer; a
  deletion followed by that of the signer. `OrphanInv`: a signer stands alone
  only after a refusal or while one of the two is still to be written.
  `TimeInv` and `ModeInv` are about what will be when all writes of `todo` are
  made (`Will`): of each list, something later than what is there now; of PK, mode
  and SecureBoot, three values that go together. PK is written before the mode, so
  neither can be said of the present state, and the start after a loss of power
  computes the mode anew from PK.
- Appends (`AppendInv`): while an append is under way its variable has what it had
  before as often as before, and no new entry more often than the list in hand says
  (`Took`, `Most`); once the writes of `todo` are made it has every new entry
  (`Complete`). The rewritten buffer lists each new entry at least as often as the
  request did, and nothing that the request did not list (`Rewrote`). What the
  variable has already is taken out by the second filter, so the second try, from a
  buffer that is no longer the request, ends with the same set of entries.
- Boot order lock (`LockInv`): `PreReadyToBoot` runs once, so the lock it sets
  must still cover every option when the OS runs, several failed options and a
  visit to the front page later. It does because options are registered, and
  the setting is changed, only before the first option is booted, and because
  with BootOrder locked no option can be added afterwards.
- Keys (`KeyInv`): the button state is that of the last key before the checks,
  each flag is what its check read (`FlagsRead`), and both are cleared before the
  BDS goes on, so a key never lasts into a later decision. Unless a key came between
  the checks, the flags are those of one key (`Steady`).
- Choices (`OrderInv`): BootOrder has no option twice and every option is of its
  type, so the place of an option in the list (`Place`) is unique; taking one out
  (`Without`, the `RemoveAt` of the community modules) keeps the order of the
  others, and what is registered goes behind. Together with `KeyInv` this holds
  of every writer of the order up to the OS and the front page, which act for the
  user.
- Menus (`Inv`): the timer callback may run in every state of the main thread.
  `MenuInv` has what the records hold while they are drawn; `PauseInv` that the
  event belongs to a screen only while the main thread waits for that screen;
  `OfferInv` that a lock menu is shown only for a lock it would change;
  `ConfirmInv` which keys the handler has seen since. `WipeKept` is
  part of the invariant as it stands.
- Sparse images (`RawInv`, `HeaderInv`): while a raw chunk is written, what is
  left of it is a whole number of blocks that fits between the next block and the
  end of the partition, and its data lies in the image. That no sum and product
  of the checks wraps unseen is shown for every width of integers, once, in the
  lemmas about `ReadChunk`.
- What a flash leaves (`MadeInv`): between two chunks, the place reached in the
  image and the count of blocks are the sums over the chunks read so far, the
  blocks below are as described and those beyond untouched (`PartUpTo`); within a
  chunk, `RawAt` and `FillAt` say the same of what it has written. The sums
  never decrease, so a block belongs to one chunk only (`Belongs`), and a chunk
  read later does not change what an earlier one describes (`DescribedBefore`).
  A write that fails may leave any part of its blocks, which all belong to the
  chunk in hand. Every width of integers is covered: what is counted
  has passed the checks, so none of it wrapped.
- Refusals (`CauseInv`): as long as the chunks read are of the format and fit
  (`Formed`), every sum of the checks is below the limit it is compared with, so
  no check fails and nothing wraps; a failed write is the only other cause.
- Early store, bounds (`JobInv`, `MemInv`): every byte still to be written lies in
  the store, and the two bytes of `ActiveRange`, which decide where the next record
  goes, are bytes, torn or not. `BufferInv`: where a record is being written the log
  buffer has been looked up, if there is one. It has because a store in which a
  record fits has room for its header, so that the read of the header, whose status
  `FindSlot` ignores, is accepted. The checks are computed modulo a byte: a store
  larger than 256 bytes is outside the theorem, and is covered by TLC for the
  record sizes and capacities of the run only.
- Early store, content (`KeptInv`): the invariant has one part for each phase of
  a write. `IdleOK`: `ActiveRange` counts whole records, and these are, in order,
  among those added, with every finished one. `RecordOK`: the bytes written so far
  lie behind that range, so a reset leaves the old store. `HeaderOK`: the two bytes
  of the range and the checksum follow one by one; the upper byte of the range
  stays 0 and the record is there before the range counts it, so every mixture of
  old and new counts whole records.
  `ClearOK`: what is left to wipe; the header is wiped byte by byte too, and a
  half-wiped one is either empty or `Dead`: its range is larger than any store,
  so every later addition is refused. This is where `DefaultKnown` is used: any other
  byte in one half of the range could count records that were never added.
- Sums: the library's induction theorems have an operator parameter, which the
  provers cannot instantiate. The proofs use instead that a set of natural
  numbers that is not empty has a least member (`LeastNat`, from well-foundedness),
  hence that a set with 0 and the successor of each of its members has all
  (`SetInduction`). With it, a recursive function exists (`StepsExist`), is unique
  (`StepsSame`) and is what `SumTo` says (`SumToIs`); `SumSame` and `SumNat`
  are what the rest needs. `SparseFlashProofs` and `EarlyStorageProofs` each
  have their copy.

TLC also checks `GptInv`, `AuthInv` (its types cut down to what TLC enumerates),
the `LockInv` of `BootManagerProofs`, and `StepInv`, `PhaseInv`, `ImageInv` and
`JobInv` of `FastbootProofs` as invariants on the instances of their runs.

## 5. What is only model-checked

- Liveness: `Answered` and `FlashEnds` of `Fastboot`, `ScreensEnd` of `Menus`,
  `ReachesUser` of `BootManager`. The proof system does not handle fairness.
- `DoneKept` and `ChecksumTells` of `EarlyStorage` for capacities above 256, where
  the code's 8-bit sizes wrap, on the capacities of the run; `WritesInside` is about
  smaller ones only.
- `ReceiveInBounds` without threads when the cable may be pulled; it follows from
  `StepInv` when it is not.
- `FailureRemembered` with threads, and `FlashFaithful` and `ImplementsStore`
  when threads start late or after a command was let into a flash, are false
  (section 3).
- `SlotSurvivesReset`, the violation.

Every other property of the runs is stated by a theorem of section 4, under the
extra assumptions given there.

## 6. Plan

In order of importance. No RECURSIVE operator in a module that is proved about.

1. Proofs: `EarlyStorage` for the capacities above 256 that do not wrap;
   `ReceiveInBounds` with drops in the build without threads.
2. A composition of `GptUpdate` and `BootSlots` for a build in which the entries
   are written back (`UpdatePartitionAttributes`, disabled today).
3. Pure algorithms: DTB best match, memory map lookup, the serial ring.

## 7. What is not modelled and why

Drawing, logging, table building (SMBIOS, ACPI) and register sequences of
drivers are pure output. Kernel loading is straight-line buffer arithmetic and
device-tree editing. Secure boot provisioning makes fixed requests once. The
forms of the front page work on HII services outside the repository.

Most of the repository's 165000 lines of code are not its own logic: headers of
secure services and registers, tables of platform data, configuration headers,
generated and vendored code of OpenSSL, Mbed TLS, zlib, libufdt and libavb. The
modules cover the programs and drivers that keep state and make decisions over
several steps; a third of all lines is out of reach for a model of behaviour.

The USB driver, the kernel of UEFI threads, the block device and the host are
external and appear only as the code uses them. Each part has its line in
`PROJECT.json`.
