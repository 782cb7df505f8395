------------------------------- MODULE Menus -------------------------------
(***************************************************************************)
(* The device state (locks and verity mode), the menus, the key detection  *)
(* timer they share and the verified-boot screens, from the start of the   *)
(* boot loader until Linux starts or the device goes off.                  *)
(*                                                                         *)
(* Fastboot commands and the screens run in the main thread; the key       *)
(* handler is a timer callback that interrupts it anywhere, so the main    *)
(* thread is split where it draws a menu (the menu's record is zeroed      *)
(* first), where it waits for the handler and where it delays.  There is   *)
(* one timer event, CallbackKeyDetection, and one menu record per file.    *)
(* Time is counted in units of ten seconds since StartTimer.               *)
(***************************************************************************)
EXTENDS Integers, Sequences

CONSTANTS
  Builds,       \* the build options and board facts: a set of records [avb,
                \* display, multi, user, allow]
  WarnTime,     \* 10 s, how long a yellow or orange screen stays
  EioTime,      \* 30 s, the dm-verity screen
  PauseTime,    \* 60 s, a yellow or orange screen the user paused
  MaxFaults     \* bound on failing library calls in one behaviour

ASSUME TimesOrdered ==
  /\ {WarnTime, EioTime, PauseTime} \subseteq Nat \ {0}
  /\ WarnTime < EioTime /\ EioTime < PauseTime

ASSUME BuildsKnown ==
  Builds \subseteq [avb : {"NO_AVB", "AVB_1", "AVB_2"},
                    display : {"menu", "flag", "none"},
                    multi : BOOLEAN, user : BOOLEAN, allow : BOOLEAN]

ASSUME FaultsBounded == MaxFaults \in Nat

VARIABLES
  build,    \* the member of Builds that runs
  run,      \* where the main thread is
  screen,   \* the menu it draws, waits for or delays on
  boot,     \* the image: status of its authentication and boot state
  dev,      \* DevInfo
  misc,     \* the message in the misc partition: its command (recovery, for
            \* both reboots to recovery, or a factory test) and its wipe
  cb,       \* CallbackKeyDetection: the file whose menu record is the
            \* context, "null", or "dangling": closed and not NULL
  info,     \* gMenuInfo.Info of each menu file
  notice,   \* the messages whose Action is POWEROFF
  lastKey,  \* MenuKeysHandler's LastKey
  waited,   \* time since StartTimer
  refresh,  \* PowerKeyFunc's IsRefresh
  faults,   \* library calls that have failed
  hist      \* history: what the user did and what has happened

menuVars == <<cb, info, notice, lastKey, waited, refresh>>
vars == <<build, run, screen, boot, dev, misc, menuVars, faults, hist>>

Warnings == {"YELLOW", "ORANGE"}
LockMenus == {"UNLOCK", "LOCK", "UNLOCK_CRITICAL", "LOCK_CRITICAL"}
MenuTypes == Warnings \cup LockMenus \cup {"RED", "EIO", "FASTBOOT"}
Keys == {"none", "up", "down", "power"}
Files == {"fastboot", "unlock", "vb"}

\* The display flag is on: "flag" is a board without a panel.
MenuFlag == build.display # "none"

File(menu) == CASE menu = "FASTBOOT" -> "fastboot"
                [] menu \in LockMenus -> "unlock"
                [] OTHER -> "vb"

\* The two message tables of the lock menus, the notice of each screen.
Msg(menu) == CASE menu \in {"UNLOCK", "UNLOCK_CRITICAL"} -> "unlockMsg"
               [] menu \in {"LOCK", "LOCK_CRITICAL"} -> "lockMsg"
               [] OTHER -> menu

MenuOptions(type) ==
  IF type = "FASTBOOT"
  THEN <<"RESTART", "FASTBOOT", "RECOVER", "POWEROFF", "FFBM", "QMMI">>
  ELSE IF type \in LockMenus THEN <<"RESTART", "RECOVER">> ELSE <<>>

\* mUnlockInfo: the lock a menu is about and the value it sets.
LockOf(menu) == IF menu \in {"UNLOCK", "LOCK"} THEN "unlocked" ELSE "critical"
ValueOf(menu) == menu \in {"UNLOCK", "UNLOCK_CRITICAL"}

\* DeviceInfoInit: nothing is read from the device, which is unlocked.
DeviceInfoInit(enforcing) ==
  [unlocked |-> TRUE, critical |-> TRUE, enforcing |-> enforcing]

Fresh == [moved |-> FALSE, pressed |-> FALSE, asked |-> "none",
          changed |-> FALSE, lost |-> FALSE, paused |-> FALSE, why |-> "none"]

Ok == faults' = faults
Fault == faults < MaxFaults /\ faults' = faults + 1

-----------------------------------------------------------------------------
(* Menu records                                                            *)

\* ZeroMem, as the screen begins: the type becomes 0, the yellow one, and
\* only the lock menus set their message table before they draw.
Zeroed(menu) ==
  [type |-> "YELLOW", num |-> 0, index |-> 0, timeout |-> 0,
   msg |-> IF menu \in LockMenus THEN Msg(menu) ELSE "null"]

\* A record is read only through the event or by the screen that is being
\* drawn, and zeroed before it is shown again: the others count as zeroed.
Kept(i, files) == [f \in Files |-> IF f \in files THEN i[f] ELSE Zeroed("RED")]

ScreenTime(menu) == IF menu \in {"RED", "EIO"} THEN EioTime ELSE WarnTime

\* Variant: the lock menu opens on its second option.
ShownPreselected(r, menu) ==
  [r EXCEPT !.type = menu, !.num = Len(MenuOptions(menu)),
            !.index = IF menu \in LockMenus THEN 1 ELSE @,
            !.timeout = IF File(menu) = "vb" THEN ScreenTime(menu) ELSE @,
            !.msg = Msg(menu)]

\* The fields set once the screen is drawn: a lock menu starts with its
\* index past the options, and keeps the timeout it has.
Shown(r, menu) ==
  [r EXCEPT !.type = menu, !.num = Len(MenuOptions(menu)),
            !.index = IF menu \in LockMenus THEN Len(MenuOptions(menu)) ELSE @,
            !.timeout = IF File(menu) = "vb" THEN ScreenTime(menu) ELSE @,
            !.msg = Msg(menu)]

MenuVolumeUpFunc(r) ==
  [r EXCEPT !.index = IF r.index = 0 \/ r.index > r.num - 1
                      THEN r.num - 1 ELSE r.index - 1]

MenuVolumeDownFunc(r) ==
  [r EXCEPT !.index = IF r.index >= r.num - 1 THEN 0 ELSE r.index + 1]

\* MenuPagesAction: the screens have no volume functions.
HasVolume(type) == type \in LockMenus \cup {"FASTBOOT"}

\* MenuKeysDetectionInit: the old event is closed, and when the new one
\* cannot be created the pointer keeps its old value.
MenuKeysDetectionInit(file) ==
  /\ waited' = 0
  /\ \/ cb' = file /\ Ok
     \/ cb' = (IF cb = "null" THEN "null" ELSE "dangling") /\ Fault

-----------------------------------------------------------------------------
(* Start and end of the program                                            *)

\* LinuxLoaderEntry: fastboot always, with its menu.
Start ==
  /\ run \in {"reset", "off", "linux"}
  /\ run' = "fastboot"
  /\ \E enforcing \in BOOLEAN : dev' = DeviceInfoInit(enforcing)
  /\ misc' \in {misc} \cup IF run = "linux"
                           THEN {[command |-> "none", wipe |-> FALSE]} ELSE {}
  /\ info' = [f \in Files |-> IF f = "fastboot" /\ MenuFlag
                              THEN Shown(Zeroed("FASTBOOT"), "FASTBOOT")
                              ELSE Zeroed("RED")]
  /\ \/ cb' = (IF MenuFlag THEN "fastboot" ELSE "null") /\ Ok
     \/ cb' = "null" /\ MenuFlag /\ Fault
  /\ notice' = {} /\ lastKey' = "none" /\ waited' = 0 /\ refresh' = FALSE
  /\ screen' = "FASTBOOT" /\ boot' = [ok |-> TRUE, state |-> "GREEN"]
  /\ hist' = [Fresh EXCEPT !.changed = hist.changed /\ run # "linux",
                            !.lost = hist.lost /\ run # "linux"]
  /\ UNCHANGED build

\* The program ends, in a reset, with the power off or in Linux: its memory is
\* lost.
Halt(where) ==
  /\ run' = where /\ screen' = "FASTBOOT"
  /\ cb' = "null" /\ info' = [f \in Files |-> Zeroed("RED")]
  /\ notice' = {} /\ lastKey' = "none" /\ waited' = 0 /\ refresh' = FALSE

Init ==
  /\ build \in Builds
  /\ run = "off" /\ screen = "FASTBOOT"
  /\ boot = [ok |-> TRUE, state |-> "GREEN"]
  /\ \E enforcing \in BOOLEAN : dev = DeviceInfoInit(enforcing)
  /\ misc \in [command : {"none", "recovery", "ffbm"}, wipe : {FALSE}]
  /\ cb = "null" /\ info = [f \in Files |-> Zeroed("RED")]
  /\ notice = {} /\ lastKey = "none" /\ waited = 0 /\ refresh = FALSE
  /\ faults = 0 /\ hist = Fresh

-----------------------------------------------------------------------------
(* The locks and the message in misc                                       *)

SetLock(menu, value) == [dev EXCEPT ![LockOf(menu)] = value]

\* The value a failed ResetDeviceState puts back.
LockRolledBack(menu) == SetLock(menu, ~ValueOf(menu))

\* SetDeviceUnlockValue that succeeds: the message of misc is replaced by
\* one whose command is empty and which asks for the data to be wiped.
LockSet(menu) ==
  /\ dev' = SetLock(menu, ValueOf(menu))
  /\ misc' = [command |-> "none", wipe |-> TRUE]
  /\ hist' = [hist EXCEPT !.changed = TRUE, !.lost = FALSE]
  /\ Ok

\* ... and that fails: in ResetDeviceState, undone, or as it writes misc,
\* with the lock changed.
LockFails(menu) ==
  /\ \/ dev' = LockRolledBack(menu) /\ UNCHANGED hist
     \/ /\ dev' = SetLock(menu, ValueOf(menu))
        /\ hist' = [hist EXCEPT !.changed = TRUE, !.lost = TRUE]
  /\ UNCHANGED misc
  /\ Fault

\* Variant: the whole message is written.
WithCommandWhole(command) == [command |-> command, wipe |-> FALSE]

\* WriteRecoveryMessage, and the eight bytes of the factory test commands:
\* the recovery field keeps its value.
WithCommand(command) == [misc EXCEPT !.command = command]

WriteCommand(command) ==
  \/ misc' = WithCommand(command) /\ Ok
  \/ UNCHANGED misc /\ Fault

-----------------------------------------------------------------------------
(* The key handler, a callback: it may run wherever the main thread is     *)

Interrupts == run \in {"fastboot", "draw", "wait", "delay", "red"} /\ cb \in Files

TimedOut(r) == r.timeout > 0 /\ waited > r.timeout

\* Why key detection ended, for the screens.
Exited(why) == [hist EXCEPT !.why = IF cb = "vb" THEN why ELSE @]

ExitMenuKeysDetection ==
  /\ cb' = "null"
  /\ info' = Kept(info, IF run = "draw" THEN {File(screen)} ELSE {})
  /\ UNCHANGED <<run, screen, notice>>

\* A timeout turns the device off on the dm-verity screen and on a warning
\* whose notice says so.
ShutsDown(r) == r.type = "EIO" \/ (r.msg \in notice /\ r.type \in Warnings)

KeyTimeout ==
  /\ Interrupts
  /\ TimedOut(info[cb])
  /\ IF ShutsDown(info[cb])
     THEN Halt("off")
     ELSE ExitMenuKeysDetection /\ UNCHANGED <<lastKey, waited, refresh>>
  /\ hist' = Exited("timeout")
  /\ UNCHANGED <<build, boot, dev, misc, faults>>

KeyError ==
  /\ Interrupts
  /\ ~TimedOut(info[cb])
  /\ Fault
  /\ ExitMenuKeysDetection
  /\ hist' = Exited("error")
  /\ UNCHANGED <<build, boot, dev, misc, lastKey, waited, refresh>>

\* The handler reads key cur: it acts for the last key when that was released
\* or has been held, and the history notes a power press seen in a lock menu.
ReadsKey == Interrupts /\ ~TimedOut(info[cb])

Seen(cur) == [hist EXCEPT !.pressed = @ \/ (cur = "power" /\ cb = "unlock")]

ActsFor(key, cur) == lastKey = key /\ cur \in {"none", key}

\* Nothing to do: another key is down, no key was, or the menu ignores it.
KeyIdle(cur) ==
  /\ ReadsKey /\ lastKey' = cur
  /\ hist' = Seen(cur)
  /\ UNCHANGED <<build, run, screen, boot, dev, misc, cb, info, notice, waited,
                 refresh, faults>>

KeyVolume(cur) ==
  /\ ReadsKey /\ lastKey' = cur
  /\ HasVolume(info[cb].type)
  /\ \/ ActsFor("up", cur) /\ info' = [info EXCEPT ![cb] = MenuVolumeUpFunc(@)]
     \/ ActsFor("down", cur) /\ info' = [info EXCEPT ![cb] = MenuVolumeDownFunc(@)]
  /\ hist' = [hist EXCEPT !.moved = cb = "unlock", !.pressed = FALSE]
  /\ UNCHANGED <<build, run, screen, boot, dev, misc, cb, notice, waited,
                 refresh, faults>>

\* Variant: the timeout is recalculated and the notice left.
PausedNoAction(r) == {}

\* The notices VerifiedBootMenuUpdateShowScreen changes.
PausedAction(r) == {r.msg}

\* The first power press on a warning: VerifiedBootMenuUpdateShowScreen.
KeyPause(cur) ==
  /\ ReadsKey /\ lastKey' = cur
  /\ ActsFor("power", cur)
  /\ info[cb].type \in Warnings /\ ~refresh
  /\ refresh' = TRUE /\ waited' = 0
  /\ \/ /\ info' = [info EXCEPT ![cb].timeout = PauseTime]
        /\ notice' = notice \cup PausedAction(info[cb])
        /\ hist' = [Seen("power") EXCEPT !.paused = cb = "vb"]
        /\ Ok
     \/ UNCHANGED <<info, notice>> /\ hist' = Seen("power") /\ Fault
  /\ UNCHANGED <<build, run, screen, boot, dev, misc, cb>>

\* CONTINUE: a later press on a warning, or any on the dm-verity screen.
KeyContinue(cur) ==
  /\ ReadsKey
  /\ ActsFor("power", cur)
  /\ info[cb].type = "EIO" \/ (info[cb].type \in Warnings /\ refresh)
  /\ lastKey' = cur
  /\ ExitMenuKeysDetection
  /\ hist' = Exited("key")
  /\ UNCHANGED <<build, boot, dev, misc, waited, refresh, faults>>

\* Power on an option of a menu: UpdateDeviceStatus.
KeySelect(cur) ==
  LET r == info[cb]
      reason == MenuOptions(r.type)[r.index + 1]
  IN  /\ ReadsKey
      /\ ActsFor("power", cur)
      /\ HasVolume(r.type) /\ r.index < r.num
      /\ Halt(IF reason = "POWEROFF" THEN "off" ELSE "reset")
      /\ CASE reason = "RECOVER" /\ r.type \in LockMenus ->
                LockSet(r.type) \/ LockFails(r.type)
           [] reason \in {"FFBM", "QMMI"} ->
                WriteCommand("ffbm") /\ UNCHANGED <<dev, hist>>
           [] OTHER -> UNCHANGED <<dev, misc, faults, hist>>
      /\ UNCHANGED <<build, boot>>

\* What the switch on LastKey finds to do.
HasWork(cur) ==
  LET r == info[cb]
  IN  \/ (ActsFor("up", cur) \/ ActsFor("down", cur)) /\ HasVolume(r.type)
      \/ ActsFor("power", cur) /\ (HasVolume(r.type) => r.index < r.num)

\* A key held for less than KEY_HOLD_TIME_MS is idle too.
MenuKeysHandler ==
  \/ KeyTimeout
  \/ KeyError
  \/ \E cur \in Keys :
       \/ (cur # "none" \/ (cb \in Files /\ ~HasWork(cur))) /\ KeyIdle(cur)
       \/ KeyVolume(cur)
       \/ KeyPause(cur)
       \/ KeyContinue(cur)
       \/ KeySelect(cur)

\* Time passes for a menu that has a timeout.
Elapse ==
  /\ Interrupts
  /\ info[cb].timeout > 0 /\ ~TimedOut(info[cb])
  /\ waited' = waited + 1
  /\ UNCHANGED <<build, run, screen, boot, dev, misc, cb, info, notice, lastKey,
                 refresh, faults, hist>>

-----------------------------------------------------------------------------
(* Verified boot: the screens between an image and Linux                   *)

\* Begin to show a screen: without the menu flag there is only a delay.
Show(menu) ==
  /\ screen' = menu
  /\ IF MenuFlag
     THEN /\ run' = "draw"
          /\ info' = [Kept(info, {cb}) EXCEPT ![File(menu)] = Zeroed(menu)]
     ELSE /\ run' = IF menu = "RED" THEN "red" ELSE "delay"
          /\ UNCHANGED info
  /\ UNCHANGED <<cb, notice, lastKey, waited, refresh>>

\* The dm-verity screen follows the others.  CmdContinue and CmdBoot never
\* set BootIntoRecovery.
EioDue == build.avb # "AVB_2" /\ ~dev.enforcing

\* After the screens: VBSendMilestone, whose status replaces the one of the
\* authentication, and the size checks of CmdBoot.  A boot ends key detection.
Milestone ==
  \/ Halt("linux")
  \/ run' = "fastboot" /\ screen' = "FASTBOOT" /\ UNCHANGED menuVars

\* GetFfbmCommand finds a cookie and the build is not a user build.
FfbmBoot == misc.command = "ffbm" /\ ~build.user

\* The outcomes of authentication [ok, state].  LoadImageAndAuthVB2 sets RED
\* on every error; LoadImageAndAuthVB1 leaves GREEN, the zero of BootInfo, or
\* what VBVerifyImage wrote.
Verdicts ==
  LET good == IF dev.unlocked THEN {"ORANGE"} ELSE {"GREEN", "YELLOW"}
  IN  [ok : {TRUE}, state : good]
      \cup IF build.avb = "AVB_2" THEN [ok : {FALSE}, state : {"RED"}]
           ELSE [ok : {TRUE, FALSE}, state : {"RED"}]
                \cup [ok : {FALSE}, state : good \cup {"GREEN"}]

\* Variant: a red screen that returns.
RedShutdownReturns ==
  /\ run = "red"
  /\ Milestone
  /\ UNCHANGED <<build, boot, dev, misc, faults, hist>>

\* Thirty seconds after the red screen the device goes off.
RedShutdown ==
  /\ run = "red"
  /\ Halt("off")
  /\ UNCHANGED <<build, boot, dev, misc, faults, hist>>

\* DisplayVerifiedBootScreen, its first screen.
FirstScreen(v) ==
  IF v.state = "GREEN" \/ (v.state = "ORANGE" /\ FfbmBoot)
  THEN IF EioDue THEN Show("EIO") ELSE Milestone
  ELSE Show(v.state)

\* The menu is drawn and key detection starts for it, except on the red one;
\* what MenuKeysDetectionInit returns is ignored.
DrawDone ==
  /\ run = "draw"
  /\ IF screen = "RED" THEN Ok /\ UNCHANGED <<cb, waited>>
                       ELSE MenuKeysDetectionInit(File(screen))
  /\ info' = Kept([info EXCEPT ![File(screen)] = Shown(@, screen)], {cb'})
  /\ IF screen \in LockMenus
     THEN /\ run' = "fastboot" /\ screen' = "FASTBOOT"
          /\ hist' = [hist EXCEPT !.moved = FALSE, !.pressed = FALSE,
                                  !.asked = screen]
     ELSE /\ run' = IF screen = "RED" THEN "red" ELSE "wait"
          /\ UNCHANGED screen
          /\ hist' = [hist EXCEPT !.paused = FALSE, !.why = "none"]
  /\ UNCHANGED <<build, boot, dev, misc, notice, lastKey, refresh>>

\* DrawMenu fails: the record stays as it is, and so does the old event.
DrawFails ==
  /\ run = "draw"
  /\ Fault
  /\ run' = CASE screen \in LockMenus -> "fastboot"
              [] screen = "RED" -> "red"
              [] OTHER -> "delay"
  /\ screen' = IF screen \in LockMenus THEN "FASTBOOT" ELSE screen
  /\ info' = Kept(info, {cb})
  /\ UNCHANGED <<build, boot, dev, misc, cb, notice, lastKey, waited, refresh, hist>>

\* Variant: the wait ends with the delay of a menu that was not shown.
ProceedHung ==
  /\ run = "delay"
  /\ IF screen \in Warnings /\ EioDue THEN Show("EIO") ELSE Milestone
  /\ UNCHANGED <<build, boot, dev, misc, faults, hist>>

\* WaitForExitKeysDetection sees no event, or the delay is over.
Proceed ==
  /\ run = "delay" \/ (run = "wait" /\ cb = "null")
  /\ IF screen \in Warnings /\ EioDue THEN Show("EIO") ELSE Milestone
  /\ UNCHANGED <<build, boot, dev, misc, faults, hist>>

-----------------------------------------------------------------------------
(* Fastboot commands                                                       *)

\* CmdContinue and CmdBoot.  Without verified boot there is no screen, and an
\* unlocked device reports the failure.
LoadImageAndAuth ==
  /\ run = "fastboot"
  /\ IF build.avb = "NO_AVB"
     THEN Milestone /\ run' = "linux" /\ boot' = [ok |-> TRUE, state |-> "GREEN"]
     ELSE \E v \in Verdicts :
            /\ v.ok \/ ~dev.unlocked
            /\ boot' = v
            /\ FirstScreen(v)
  /\ UNCHANGED <<build, dev, misc, faults, hist>>

\* A second slot: HandleActiveSlotUnbootable switches to it and restarts.
SlotUnbootable ==
  /\ run = "fastboot"
  /\ build.avb = "AVB_2" /\ build.multi
  /\ Halt("reset")
  /\ UNCHANGED <<build, boot, dev, misc, faults, hist>>

\* SetDeviceUnlock: refused when the lock has the value already or unlocking
\* is not allowed; with a display, it asks.
SetDeviceUnlock(menu) ==
  /\ run = "fastboot"
  /\ dev[LockOf(menu)] # ValueOf(menu)
  /\ ValueOf(menu) => build.allow
  /\ IF build.display = "menu"
     THEN Show(menu) /\ UNCHANGED <<dev, misc, faults, hist>>
     ELSE \/ LockSet(menu) /\ ~MenuFlag /\ Halt("reset")
          \/ LockSet(menu) /\ MenuFlag /\ UNCHANGED <<run, screen, menuVars>>
          \/ LockFails(menu) /\ UNCHANGED <<run, screen, menuVars>>
  /\ UNCHANGED <<build, boot>>

\* CmdReboot and CmdRebootBootloader.
CmdReboot ==
  /\ run = "fastboot"
  /\ Halt("reset")
  /\ UNCHANGED <<build, boot, dev, misc, faults, hist>>

\* CmdRebootRecovery and CmdRebootFastboot.
CmdRebootRecovery ==
  /\ run = "fastboot"
  /\ misc' = WithCommand("recovery")
  /\ Halt("reset")
  /\ UNCHANGED <<build, boot, dev, faults, hist>>

\* The battery is pulled or the power key held until the device resets.
PowerLoss ==
  /\ run \notin {"reset", "off"}
  /\ Halt("off")
  /\ UNCHANGED <<build, boot, dev, misc, faults, hist>>

Screens == DrawDone \/ DrawFails \/ Proceed \/ RedShutdown

Next ==
  \/ Start
  \/ MenuKeysHandler
  \/ Elapse
  \/ Screens
  \/ LoadImageAndAuth
  \/ SlotUnbootable
  \/ \E menu \in LockMenus : SetDeviceUnlock(menu)
  \/ CmdReboot
  \/ CmdRebootRecovery
  \/ PowerLoss

\* Time passes, the timer fires and the main thread runs; the user may never
\* press a key.
Fairness == WF_vars(Elapse) /\ WF_vars(KeyTimeout) /\ WF_vars(Screens)

Spec == Init /\ [][Next]_vars /\ Fairness

-----------------------------------------------------------------------------
(* Properties                                                              *)

\* Every variable has its type, the option index of a menu stays among its
\* options or just past them, and the message the handler of a live event
\* reads is never the NULL of a zeroed record.
TypeOK ==
  /\ build \in Builds
  /\ run \in {"fastboot", "draw", "wait", "delay", "red", "linux", "reset", "off"}
  /\ screen \in MenuTypes
  /\ boot \in [ok : BOOLEAN, state : {"GREEN", "ORANGE", "YELLOW", "RED"}]
  /\ dev \in [unlocked : BOOLEAN, critical : BOOLEAN, enforcing : BOOLEAN]
  /\ misc.command \in {"none", "recovery", "ffbm"}
  /\ misc.wipe \in BOOLEAN
  /\ cb \in Files \cup {"null", "dangling"}
  /\ \A f \in Files :
       /\ info[f].type \in MenuTypes /\ info[f].num \in {0, 2, 6}
       /\ info[f].index \in 0..info[f].num
       /\ info[f].timeout \in {0, WarnTime, EioTime, PauseTime}
       /\ cb = f => info[f].msg # "null"
  /\ notice \subseteq {"YELLOW", "ORANGE", "unlockMsg", "lockMsg"}
  /\ lastKey \in Keys
  /\ waited \in 0..(PauseTime + 1)
  /\ refresh \in BOOLEAN
  /\ faults \in 0..MaxFaults

\* On a device with a display a lock changes, and a wipe is asked for, only by
\* the user: in the menu of the last command that was answered OKAY, after a
\* volume key moved the selection and power was pressed after that, and it is
\* that command's lock that takes that command's value.  The menu record is
\* shared with a timer that stays live while it is redrawn.
LockAsConfirmed ==
  [][build.display = "menu" /\ run \notin {"reset", "off", "linux"}
       /\ (dev' # dev \/ (misc'.wipe /\ ~misc.wipe))
     => /\ cb = "unlock" /\ hist.moved /\ hist.pressed
        /\ dev' \in {dev, SetLock(hist.asked, ValueOf(hist.asked))}]_vars

\* A wipe of the user's data that a lock change asked for stays asked for,
\* through restarts, factory test commands and reboots to recovery, until an
\* operating system ran; and while a lock is set a wipe is pending.  The only
\* exception is a lock change whose write to misc failed.
WipeKept ==
  hist.changed \/ ~dev.unlocked \/ ~dev.critical => misc.wipe \/ hist.lost

\* A warning the user paused never lets the boot go on by itself: when its
\* longer timeout is over the device is off.
PauseHolds == hist.paused /\ hist.why = "timeout" => run = "off"

\* A locked device built with AVB 2 starts Linux only after a successful
\* authentication, although the milestone's status replaces the failure's.
LockedBootsVerified ==
  run = "linux" /\ build.avb = "AVB_2" /\ ~dev.unlocked => boot.ok

\* A boot goes on only as the screens say: not past a pause, and on a locked
\* device not past the red screen of a failed authentication.
BootsAsShown == PauseHolds /\ LockedBootsVerified

\* A boot that shows screens comes to an end without any key: it starts Linux,
\* goes back to fastboot, or the device stops.  Left out is an event that could
\* not be created, whose stale pointer WaitForExitKeysDetection waits for.
ScreensEnd ==
  run \in {"draw", "wait", "delay", "red"}
    ~> (run \in {"fastboot", "linux", "reset", "off"} \/ cb = "dangling")

\* The comment in PowerKeyFunc: the first press of power on a warning updates
\* it and recalculates the timeout, so only a later one continues.
FirstPressPauses ==
  [][cb = "vb" /\ info["vb"].type \in Warnings
       /\ hist.why = "none" /\ hist'.why = "key"
     => hist.paused]_vars

=============================================================================
