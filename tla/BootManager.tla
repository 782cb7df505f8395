----------------------------- MODULE BootManager -----------------------------
(***************************************************************************)
(* The UEFI boot manager over any number of boots: DeviceBootManagerLib.c, *)
(* MsBootOptionsLib.c, MsBootPolicyLib.c, GpioButtons.c and the part of    *)
(* FrontPage.c that boots and resets.                                      *)
(*                                                                         *)
(* An option is known by what it boots (file, description and parameter).  *)
(* The BDS driver that calls these libraries, the applications and the OS  *)
(* are external.  The reboot reason, the console and the on-screen         *)
(* keyboard are left out.                                                  *)
(***************************************************************************)
EXTENDS Naturals, Sequences, FiniteSets, SequencesExt

CONSTANTS
  Defaults,    \* the options registered at every boot, in order
  Others,      \* the options an OS registers
  MaxFaults    \* refused writes, low batteries and the like in a behaviour

VARIABLES
  \* kept over a reset
  order,       \* BootOrder, with the Boot#### it names: what each option boots
               \* and whether it is active
  bootNext, osInd,           \* BootNext, BOOT_TO_FW_UI of OsIndications
  settings,    \* DFCI settings: boot order lock, alternate boot
  files,       \* the files of the firmware image
  \* of this boot
  pc,
  i,           \* the next default option, or the next check of the buttons
  button,      \* ButtonState
  flags,       \* FrontPageBoot, BootloaderMenuBoot, UFPBoot, AltDeviceBoot
  todo,        \* what the BDS still boots; ORDER stands for BootOrder
  cur,         \* what is being booted
  MsBootNext,
  signalled,   \* PreReadyToBoot has run
  locked,      \* the variables with a policy
  \* history
  keys,        \* the key pressed last before the checks, whether one was
               \* pressed during them
  faults

nv   == <<order, bootNext, osInd, settings, files>>
boot == <<pc, i, button, flags, todo, cur, MsBootNext, signalled, locked, keys>>
vars == <<nv, boot, faults>>

SHELL == "Shell"
None == "none"
ORDER == "BootOrder"
NEXT == "BootNext"
Kinds == Range(Defaults) \cup Others
\* What PriorityBoot may choose: with parameter NS or MA the default boot
\* application, and three menus.
Apps == {"FrontPage", "Bootloader", "UFP", "NS", "MA"}
Buttons == {"Up", "Down"}

ASSUME BootAssumption ==
  /\ SHELL \in Range(Defaults) /\ MaxFaults \in Nat
  /\ Defaults \in Seq(Range(Defaults)) /\ IsInjective(Defaults)
  /\ Range(Defaults) \cap Others = {}
  /\ Kinds \cap (Apps \cup {None, ORDER, NEXT}) = {}

Fault == faults < MaxFaults /\ faults' = faults + 1
NoFault == UNCHANGED faults
Options(s) == {s[n].boots : n \in DOMAIN s}
IsOption(k) == \E n \in DOMAIN order : order[n].boots = k
Active(s) == [n \in DOMAIN SelectSeq(s, LAMBDA o : o.active) |->
                SelectSeq(s, LAMBDA o : o.active)[n].boots]
Place(s, k) == CHOOSE n \in DOMAIN s : s[n].boots = k
Without(s, k) == IF k \in Options(s) THEN RemoveAt(s, Place(s, k)) ELSE s

NoFlags == [FrontPageBoot |-> FALSE, BootloaderMenuBoot |-> FALSE, UFPBoot |-> FALSE,
            AltDeviceBoot |-> FALSE]
NoKeys == [before |-> None, during |-> FALSE]

Init ==
  /\ order = <<>> /\ bootNext = None /\ osInd = FALSE
  /\ settings \in [lock : BOOLEAN, alt : BOOLEAN]
  /\ files \in {Range(Defaults), Range(Defaults) \ {SHELL}}
  /\ pc = "off" /\ i = 1 /\ button = None /\ flags = NoFlags /\ todo = <<>>
  /\ cur = None /\ MsBootNext = FALSE /\ signalled = FALSE /\ locked = {}
  /\ keys = NoKeys /\ faults = 0

Off ==
  /\ pc' = "off" /\ i' = 1 /\ button' = None /\ flags' = NoFlags /\ todo' = <<>>
  /\ cur' = None /\ MsBootNext' = FALSE /\ signalled' = FALSE /\ locked' = {}
  /\ keys' = NoKeys

-----------------------------------------------------------------------------
\* External: the BDS takes BootNext and BOOT_TO_FW_UI and deletes them.
BdsEntry ==
  /\ pc = "off" /\ pc' = "register"
  /\ todo' = (IF osInd THEN <<"FrontPage">> ELSE <<>>)
             \o (IF bootNext # None THEN <<bootNext>> ELSE <<>>) \o <<ORDER>>
  /\ bootNext' = None /\ osInd' = FALSE
  /\ UNCHANGED <<order, settings, files, i, button, flags, cur, MsBootNext, signalled,
                 locked, keys, faults>>

\* External: a new image, with or without the shell, is flashed.
NewImage ==
  /\ pc = "off"
  /\ files' \in {Range(Defaults), Range(Defaults) \ {SHELL}}
  /\ UNCHANGED <<order, bootNext, osInd, settings, boot, faults>>

\* Variant: only an active option is found.
FoundActive(k) == \E n \in DOMAIN order : order[n] = [boots |-> k, active |-> TRUE]

\* EfiBootManagerFindLoadOption, for the new option and for the same inactive.
Found(k) == \E n \in DOMAIN order : order[n].boots = k

\* Variant: the option is registered anew.
RegisteredAnew(k) == Append(Without(order, k), [boots |-> k, active |-> TRUE])

\* BootOrder after RegisterFvBootOption.
Registered(k) ==
  IF k \in files
  THEN IF Found(k) THEN order ELSE Append(order, [boots |-> k, active |-> TRUE])
  ELSE IF k = SHELL THEN Without(order, k) ELSE order

RegisterFvBootOption ==
  /\ pc = "register" /\ i <= Len(Defaults)
  /\ \/ order' = Registered(Defaults[i]) /\ NoFault
     \/ Registered(Defaults[i]) # order /\ UNCHANGED order /\ Fault
  /\ i' = i + 1
  /\ UNCHANGED <<bootNext, osInd, settings, files, pc, button, flags, todo, cur,
                 MsBootNext, signalled, locked, keys>>

\* MsPreBootChecks, with the libraries of this platform: there is no mitigation
\* of a low battery and no thermal check.
AfterConsole ==
  /\ pc = "register" /\ i > Len(Defaults)
  /\ \/ /\ pc' = "keys" /\ i' = 1 /\ NoFault
        /\ UNCHANGED <<button, flags, todo, cur, MsBootNext, signalled, locked, keys>>
     \/ Off /\ Fault
  /\ UNCHANGED nv

-----------------------------------------------------------------------------
\* KeyNotify, from the timer of the keypad.
KeyNotify(b) ==
  /\ pc \in {"register", "keys"} /\ button # b
  /\ button' = b
  /\ keys' = IF pc = "keys" /\ i > 1 THEN [keys EXCEPT !.during = TRUE]
             ELSE [keys EXCEPT !.before = b]
  /\ UNCHANGED <<nv, pc, i, flags, todo, cur, MsBootNext, signalled, locked, faults>>

Checks == <<"FrontPageBoot", "BootloaderMenuBoot", "UFPBoot", "AltDeviceBoot">>

\* MsBootPolicyLibIsSettingsBoot and the three after it, when ButtonState is b.
IsBoot(f, b) ==
  CASE f = "UFPBoot" -> b = "Up"
    [] f = "AltDeviceBoot" -> settings.alt /\ b = "Down"
    [] OTHER -> b = "Down"

\* Variant: the check takes the key with it.
CheckButtonTakes ==
  /\ pc = "keys" /\ i <= Len(Checks)
  /\ flags' = [flags EXCEPT ![Checks[i]] = IsBoot(Checks[i], button)]
  /\ i' = i + 1 /\ button' = None
  /\ UNCHANGED <<nv, pc, todo, cur, MsBootNext, signalled, locked, keys, faults>>

CheckButton ==
  /\ pc = "keys" /\ i <= Len(Checks)
  /\ flags' = [flags EXCEPT ![Checks[i]] = IsBoot(Checks[i], button)]
  /\ i' = i + 1
  /\ UNCHANGED <<nv, pc, button, todo, cur, MsBootNext, signalled, locked, keys, faults>>

\* Of the flags that are set the first in this order decides.
Choice(f) ==
  IF f.BootloaderMenuBoot THEN <<"Bootloader">>
  ELSE IF f.UFPBoot THEN <<"UFP">>
  ELSE IF f.AltDeviceBoot THEN IF f.FrontPageBoot THEN <<"NS">> ELSE <<"MA">>
  ELSE IF f.FrontPageBoot THEN <<"FrontPage">>
  ELSE <<>>

\* DeviceBootManagerPriorityBoot, after its four checks.  When the option cannot
\* be built (BuildFwLoadOption) the BDS goes on as without a key.
PriorityBoot ==
  /\ pc = "keys" /\ i > Len(Checks)
  /\ \/ todo' = Choice(flags) \o todo /\ NoFault
     \/ Choice(flags) # <<>> /\ UNCHANGED todo /\ Fault
  /\ button' = None /\ pc' = "bds"
  /\ i' = 1 /\ flags' = NoFlags /\ keys' = NoKeys
  /\ UNCHANGED <<nv, cur, MsBootNext, signalled, locked>>

-----------------------------------------------------------------------------
\* External: the BDS boots one after the other what it has to.
Dispatch ==
  /\ pc = "bds" /\ todo # <<>>
  /\ \/ Head(todo) = ORDER /\ todo' = Active(order) /\ UNCHANGED <<pc, cur>>
     \/ /\ Head(todo) \in Apps \/ IsOption(Head(todo))
        /\ todo' = Tail(todo) /\ cur' = Head(todo)
        /\ pc' = IF cur' = "FrontPage" THEN "enter" ELSE "ready"
     \/ /\ Head(todo) \in Kinds /\ ~IsOption(Head(todo))   \* a stale BootNext
        /\ todo' = Tail(todo) /\ UNCHANGED <<pc, cur>>
  /\ UNCHANGED <<nv, i, button, flags, MsBootNext, signalled, locked, keys, faults>>

\* Variant: the options themselves are not locked.
LockedOrder == {ORDER, NEXT}

\* The variables BdsBootLockBootVariables locks.
LockedVariables == {ORDER, NEXT} \cup Options(order)

\* PreReadyToBoot closes its event, so it runs once in a boot; what it cannot
\* read or lock is only logged.
PreReadyToBoot ==
  /\ pc = "ready" /\ pc' = "load" /\ signalled' = TRUE
  /\ \/ ~signalled /\ settings.lock /\ locked' = LockedVariables /\ bootNext' = None /\ NoFault
     \/ /\ ~signalled /\ settings.lock /\ Fault
        /\ locked' \in SUBSET LockedVariables /\ bootNext' \in {bootNext, None}
     \/ (signalled \/ ~settings.lock) /\ UNCHANGED <<locked, bootNext>> /\ NoFault
  /\ UNCHANGED <<order, osInd, settings, files, i, button, flags, todo, cur, MsBootNext, keys>>

\* What is booted takes over.
Runs ==
  /\ pc = "load"
  /\ pc' = IF cur \in {"Bootloader", "UFP"} THEN "menu" ELSE "os"
  /\ UNCHANGED <<nv, i, button, flags, todo, cur, MsBootNext, signalled, locked, keys, faults>>

\* Variant: nothing is left in OsIndications.
ToFrontPageNot == UNCHANGED <<osInd, faults>>

\* The write of OsIndications before a reset; it may be refused.
ToFrontPage ==
  \/ osInd' = TRUE /\ NoFault
  \/ UNCHANGED osInd /\ Fault

RebootToFrontPage ==
  ToFrontPage /\ Off /\ UNCHANGED <<order, bootNext, settings, files>>

\* What was booted fails or returns: DeviceBootManagerProcessBootCompletion,
\* and for an option the front page booted the end of ProcessBootNext.
ProcessBootCompletion ==
  /\ pc \in {"load", "menu"}
  /\ \/ (MsBootNext \/ todo = <<"return">>) /\ RebootToFrontPage
     \/ /\ ~MsBootNext /\ todo # <<"return">>
        /\ pc' = "bds" /\ cur' = None
        /\ UNCHANGED <<nv, i, button, flags, todo, MsBootNext, signalled, locked, keys, faults>>

\* DeviceBootManagerUnableToBoot.
UnableToBoot == pc = "bds" /\ todo = <<>> /\ RebootToFrontPage

-----------------------------------------------------------------------------
\* UefiMain deletes BootNext; without a screen it returns.
EnterFrontPage ==
  /\ pc = "enter"
  /\ bootNext' = None
  /\ \/ pc' = "frontpage" /\ NoFault
     \/ pc' = "bds" /\ Fault
  /\ UNCHANGED <<order, osInd, settings, files, i, button, flags, todo, cur, MsBootNext,
                 signalled, locked, keys>>

\* A change of BootOrder or of a Boot####, by the front page or the OS.
Moved(k) == <<order[Place(order, k)]>> \o Without(order, k)
Toggled(k) == [n \in DOMAIN order |->
                 IF order[n].boots = k THEN [order[n] EXCEPT !.active = ~@] ELSE order[n]]

SetOption(k) ==
  \/ ORDER \notin locked /\ IsOption(k) /\ order' = Moved(k)
  \/ ORDER \notin locked /\ IsOption(k) /\ order' = Without(order, k)
  \/ ORDER \notin locked /\ ~IsOption(k) /\ k \in Others
     /\ order' = Append(order, [boots |-> k, active |-> TRUE])
  \/ k \notin locked /\ IsOption(k) /\ order' = Toggled(k)

Use(k) ==
  /\ pc = "frontpage" /\ SetOption(k)
  /\ UNCHANGED <<bootNext, osInd, settings, files, boot, faults>>

\* External: the settings are closed when the first option is booted.
ChangeSettings ==
  /\ pc = "frontpage" /\ ~signalled
  /\ settings' \in [lock : BOOLEAN, alt : BOOLEAN]
  /\ UNCHANGED <<order, bootNext, osInd, files, boot, faults>>

\* The boot menu asks for an option and leaves the front page, which deletes
\* BootNext and boots the option (ProcessBootNext); one that cannot be read is
\* not booted, and the front page is asked for at once.
ProcessBootNext(k) ==
  /\ pc = "frontpage" /\ IsOption(k) /\ bootNext' = None
  /\ \/ /\ pc' = "ready" /\ cur' = k /\ todo' = <<"return">> /\ MsBootNext' \in BOOLEAN
        /\ UNCHANGED <<osInd, i, button, flags, signalled, locked, keys, faults>>
     \/ Fault /\ Off /\ osInd' \in {osInd, TRUE}
  /\ UNCHANGED <<order, settings, files>>

\* The user continues.
LeaveFrontPage ==
  /\ pc = "frontpage" /\ pc' = "bds" /\ cur' = None
  /\ UNCHANGED <<nv, i, button, flags, todo, MsBootNext, signalled, locked, keys, faults>>

\* HandleRebootToFrontPage resets only when OsIndications was written.
RestartFrontPage ==
  /\ pc = "frontpage" /\ osInd' = TRUE /\ Off
  /\ UNCHANGED <<order, bootNext, settings, files, faults>>

\* External: the OS sets variables and resets.
OsSets(k) ==
  /\ pc = "os" /\ SetOption(k)
  /\ UNCHANGED <<bootNext, osInd, settings, files, boot, faults>>

OsAsks(k) ==
  /\ pc = "os"
  /\ \/ NEXT \notin locked /\ IsOption(k) /\ bootNext' = k /\ UNCHANGED osInd
     \/ osInd' = TRUE /\ UNCHANGED bootNext
  /\ UNCHANGED <<order, settings, files, boot, faults>>

Reset == pc \in {"os", "menu", "frontpage"} /\ Off /\ UNCHANGED <<nv, faults>>

PowerLoss == pc # "off" /\ Fault /\ Off /\ UNCHANGED nv

Firmware ==
  \/ BdsEntry \/ RegisterFvBootOption \/ AfterConsole \/ CheckButton \/ PriorityBoot
  \/ Dispatch \/ PreReadyToBoot \/ (Runs \/ (pc = "load" /\ ProcessBootCompletion))
  \/ UnableToBoot \/ EnterFrontPage

Next ==
  \/ Firmware \/ NewImage \/ (\E b \in Buttons : KeyNotify(b))
  \/ (pc = "menu" /\ ProcessBootCompletion)
  \/ (\E k \in Kinds : Use(k) \/ ProcessBootNext(k) \/ OsSets(k) \/ OsAsks(k))
  \/ ChangeSettings \/ LeaveFrontPage \/ RestartFrontPage \/ Reset \/ PowerLoss

\* The firmware does not stop.
Spec == Init /\ [][Next]_vars /\ WF_vars(Firmware)

-----------------------------------------------------------------------------
TypeOK ==
  /\ order \in Seq([boots : Kinds, active : BOOLEAN])
  /\ bootNext \in Kinds \cup {None} /\ osInd \in BOOLEAN
  /\ settings \in [lock : BOOLEAN, alt : BOOLEAN] /\ files \subseteq Range(Defaults)
  /\ pc \in {"off", "register", "keys", "bds", "ready", "load", "os", "menu", "enter", "frontpage"}
  /\ i \in 1..(Len(Defaults) + Len(Checks)) /\ button \in Buttons \cup {None}
  /\ flags \in [Range(Checks) -> BOOLEAN]
  /\ todo \in Seq(Kinds \cup Apps \cup {ORDER, "return"})
  /\ cur \in Kinds \cup Apps \cup {None} /\ MsBootNext \in BOOLEAN /\ signalled \in BOOLEAN
  /\ locked \subseteq Kinds \cup {ORDER, NEXT}
  /\ (pc = "off" => locked = {} /\ ~signalled)

\* However often the options are registered, deactivated, moved and deleted,
\* BootOrder names each at most once.
NoDuplicates == \A m, n \in DOMAIN order : order[m].boots = order[n].boots => m = n

\* What the firmware may leave of BootOrder: all, or all but the shell when the
\* image has none.
MayKeep == {order} \cup (IF SHELL \in files THEN {} ELSE {Without(order, SHELL)})

\* s starts t, and what t adds boots none of the options there were.
Extended(s, t) ==
  /\ Len(s) <= Len(t) /\ \A n \in DOMAIN s : t[n] = s[n]
  /\ \A n \in DOMAIN t : n > Len(s) => ~IsOption(t[n].boots)

\* The firmware leaves the options it finds as the user set them, active or not
\* and in their order, puts the ones it adds behind them and names none twice;
\* only the shell goes when the image has none.
ChoicesKept ==
  /\ []NoDuplicates
  /\ [][pc \notin {"os", "frontpage"} => \E s \in MayKeep : Extended(s, order')]_vars

\* With the boot order lock set, what runs as an OS can change neither BootOrder
\* nor an option nor BootNext, after any number of options that failed before.
LockHolds ==
  [][pc = "os" /\ settings.lock /\ faults = 0 => UNCHANGED <<order, bootNext>>]_vars

\* The four flags, read of the key b at once.
Steady(b) == [f \in Range(Checks) |-> IsBoot(f, b)]

\* The four checks, during which the keypad's timer may run, act as one look at the
\* key that was pressed last before them, unless another is pressed meanwhile or the
\* option cannot be built; without a key nothing is put before the boot order.
\* Which menu is right for a key is not stated: the comments contradict the code.
KeyHonoured ==
  [][pc = "keys" /\ pc' = "bds" =>
       /\ ~keys.during /\ faults' = faults => todo' = Choice(Steady(keys.before)) \o todo
       /\ keys = NoKeys => todo' = todo]_vars

\* Whatever fails to boot, the device always comes to an OS, a menu or the front
\* page again: it does not try the same options for ever.
ReachesUser == []<>(pc \in {"os", "menu", "frontpage"})

\* What the comment in DeviceBootManagerPriorityBoot says: "2. FrontPageBoot load
\* FrontPage".
FrontPageKey ==
  [][pc = "keys" /\ pc' = "bds" /\ flags.FrontPageBoot /\ ~flags.AltDeviceBoot =>
       Head(todo') = "FrontPage"]_vars
=============================================================================
