-------------------------- MODULE BootManagerProofs --------------------------
(***************************************************************************)
(* The boot order lock and the keys, for every list of default options,    *)
(* every set of options of an OS and any number of boots.                  *)
(*                                                                         *)
(* PreReadyToBoot closes its event, so the lock is set once in a boot,     *)
(* before the first option is started.  What has to be shown is that it    *)
(* covers every option there is when the OS runs: no option is registered  *)
(* and no setting is changed between the two, whatever fails to boot and   *)
(* whatever is done in the front page meanwhile.                           *)
(***************************************************************************)
EXTENDS BootManager, TLAPS

\* The variables of the boot options cannot be written.
AllLocked == {ORDER, NEXT} \subseteq locked /\ Options(order) \subseteq locked

LockInv ==
  /\ faults \in Nat /\ signalled \in BOOLEAN
  /\ pc \in {"off", "register", "keys"} => ~signalled
  /\ pc \in {"load", "os", "menu"} => signalled
  /\ signalled /\ settings.lock /\ faults = 0 => AllLocked

-----------------------------------------------------------------------------
\* SetVariable on BootOrder and Boot#### is refused once all are locked.
LEMMA LockedRefuses ==
  ASSUME NEW k, AllLocked, SetOption(k)
  PROVE  FALSE
<1>1. ORDER \in locked BY DEF AllLocked
<1>2. k \notin locked /\ IsOption(k) BY <1>1 DEF SetOption
<1>3. k \in Options(order) BY <1>2 DEF IsOption, Options
<1> QED BY <1>2, <1>3 DEF AllLocked

\* Faults only adds to the count.
LEMMA FaultCounts ==
  ASSUME faults \in Nat, Fault
  PROVE  faults' \in Nat /\ faults' # 0
BY DEF Fault

LEMMA LockInit == Init => LockInv
<1> SUFFICES ASSUME Init PROVE LockInv
  OBVIOUS
<1>1. pc = "off" /\ signalled = FALSE /\ faults = 0 BY DEF Init
<1> QED BY <1>1 DEF LockInv

\* After a reset nothing is locked and PreReadyToBoot has not run.
LEMMA OffLock ==
  ASSUME Off, faults' \in Nat
  PROVE  LockInv'
BY DEF Off, LockInv

LEMMA LockStep == LockInv /\ [Next]_vars => LockInv'
<1> SUFFICES ASSUME LockInv, [Next]_vars PROVE LockInv'
  OBVIOUS
<1> USE DEF LockInv
<1> DEFINE Same == UNCHANGED <<order, settings, signalled, locked, faults>>
<1>s. ASSUME Same,
             pc' \in {"off", "register", "keys"} => pc \in {"off", "register", "keys"},
             pc' \in {"load", "os", "menu"} => pc \in {"load", "os", "menu"}
      PROVE  LockInv'
  BY <1>s DEF AllLocked, Options
<1>1. CASE BdsEntry
  BY <1>1 DEF BdsEntry, AllLocked, Options
<1>2. CASE RegisterFvBootOption
  <2>1. ~signalled' /\ pc' = "register" BY <1>2 DEF RegisterFvBootOption
  <2>2. faults' \in Nat BY <1>2, FaultCounts DEF RegisterFvBootOption, NoFault
  <2>3. signalled' \in BOOLEAN BY <1>2 DEF RegisterFvBootOption
  <2> QED BY <2>1, <2>2, <2>3
<1>3. CASE AfterConsole
  <2>1. CASE Off /\ Fault BY <2>1, OffLock, FaultCounts
  <2>2. CASE pc' = "keys" /\ NoFault /\ UNCHANGED signalled
    BY <1>3, <2>2 DEF AfterConsole, NoFault
  <2> QED BY <1>3, <2>1, <2>2 DEF AfterConsole
<1>4. CASE CheckButton
  BY <1>4, <1>s DEF CheckButton, nv
<1>5. CASE PriorityBoot
  <2>1. pc = "keys" /\ pc' = "bds" /\ UNCHANGED signalled /\ (NoFault \/ Fault)
    BY <1>5 DEF PriorityBoot
  <2>2. faults' \in Nat BY <2>1, FaultCounts DEF NoFault
  <2> QED BY <2>1, <2>2
<1>6. CASE Dispatch
  <2>1. Same BY <1>6 DEF Dispatch, nv
  <2>2. pc = "bds" /\ pc' \in {"bds", "enter", "ready"} BY <1>6 DEF Dispatch
  <2> QED BY <2>1, <2>2, <1>s
<1>7. CASE PreReadyToBoot
  <2>0. pc' = "load" /\ signalled' /\ signalled' \in BOOLEAN /\ UNCHANGED <<order, settings>>
    BY <1>7 DEF PreReadyToBoot
  <2>1. CASE ~signalled /\ settings.lock /\ locked' = LockedVariables /\ NoFault
    BY <2>0, <2>1 DEF LockedVariables, AllLocked, Options, NoFault
  <2>2. CASE Fault
    BY <2>0, <2>2, FaultCounts
  <2>3. CASE (signalled \/ ~settings.lock) /\ UNCHANGED locked /\ NoFault
    BY <2>0, <2>3 DEF AllLocked, Options, NoFault
  <2> QED BY <1>7, <2>1, <2>2, <2>3 DEF PreReadyToBoot
<1>8. CASE Runs
  BY <1>8, <1>s DEF Runs, nv
<1>9. ASSUME RebootToFrontPage PROVE LockInv'
  <2>1. faults' \in Nat BY <1>9, FaultCounts DEF RebootToFrontPage, ToFrontPage, NoFault
  <2> QED BY <1>9, <2>1, OffLock DEF RebootToFrontPage
<1>10. CASE ProcessBootCompletion
  BY <1>10, <1>9, <1>s DEF ProcessBootCompletion, nv
<1>11. CASE UnableToBoot
  BY <1>11, <1>9 DEF UnableToBoot
<1>12. CASE EnterFrontPage
  <2>1. CASE NoFault BY <1>12, <2>1, <1>s DEF EnterFrontPage, NoFault
  <2>2. CASE Fault BY <1>12, <2>2, FaultCounts DEF EnterFrontPage
  <2> QED BY <1>12, <2>1, <2>2 DEF EnterFrontPage
<1>13. CASE NewImage
  BY <1>13, <1>s DEF NewImage, boot
<1>14. ASSUME NEW b \in Buttons, KeyNotify(b) PROVE LockInv'
  BY <1>14, <1>s DEF KeyNotify, nv
<1>15. ASSUME NEW k \in Kinds, Use(k) \/ OsSets(k) PROVE LockInv'
  <2>1. SetOption(k) /\ UNCHANGED <<settings, pc, signalled, locked, faults>>
    BY <1>15 DEF Use, OsSets, boot
  <2>2. ~(signalled /\ settings.lock /\ faults = 0) BY <2>1, LockedRefuses
  <2> QED BY <2>1, <2>2
<1>16. ASSUME NEW k \in Kinds, ProcessBootNext(k) PROVE LockInv'
  <2>1. CASE Fault /\ Off BY <2>1, OffLock, FaultCounts
  <2>2. CASE pc' = "ready" /\ UNCHANGED <<signalled, locked, faults>>
    BY <1>16, <1>s, <2>2 DEF ProcessBootNext
  <2> QED BY <1>16, <2>1, <2>2 DEF ProcessBootNext
<1>17. ASSUME NEW k \in Kinds, OsAsks(k) PROVE LockInv'
  BY <1>17, <1>s DEF OsAsks, boot
<1>18. CASE ChangeSettings
  BY <1>18 DEF ChangeSettings, boot
<1>19. CASE LeaveFrontPage
  BY <1>19, <1>s DEF LeaveFrontPage, nv
<1>20. CASE RestartFrontPage
  BY <1>20, OffLock DEF RestartFrontPage
<1>21. CASE Reset
  BY <1>21, OffLock DEF Reset
<1>22. CASE PowerLoss
  BY <1>22, OffLock, FaultCounts DEF PowerLoss
<1>23. CASE UNCHANGED vars
  BY <1>23, <1>s DEF vars, nv, boot
<1> QED
  BY <1>1, <1>2, <1>3, <1>4, <1>5, <1>6, <1>7, <1>8, <1>10, <1>11, <1>12, <1>13, <1>14,
     <1>15, <1>16, <1>17, <1>18, <1>19, <1>20, <1>21, <1>22, <1>23
  DEF Next, Firmware

\* With the lock in place a step of the OS leaves BootOrder, the options and
\* BootNext as they are.
LEMMA LockedStep ==
  ASSUME LockInv, [Next]_vars, pc = "os", settings.lock, faults = 0
  PROVE  UNCHANGED <<order, bootNext>>
<1>1. AllLocked BY DEF LockInv
<1>2. NEXT \in locked BY <1>1 DEF AllLocked
<1>3. CASE UNCHANGED vars BY <1>3 DEF vars, nv
<1>4. CASE Reset \/ PowerLoss BY <1>4 DEF Reset, PowerLoss, nv
<1>5. CASE \E k \in Kinds : OsSets(k) BY <1>5, <1>1, LockedRefuses DEF OsSets
<1>6. CASE \E k \in Kinds : OsAsks(k) BY <1>6, <1>2 DEF OsAsks
<1>7. ~Firmware
  BY DEF Firmware, BdsEntry, RegisterFvBootOption, AfterConsole, CheckButton, PriorityBoot,
         Dispatch, PreReadyToBoot, Runs, UnableToBoot, EnterFrontPage
<1>8. ~NewImage /\ ~ChangeSettings /\ ~LeaveFrontPage /\ ~RestartFrontPage
  BY DEF NewImage, ChangeSettings, LeaveFrontPage, RestartFrontPage
<1>9. \A k : ~KeyNotify(k) /\ ~Use(k) /\ ~ProcessBootNext(k)
  BY DEF KeyNotify, Use, ProcessBootNext
<1> QED BY <1>3, <1>4, <1>5, <1>6, <1>7, <1>8, <1>9 DEF Next

\* The boot order lock of BdsBootLockBootVariables holds against the OS for every
\* list of options and any number of failed boots: with the setting on and no
\* refused write, BootOrder, Boot#### and BootNext are as the firmware left them.
THEOREM LockKept == Spec => LockHolds
<1>1. LockInv /\ [Next]_vars =>
        [pc = "os" /\ settings.lock /\ faults = 0 => UNCHANGED <<order, bootNext>>]_vars
  BY LockedStep
<1>2. Spec => []LockInv BY LockInit, LockStep, PTL DEF Spec
<1> QED BY <1>1, <1>2, PTL DEF Spec, LockHolds

-----------------------------------------------------------------------------
(***************************************************************************)
(* The keys.  ButtonState is read four times, and KeyNotify may run        *)
(* between any two reads: while no key was pressed during the checks, the  *)
(* flags read so far agree with the state, and the state with the last     *)
(* key pressed before.                                                     *)
(***************************************************************************)
FlagsRead ==
  /\ flags.FrontPageBoot <=> pc = "keys" /\ 1 < i /\ button = "Down"
  /\ flags.BootloaderMenuBoot <=> pc = "keys" /\ 2 < i /\ button = "Down"
  /\ flags.UFPBoot <=> pc = "keys" /\ 3 < i /\ button = "Up"
  /\ flags.AltDeviceBoot <=> pc = "keys" /\ 4 < i /\ settings.alt /\ button = "Down"

Flags == [FrontPageBoot : BOOLEAN, BootloaderMenuBoot : BOOLEAN, UFPBoot : BOOLEAN,
          AltDeviceBoot : BOOLEAN]

KeyInv ==
  /\ i \in Nat /\ i >= 1 /\ flags \in Flags /\ settings.alt \in BOOLEAN
  /\ keys = [before |-> keys.before, during |-> keys.during] /\ keys.during \in BOOLEAN
  /\ pc \notin {"register", "keys"} => keys = NoKeys /\ button = None
  /\ pc # "keys" => flags = NoFlags /\ ~keys.during
  /\ pc \in {"register", "keys"} => \E S : todo \in Seq(S)
  /\ ~keys.during => button = keys.before /\ FlagsRead

LEMMA ChecksAre ==
  /\ Len(Checks) = 4 /\ Checks[1] = "FrontPageBoot" /\ Checks[2] = "BootloaderMenuBoot"
  /\ Checks[3] = "UFPBoot" /\ Checks[4] = "AltDeviceBoot"
BY DEF Checks

LEMMA NoFlagsTyped == NoFlags \in Flags
BY DEF NoFlags, Flags

LEMMA OffKeys ==
  ASSUME Off, settings'.alt \in BOOLEAN
  PROVE  KeyInv'
<1>1. flags' = NoFlags /\ pc' = "off" /\ keys' = NoKeys /\ button' = None /\ i' = 1
  BY DEF Off
<1>2. FlagsRead' BY <1>1 DEF FlagsRead, NoFlags
<1>3. flags' \in Flags BY <1>1, NoFlagsTyped
<1> QED BY <1>1, <1>2, <1>3 DEF KeyInv, NoKeys

LEMMA KeyInit == Init => KeyInv
<1> SUFFICES ASSUME Init PROVE KeyInv
  OBVIOUS
<1>1. flags = NoFlags /\ pc = "off" /\ keys = NoKeys /\ button = None /\ i = 1 BY DEF Init
<1>2. FlagsRead BY <1>1 DEF FlagsRead, NoFlags
<1>3. flags \in Flags BY <1>1, NoFlagsTyped
<1>4. settings.alt \in BOOLEAN BY DEF Init
<1> QED BY <1>1, <1>2, <1>3, <1>4 DEF KeyInv, NoKeys

\* Steps outside the boot's first part leave keys, buttons and flags alone.
LEMMA KeysAside ==
  ASSUME KeyInv, pc \notin {"register", "keys"}, pc' \notin {"register", "keys"},
         UNCHANGED <<i, button, flags, keys>>, settings'.alt \in BOOLEAN
  PROVE  KeyInv'
<1>1. flags = NoFlags /\ keys = NoKeys /\ button = None BY DEF KeyInv
<1>2. FlagsRead' BY <1>1 DEF FlagsRead, NoFlags
<1> QED BY <1>1, <1>2 DEF KeyInv

LEMMA KeyStep == KeyInv /\ [Next]_vars => KeyInv'
<1> SUFFICES ASSUME KeyInv, [Next]_vars PROVE KeyInv'
  OBVIOUS
<1>0. settings.alt \in BOOLEAN BY DEF KeyInv
<1>1. CASE BdsEntry
  <2>0. /\ pc' = "register" /\ UNCHANGED <<i, button, flags, keys, settings>>
        /\ flags = NoFlags /\ keys = NoKeys /\ button = None
    BY <1>1 DEF BdsEntry, KeyInv
  <2> DEFINE S == {"FrontPage", bootNext, ORDER}
             x == IF osInd THEN <<"FrontPage">> ELSE <<>>
             y == IF bootNext # None THEN <<bootNext>> ELSE <<>>
             z == <<ORDER>>
  <2>1. x \in Seq(S) /\ y \in Seq(S) /\ z \in Seq(S)
    <3>1. "FrontPage" \in S /\ bootNext \in S /\ ORDER \in S OBVIOUS
    <3> HIDE DEF S
    <3> QED BY <3>1
  <2>2. todo' = x \o y \o z BY <1>1 DEF BdsEntry
  <2> HIDE DEF x, y, z, S
  <2>3. todo' \in Seq(S) BY <2>1, <2>2
  <2>4. FlagsRead' BY <2>0 DEF FlagsRead, NoFlags
  <2>5. \E T : todo' \in Seq(T) BY <2>3
  <2> QED BY <2>0, <2>4, <2>5 DEF KeyInv, NoKeys
<1>2. CASE RegisterFvBootOption
  <2>0. /\ pc = "register" /\ pc' = "register" /\ i' = i + 1
        /\ UNCHANGED <<button, flags, keys, settings, todo>>
    BY <1>2 DEF RegisterFvBootOption
  <2>1. flags = NoFlags /\ button = keys.before BY <2>0 DEF KeyInv
  <2>2. FlagsRead' BY <2>0, <2>1 DEF FlagsRead, NoFlags
  <2> QED BY <2>0, <2>1, <2>2 DEF KeyInv
<1>3. CASE AfterConsole
  <2>0. pc = "register" /\ UNCHANGED settings BY <1>3 DEF AfterConsole, nv
  <2>1. CASE Off BY <1>0, <2>0, <2>1, OffKeys
  <2>2. CASE pc' = "keys" /\ i' = 1 /\ UNCHANGED <<button, flags, keys, todo>>
    <3>1. flags = NoFlags /\ button = keys.before /\ \E S : todo' \in Seq(S)
      BY <2>0, <2>2 DEF KeyInv
    <3>2. FlagsRead' BY <2>2, <3>1 DEF FlagsRead, NoFlags
    <3> QED BY <2>0, <2>2, <3>1, <3>2 DEF KeyInv
  <2> QED BY <1>3, <2>1, <2>2 DEF AfterConsole
<1>4. CASE CheckButton
  <2>0. /\ pc = "keys" /\ pc' = "keys" /\ i \in {1, 2, 3, 4} /\ i' = i + 1
        /\ flags' = [flags EXCEPT ![Checks[i]] = IsBoot(Checks[i], button)]
        /\ UNCHANGED <<button, keys, settings, todo>>
    BY <1>4, ChecksAre DEF CheckButton, KeyInv, nv
  <2>1. flags \in Flags BY DEF KeyInv
  <2>2. /\ flags'.FrontPageBoot = IF i = 1 THEN button = "Down" ELSE flags.FrontPageBoot
        /\ flags'.BootloaderMenuBoot = IF i = 2 THEN button = "Down" ELSE flags.BootloaderMenuBoot
        /\ flags'.UFPBoot = IF i = 3 THEN button = "Up" ELSE flags.UFPBoot
        /\ flags'.AltDeviceBoot =
             IF i = 4 THEN settings.alt /\ button = "Down" ELSE flags.AltDeviceBoot
    <3>1. CASE i = 1 BY <2>0, <2>1, <3>1, ChecksAre DEF IsBoot, Flags
    <3>2. CASE i = 2 BY <2>0, <2>1, <3>2, ChecksAre DEF IsBoot, Flags
    <3>3. CASE i = 3 BY <2>0, <2>1, <3>3, ChecksAre DEF IsBoot, Flags
    <3>4. CASE i = 4 BY <2>0, <2>1, <3>4, ChecksAre DEF IsBoot, Flags
    <3> QED BY <2>0, <3>1, <3>2, <3>3, <3>4
  <2>4. flags' \in Flags
    <3>1. IsBoot(Checks[i], button) \in BOOLEAN
      <4>1. CASE i = 1 BY <4>1, ChecksAre DEF IsBoot
      <4>2. CASE i = 2 BY <4>2, ChecksAre DEF IsBoot
      <4>3. CASE i = 3 BY <4>3, ChecksAre DEF IsBoot
      <4>4. CASE i = 4 BY <4>4, ChecksAre, <1>0 DEF IsBoot
      <4> QED BY <2>0, <4>1, <4>2, <4>3, <4>4
    <3>2. Checks[i] \in {"FrontPageBoot", "BootloaderMenuBoot", "UFPBoot", "AltDeviceBoot"}
      BY <2>0, ChecksAre
    <3> QED BY <2>0, <2>1, <3>1, <3>2 DEF Flags
  <2>5. ASSUME ~keys.during PROVE button = keys.before /\ FlagsRead'
    <3>0. FlagsRead /\ button = keys.before BY <2>5 DEF KeyInv
    <3>1. /\ 1 < i' <=> i = 1 \/ 1 < i
          /\ 2 < i' <=> i = 2 \/ 2 < i
          /\ 3 < i' <=> i = 3 \/ 3 < i
          /\ 4 < i' <=> i = 4 \/ 4 < i
      BY <2>0
    <3>2. /\ 1 < i => i # 1
          /\ 2 < i => i # 2
          /\ 3 < i => i # 3
          /\ 4 < i => i # 4
      BY <2>0
    <3>3. flags'.FrontPageBoot <=> pc' = "keys" /\ 1 < i' /\ button' = "Down"
      BY <2>0, <2>2, <3>0, <3>1, <3>2, Zenon DEF FlagsRead
    <3>4. flags'.BootloaderMenuBoot <=> pc' = "keys" /\ 2 < i' /\ button' = "Down"
      BY <2>0, <2>2, <3>0, <3>1, <3>2, Zenon DEF FlagsRead
    <3>5. flags'.UFPBoot <=> pc' = "keys" /\ 3 < i' /\ button' = "Up"
      BY <2>0, <2>2, <3>0, <3>1, <3>2, Zenon DEF FlagsRead
    <3>6. flags'.AltDeviceBoot <=> pc' = "keys" /\ 4 < i' /\ settings'.alt /\ button' = "Down"
      BY <2>0, <2>2, <3>0, <3>1, <3>2, Zenon DEF FlagsRead
    <3> QED BY <3>0, <3>3, <3>4, <3>5, <3>6, Zenon DEF FlagsRead
  <2> QED BY <2>0, <2>4, <2>5 DEF KeyInv
<1>5. CASE PriorityBoot
  <2>0. /\ pc' = "bds" /\ i' = 1 /\ flags' = NoFlags /\ keys' = NoKeys /\ button' = None
        /\ UNCHANGED settings
    BY <1>5 DEF PriorityBoot, nv
  <2>1. FlagsRead' BY <2>0 DEF FlagsRead, NoFlags
  <2> QED BY <1>0, <2>0, <2>1, NoFlagsTyped DEF KeyInv, NoKeys
<1>6. ASSUME NEW b \in Buttons, KeyNotify(b) PROVE KeyInv'
  <2>0. /\ pc \in {"register", "keys"} /\ button' = b
        /\ UNCHANGED <<pc, i, flags, settings, todo>>
        /\ keys' = IF pc = "keys" /\ i > 1 THEN [keys EXCEPT !.during = TRUE]
                   ELSE [keys EXCEPT !.before = b]
    BY <1>6 DEF KeyNotify, nv
  <2>1. keys = [before |-> keys.before, during |-> keys.during] /\ keys.during \in BOOLEAN
    BY DEF KeyInv
  <2>2. CASE pc = "keys" /\ i > 1
    <3>1. keys' = [before |-> keys.before, during |-> TRUE] BY <2>0, <2>1, <2>2
    <3> QED BY <2>0, <2>2, <3>1 DEF KeyInv
  <2>3. CASE ~(pc = "keys" /\ i > 1)
    <3>1. keys' = [before |-> b, during |-> keys.during] BY <2>0, <2>1, <2>3
    <3>2. FlagsRead' <=> FlagsRead BY <2>0, <2>3 DEF FlagsRead, KeyInv
    <3> QED BY <2>0, <2>3, <3>1, <3>2 DEF KeyInv
  <2> QED BY <2>2, <2>3
<1>7. ASSUME RebootToFrontPage PROVE KeyInv'
  BY <1>7, <1>0, OffKeys DEF RebootToFrontPage
<1>8. CASE Dispatch \/ PreReadyToBoot \/ Runs \/ EnterFrontPage \/ LeaveFrontPage
  <2>1. /\ pc \notin {"register", "keys"} /\ pc' \notin {"register", "keys"}
        /\ UNCHANGED <<i, button, flags, keys, settings>>
    BY <1>8 DEF Dispatch, PreReadyToBoot, Runs, EnterFrontPage, LeaveFrontPage, nv
  <2> QED BY <1>0, <2>1, KeysAside
<1>9. CASE ProcessBootCompletion
  <2>1. CASE RebootToFrontPage BY <2>1, <1>7
  <2>2. CASE pc' = "bds" /\ UNCHANGED <<nv, i, button, flags, keys>>
    BY <1>0, <1>9, <2>2, KeysAside DEF ProcessBootCompletion, nv
  <2> QED BY <1>9, <2>1, <2>2 DEF ProcessBootCompletion
<1>10. CASE UnableToBoot BY <1>10, <1>7 DEF UnableToBoot
<1>11. CASE NewImage \/ ChangeSettings
  <2>1. settings'.alt \in BOOLEAN BY <1>0, <1>11 DEF NewImage, ChangeSettings
  <2> QED BY <1>11, <2>1, KeysAside DEF NewImage, ChangeSettings, boot
<1>12. ASSUME NEW k \in Kinds, Use(k) \/ ProcessBootNext(k) \/ OsSets(k) \/ OsAsks(k)
       PROVE  KeyInv'
  <2>1. CASE Use(k) \/ OsSets(k) \/ OsAsks(k)
    BY <1>0, <2>1, KeysAside DEF Use, OsSets, OsAsks, boot
  <2>2. CASE ProcessBootNext(k)
    BY <1>0, <2>2, KeysAside, OffKeys DEF ProcessBootNext
  <2> QED BY <1>12, <2>1, <2>2
<1>13. CASE RestartFrontPage \/ Reset \/ PowerLoss
  BY <1>0, <1>13, OffKeys DEF RestartFrontPage, Reset, PowerLoss, nv
<1>14. CASE UNCHANGED vars
  BY <1>14 DEF vars, nv, boot, KeyInv, FlagsRead
<1> QED
  BY <1>1, <1>2, <1>3, <1>4, <1>5, <1>6, <1>8, <1>9, <1>10, <1>11, <1>12, <1>13, <1>14
  DEF Next, Firmware

LEMMA NothingBefore == ASSUME NEW S, NEW s \in Seq(S) PROVE <<>> \o s = s
OBVIOUS

\* What the four checks give for a key.
LEMMA SteadyIs ==
  ASSUME NEW b
  PROVE  /\ Steady(b).FrontPageBoot <=> b = "Down"
         /\ Steady(b).BootloaderMenuBoot <=> b = "Down"
         /\ Steady(b).UFPBoot <=> b = "Up"
         /\ Steady(b).AltDeviceBoot <=> settings.alt /\ b = "Down"
<1>1. /\ "FrontPageBoot" \in Range(Checks) /\ "BootloaderMenuBoot" \in Range(Checks)
      /\ "UFPBoot" \in Range(Checks) /\ "AltDeviceBoot" \in Range(Checks)
  BY ChecksAre DEF Range, Checks
<1>2. \A f \in Range(Checks) : Steady(b)[f] = IsBoot(f, b) BY DEF Steady
<1>3. /\ IsBoot("FrontPageBoot", b) <=> b = "Down"
      /\ IsBoot("BootloaderMenuBoot", b) <=> b = "Down"
      /\ IsBoot("UFPBoot", b) <=> b = "Up"
      /\ IsBoot("AltDeviceBoot", b) <=> settings.alt /\ b = "Down"
  BY DEF IsBoot
<1> QED BY <1>1, <1>2, <1>3

\* The end of DeviceBootManagerPriorityBoot.
LEMMA KeyChosen ==
  ASSUME KeyInv, faults \in Nat, [Next]_vars, pc = "keys", pc' = "bds"
  PROVE  /\ ~keys.during /\ faults' = faults => todo' = Choice(Steady(keys.before)) \o todo
         /\ keys = NoKeys => todo' = todo
<1>1. PriorityBoot
  <2>1. ~BdsEntry /\ ~RegisterFvBootOption /\ ~AfterConsole /\ ~CheckButton
    BY DEF BdsEntry, RegisterFvBootOption, AfterConsole, CheckButton
  <2>2. ~Dispatch /\ ~PreReadyToBoot /\ ~Runs /\ ~ProcessBootCompletion /\ ~UnableToBoot
    BY DEF Dispatch, PreReadyToBoot, Runs, ProcessBootCompletion, UnableToBoot
  <2>3. ~EnterFrontPage /\ ~NewImage /\ ~ChangeSettings /\ ~LeaveFrontPage /\ ~RestartFrontPage
    BY DEF EnterFrontPage, NewImage, ChangeSettings, LeaveFrontPage, RestartFrontPage
  <2>4. \A k : ~KeyNotify(k) /\ ~Use(k) /\ ~ProcessBootNext(k) /\ ~OsSets(k) /\ ~OsAsks(k)
    BY DEF KeyNotify, Use, ProcessBootNext, OsSets, OsAsks
  <2>5. ~Reset /\ ~PowerLoss BY DEF Reset, PowerLoss, Off
  <2>6. ~UNCHANGED vars BY DEF vars, boot
  <2> QED BY <2>1, <2>2, <2>3, <2>4, <2>5, <2>6 DEF Next, Firmware
<1>2. /\ i > 4
      /\ todo' = Choice(flags) \o todo \/ (Fault /\ Choice(flags) # <<>> /\ todo' = todo)
  BY <1>1, ChecksAre DEF PriorityBoot
<1>3. ASSUME ~keys.during PROVE Choice(flags) = Choice(Steady(keys.before))
  <2>1. FlagsRead /\ button = keys.before /\ i \in Nat BY <1>3 DEF KeyInv
  <2>2. /\ flags.FrontPageBoot <=> button = "Down"
        /\ flags.BootloaderMenuBoot <=> button = "Down"
        /\ flags.UFPBoot <=> button = "Up"
        /\ flags.AltDeviceBoot <=> settings.alt /\ button = "Down"
    BY <2>1, <1>1, <1>2 DEF FlagsRead, PriorityBoot
  <2>3. /\ Steady(button).FrontPageBoot <=> button = "Down"
        /\ Steady(button).BootloaderMenuBoot <=> button = "Down"
        /\ Steady(button).UFPBoot <=> button = "Up"
        /\ Steady(button).AltDeviceBoot <=> settings.alt /\ button = "Down"
    BY SteadyIs
  <2> QED BY <2>1, <2>2, <2>3, Zenon DEF Choice
<1>4. ASSUME keys = NoKeys PROVE todo' = todo
  <2>1. ~keys.during /\ keys.before = None BY <1>4 DEF NoKeys
  <2>2. Choice(flags) = <<>>
    <3>1. Choice(flags) = Choice(Steady(None)) BY <1>3, <2>1
    <3>2. /\ ~Steady(None).FrontPageBoot /\ ~Steady(None).BootloaderMenuBoot
          /\ ~Steady(None).UFPBoot /\ ~Steady(None).AltDeviceBoot
      BY SteadyIs DEF None
    <3> QED BY <3>1, <3>2 DEF Choice
  <2>3. PICK S : todo \in Seq(S) BY DEF KeyInv
  <2> QED BY <1>2, <2>2, <2>3, NothingBefore
<1>5. ASSUME ~keys.during, faults' = faults PROVE todo' = Choice(Steady(keys.before)) \o todo
  <2>1. ~Fault BY <1>5 DEF Fault
  <2> QED BY <1>2, <1>3, <1>5, <2>1
<1> QED BY <1>4, <1>5

\* For every list of options: the four checks of DeviceBootManagerPriorityBoot, with
\* KeyNotify between any two of them, choose as one look at the key pressed last
\* before them would, unless KeyNotify changes the key meanwhile or the option cannot
\* be built; without a key nothing is put before the boot order.
THEOREM KeyDecides == Spec => KeyHonoured
<1>1. KeyInv /\ LockInv /\ [Next]_vars =>
        [pc = "keys" /\ pc' = "bds" =>
           /\ ~keys.during /\ faults' = faults => todo' = Choice(Steady(keys.before)) \o todo
           /\ keys = NoKeys => todo' = todo]_vars
  BY KeyChosen DEF LockInv
<1>2. Spec => [](KeyInv /\ LockInv) BY KeyInit, KeyStep, LockInit, LockStep, PTL DEF Spec
<1> QED BY <1>1, <1>2, PTL DEF Spec, KeyHonoured

-----------------------------------------------------------------------------
(***************************************************************************)
(* BootOrder.  It is written in three ways: an option is put behind the    *)
(* others, one is taken out, one is moved to the front.  None of the three *)
(* makes an option occur twice, given that none does before.               *)
(***************************************************************************)
Option == [boots : Kinds, active : BOOLEAN]

\* Sequences of options of which each boots something else.
Distinct(s) == \A m, n \in DOMAIN s : s[m].boots = s[n].boots => m = n

OrderInv == order \in Seq(Option) /\ NoDuplicates

LEMMA OptionIs ==
  ASSUME NEW k \in Kinds
  PROVE  [boots |-> k, active |-> TRUE] \in Option
BY DEF Option

LEMMA PlaceIs ==
  ASSUME NEW s \in Seq(Option), NEW k, k \in Options(s)
  PROVE  Place(s, k) \in 1..Len(s) /\ s[Place(s, k)].boots = k
<1>1. \E n \in DOMAIN s : s[n].boots = k BY DEF Options
<1>2. Place(s, k) \in DOMAIN s /\ s[Place(s, k)].boots = k BY <1>1, Zenon DEF Place
<1> QED BY <1>2

\* What RemoveAt leaves.
LEMMA Removed ==
  ASSUME NEW s \in Seq(Option), NEW p \in 1..Len(s)
  PROVE  /\ RemoveAt(s, p) \in Seq(Option) /\ Len(RemoveAt(s, p)) = Len(s) - 1
         /\ \A n \in 1..(Len(s) - 1) : RemoveAt(s, p)[n] = s[IF n < p THEN n ELSE n + 1]
<1> DEFINE x == SubSeq(s, 1, p - 1)
           y == SubSeq(s, p + 1, Len(s))
<1>1. x \in Seq(Option) /\ Len(x) = p - 1 /\ \A n \in 1..(p - 1) : x[n] = s[n]
  OBVIOUS
<1>2. y \in Seq(Option) /\ Len(y) = Len(s) - p /\ \A n \in 1..(Len(s) - p) : y[n] = s[p + n]
  OBVIOUS
<1>3. RemoveAt(s, p) = x \o y BY DEF RemoveAt
<1> HIDE DEF x, y
<1>4. x \o y \in Seq(Option) /\ Len(x \o y) = Len(s) - 1
  BY <1>1, <1>2
<1>5. ASSUME NEW n \in 1..(Len(s) - 1) PROVE (x \o y)[n] = s[IF n < p THEN n ELSE n + 1]
  <2>1. CASE n < p BY <1>1, <1>2, <2>1
  <2>2. CASE ~(n < p)
    <3>1. n - (p - 1) \in 1..(Len(s) - p) /\ p + (n - (p - 1)) = n + 1 BY <2>2
    <3>2. (x \o y)[n] = y[n - (p - 1)] BY <1>1, <1>2, <2>2
    <3> QED BY <1>2, <2>2, <3>1, <3>2
  <2> QED BY <2>1, <2>2
<1> QED BY <1>3, <1>4, <1>5

\* Without: the option is gone, the others stay, each once.
LEMMA WithoutIs ==
  ASSUME NEW s \in Seq(Option), Distinct(s), NEW k
  PROVE  /\ Without(s, k) \in Seq(Option) /\ Distinct(Without(s, k))
         /\ Options(Without(s, k)) = Options(s) \ {k}
<1>1. CASE k \notin Options(s) BY <1>1 DEF Without
<1>2. CASE k \in Options(s)
  <2> DEFINE p == Place(s, k)
             t == RemoveAt(s, p)
             at(n) == IF n < p THEN n ELSE n + 1
  <2>1. p \in 1..Len(s) /\ s[p].boots = k BY <1>2, PlaceIs
  <2>2. Without(s, k) = t BY <1>2 DEF Without
  <2> HIDE DEF p
  <2>3. /\ t \in Seq(Option) /\ Len(t) = Len(s) - 1
        /\ \A n \in 1..(Len(s) - 1) : t[n] = s[at(n)]
    BY <2>1, Removed
  <2> HIDE DEF t
  <2>4. DOMAIN t = 1..(Len(s) - 1) /\ DOMAIN s = 1..Len(s) BY <2>3
  <2>5. \A n \in DOMAIN t : at(n) \in DOMAIN s /\ at(n) # p /\ t[n] = s[at(n)]
    BY <2>1, <2>3, <2>4
  <2>6. \A m, n \in DOMAIN t : at(m) = at(n) => m = n BY <2>1, <2>4
  <2>7. \A m \in DOMAIN s : m # p => \E n \in DOMAIN t : at(n) = m
    <3> SUFFICES ASSUME NEW m \in DOMAIN s, m # p PROVE \E n \in DOMAIN t : at(n) = m
      OBVIOUS
    <3>1. CASE m < p BY <2>1, <2>4, <3>1
    <3>2. CASE ~(m < p)
      <4>1. m - 1 \in DOMAIN t /\ ~(m - 1 < p) /\ (m - 1) + 1 = m BY <2>1, <2>4, <3>2
      <4> QED BY <4>1
    <3> QED BY <3>1, <3>2
  <2> HIDE DEF at
  <2>8. Distinct(t) BY <2>5, <2>6 DEF Distinct
  <2>9. Options(t) = Options(s) \ {k}
    <3>1. ASSUME NEW o \in Options(t) PROVE o \in Options(s) \ {k}
      <4>1. PICK n \in DOMAIN t : t[n].boots = o BY <3>1 DEF Options
      <4>2. s[at(n)].boots = o /\ at(n) \in DOMAIN s /\ at(n) # p BY <4>1, <2>5
      <4>3. o # k BY <4>2, <2>1, <2>4 DEF Distinct
      <4> QED BY <4>2, <4>3 DEF Options
    <3>2. ASSUME NEW o \in Options(s), o # k PROVE o \in Options(t)
      <4>1. PICK m \in DOMAIN s : s[m].boots = o BY <3>2 DEF Options
      <4>2. m # p BY <4>1, <3>2, <2>1
      <4>3. PICK n \in DOMAIN t : at(n) = m BY <4>2, <2>7
      <4>4. t[n].boots = o BY <4>1, <4>3, <2>5
      <4> QED BY <4>4 DEF Options
    <3> QED BY <3>1, <3>2
  <2> QED BY <2>2, <2>3, <2>8, <2>9
<1> QED BY <1>1, <1>2

\* Append puts a new option behind the others.
LEMMA AppendIs ==
  ASSUME NEW s \in Seq(Option), Distinct(s), NEW o \in Option, o.boots \notin Options(s)
  PROVE  Append(s, o) \in Seq(Option) /\ Distinct(Append(s, o))
<1> DEFINE t == Append(s, o)
<1>1. /\ t \in Seq(Option) /\ DOMAIN t = 1..(Len(s) + 1) /\ DOMAIN s = 1..Len(s)
      /\ \A n \in DOMAIN s : t[n] = s[n]
      /\ t[Len(s) + 1] = o /\ Len(s) + 1 \notin DOMAIN s
  OBVIOUS
<1>2. \A n \in DOMAIN t : n \in DOMAIN s \/ n = Len(s) + 1 BY <1>1
<1> HIDE DEF t
<1>3. \A n \in DOMAIN s : t[n].boots # t[Len(s) + 1].boots BY <1>1 DEF Options
<1>4. Distinct(t) BY <1>1, <1>2, <1>3 DEF Distinct
<1> QED BY <1>1, <1>4 DEF t

\* The boot menu moves an option to the front.
LEMMA FrontIs ==
  ASSUME NEW s \in Seq(Option), Distinct(s), NEW o \in Option, o.boots \notin Options(s)
  PROVE  <<o>> \o s \in Seq(Option) /\ Distinct(<<o>> \o s)
<1> DEFINE t == <<o>> \o s
<1>0. <<o>> \in Seq(Option) /\ Len(<<o>>) = 1 /\ <<o>>[1] = o OBVIOUS
<1>1. /\ t \in Seq(Option) /\ DOMAIN t = 1..(Len(s) + 1) /\ DOMAIN s = 1..Len(s)
      /\ t[1] = o /\ \A n \in 2..(Len(s) + 1) : t[n] = s[n - 1]
  BY <1>0
<1>2. \A n \in DOMAIN t : n = 1 \/ (n - 1 \in DOMAIN s /\ t[n] = s[n - 1]) BY <1>1
<1> HIDE DEF t
<1>3. \A n \in DOMAIN t : n # 1 => t[n].boots # t[1].boots BY <1>1, <1>2 DEF Options
<1>4. \A m, n \in DOMAIN t : m - 1 = n - 1 => m = n BY <1>1
<1>5. Distinct(t)
  <2> SUFFICES ASSUME NEW m \in DOMAIN t, NEW n \in DOMAIN t, t[m].boots = t[n].boots
               PROVE  m = n
    BY DEF Distinct
  <2>1. CASE m = 1 \/ n = 1 BY <2>1, <1>3
  <2>2. CASE m # 1 /\ n # 1
    <3>1. m - 1 \in DOMAIN s /\ n - 1 \in DOMAIN s /\ s[m - 1].boots = s[n - 1].boots
      BY <2>2, <1>2
    <3> QED BY <3>1, <1>4 DEF Distinct
  <2> QED BY <2>1, <2>2
<1> QED BY <1>1, <1>5 DEF t

LEMMA IsOptionIs == ASSUME NEW k PROVE IsOption(k) <=> k \in Options(order)
BY DEF IsOption, Options

LEMMA OrderIs == NoDuplicates <=> Distinct(order)
BY DEF NoDuplicates, Distinct

\* RegisterFvBootOption: what it leaves, and that it leaves each option once.
LEMMA RegisteredIs ==
  ASSUME OrderInv, NEW k \in Kinds
  PROVE  Registered(k) \in Seq(Option) /\ Distinct(Registered(k))
<1>0. order \in Seq(Option) /\ Distinct(order) BY OrderIs DEF OrderInv
<1>1. CASE k \in files /\ ~Found(k)
  <2>1. k \notin Options(order) BY <1>1 DEF Found, Options
  <2> DEFINE o == [boots |-> k, active |-> TRUE]
  <2>2. o \in Option /\ o.boots = k BY OptionIs
  <2>3. Registered(k) = Append(order, o) BY <1>1 DEF Registered
  <2> HIDE DEF o
  <2> QED BY <1>0, <2>1, <2>2, <2>3, AppendIs
<1>2. CASE Registered(k) = Without(order, k) BY <1>0, <1>2, WithoutIs
<1>3. CASE Registered(k) = order BY <1>0, <1>3
<1> QED BY <1>1, <1>2, <1>3 DEF Registered

\* What RegisterFvBootOption leaves starts with what it may keep.
LEMMA RegisteredKeeps ==
  ASSUME OrderInv, NEW k \in Kinds
  PROVE  \E s \in MayKeep : Extended(s, Registered(k))
<1>0. order \in Seq(Option) /\ Distinct(order) BY OrderIs DEF OrderInv
<1>a. ASSUME NEW s \in Seq(Option) PROVE Extended(s, s)
  BY <1>a DEF Extended
<1>1. CASE k \in files /\ ~Found(k)
  <2>1. ~IsOption(k) BY <1>1 DEF Found, IsOption
  <2> DEFINE o == [boots |-> k, active |-> TRUE]
             t == Append(order, o)
  <2>2. o \in Option /\ o.boots = k BY OptionIs
  <2>3. Registered(k) = t BY <1>1 DEF Registered
  <2> HIDE DEF o
  <2>4. /\ Len(t) = Len(order) + 1 /\ DOMAIN t = 1..(Len(order) + 1)
        /\ DOMAIN order = 1..Len(order) /\ Len(order) \in Nat
        /\ \A n \in DOMAIN order : t[n] = order[n]
        /\ t[Len(order) + 1] = o
    BY <1>0, <2>2
  <2> HIDE DEF t
  <2>5. \A n \in DOMAIN t : n > Len(order) => n = Len(order) + 1 BY <2>4
  <2>6. Len(order) <= Len(t) BY <2>4
  <2>7. Extended(order, t) BY <2>1, <2>2, <2>4, <2>5, <2>6 DEF Extended
  <2> QED BY <2>3, <2>7 DEF MayKeep
<1>2. CASE k \notin files /\ k = SHELL
  <2>1. Registered(k) = Without(order, SHELL) BY <1>2 DEF Registered
  <2>2. Without(order, SHELL) \in MayKeep BY <1>2 DEF MayKeep
  <2>3. Without(order, SHELL) \in Seq(Option) BY <1>0, WithoutIs
  <2> QED BY <2>1, <2>2, <2>3, <1>a
<1>3. CASE Registered(k) = order BY <1>0, <1>3, <1>a DEF MayKeep
<1> QED BY <1>1, <1>2, <1>3 DEF Registered

\* The front page and the OS: an option is moved, deleted, added or toggled.
LEMMA SetOptionKeeps ==
  ASSUME OrderInv, NEW k \in Kinds, SetOption(k)
  PROVE  OrderInv'
<1>0. order \in Seq(Option) /\ Distinct(order) BY OrderIs DEF OrderInv
<1>t. ASSUME order' \in Seq(Option), Distinct(order') PROVE OrderInv'
  BY <1>t DEF OrderInv, NoDuplicates, Distinct
<1>w. /\ Without(order, k) \in Seq(Option) /\ Distinct(Without(order, k))
      /\ k \notin Options(Without(order, k))
  BY <1>0, WithoutIs
<1>1. CASE IsOption(k) /\ order' = Moved(k)
  <2>1. Place(order, k) \in 1..Len(order) /\ order[Place(order, k)].boots = k
    BY <1>0, <1>1, PlaceIs, IsOptionIs
  <2>2. order[Place(order, k)] \in Option BY <1>0, <2>1
  <2>3. order' \in Seq(Option) /\ Distinct(order')
    BY <1>1, <1>w, <2>1, <2>2, FrontIs DEF Moved
  <2> QED BY <2>3, <1>t
<1>2. CASE order' = Without(order, k) BY <1>2, <1>w, <1>t
<1>3. CASE ~IsOption(k) /\ order' = Append(order, [boots |-> k, active |-> TRUE])
  <2> DEFINE o == [boots |-> k, active |-> TRUE]
  <2>1. o \in Option /\ o.boots = k BY OptionIs
  <2>2. k \notin Options(order) BY <1>3, IsOptionIs
  <2>3. order' = Append(order, o) BY <1>3
  <2> HIDE DEF o
  <2>4. order' \in Seq(Option) /\ Distinct(order') BY <1>0, <2>1, <2>2, <2>3, AppendIs
  <2> QED BY <2>4, <1>t
<1>4. CASE order' = Toggled(k)
  <2> DEFINE x(n) == IF order[n].boots = k THEN [order[n] EXCEPT !.active = ~@] ELSE order[n]
  <2>1. \A n \in 1..Len(order) : x(n) \in Option /\ x(n).boots = order[n].boots
    <3> SUFFICES ASSUME NEW n \in 1..Len(order)
                 PROVE  x(n) \in Option /\ x(n).boots = order[n].boots
      OBVIOUS
    <3>1. order[n] \in Option BY <1>0
    <3> DEFINE a == ~order[n].active
    <3>2. a \in BOOLEAN OBVIOUS
    <3>3. [order[n] EXCEPT !.active = ~@] = [order[n] EXCEPT !.active = a] BY <3>1 DEF Option
    <3> HIDE DEF a
    <3>4. [order[n] EXCEPT !.active = a] \in Option
          /\ [order[n] EXCEPT !.active = a].boots = order[n].boots
      BY <3>1, <3>2 DEF Option
    <3> QED BY <3>1, <3>3, <3>4
  <2>2. DOMAIN order = 1..Len(order) /\ Len(order) \in Nat BY <1>0
  <2>3. order' = [n \in 1..Len(order) |-> x(n)] BY <1>4, <2>2 DEF Toggled
  <2> HIDE DEF x
  <2>4. order' \in Seq(Option) /\ DOMAIN order' = 1..Len(order) BY <2>1, <2>2, <2>3
  <2>5. \A n \in 1..Len(order) : order'[n].boots = order[n].boots BY <2>1, <2>3
  <2>6. Distinct(order') BY <1>0, <2>2, <2>4, <2>5 DEF Distinct
  <2> QED BY <2>4, <2>6, <1>t
<1> QED BY <1>1, <1>2, <1>3, <1>4 DEF SetOption

LEMMA DefaultIsKind ==
  ASSUME KeyInv, i <= Len(Defaults)
  PROVE  Defaults[i] \in Kinds
<1>1. Defaults \in Seq(Range(Defaults)) BY BootAssumption
<1>2. i \in 1..Len(Defaults) BY <1>1 DEF KeyInv
<1>3. Defaults[i] \in Range(Defaults) BY <1>1, <1>2
<1> QED BY <1>3 DEF Kinds

\* Who writes BootOrder: RegisterFvBootOption, the front page and the OS.
LEMMA OrderWriters ==
  ASSUME [Next]_vars
  PROVE  \/ UNCHANGED order
         \/ RegisterFvBootOption
         \/ \E k \in Kinds : Use(k) \/ OsSets(k)
<1>1. CASE Firmware
  <2>1. ASSUME RebootToFrontPage PROVE UNCHANGED order BY <2>1 DEF RebootToFrontPage
  <2>2. CASE ProcessBootCompletion BY <2>1, <2>2 DEF ProcessBootCompletion, nv
  <2>3. CASE UnableToBoot BY <2>1, <2>3 DEF UnableToBoot
  <2>4. CASE AfterConsole \/ CheckButton \/ PriorityBoot \/ Dispatch
    BY <2>4 DEF AfterConsole, CheckButton, PriorityBoot, Dispatch, nv
  <2>5. CASE BdsEntry \/ PreReadyToBoot \/ Runs \/ EnterFrontPage
    BY <2>5 DEF BdsEntry, PreReadyToBoot, Runs, EnterFrontPage, nv
  <2> QED BY <1>1, <2>2, <2>3, <2>4, <2>5 DEF Firmware
<1>2. CASE ProcessBootCompletion
  BY <1>2 DEF ProcessBootCompletion, RebootToFrontPage, nv
<1>3. CASE NewImage \/ ChangeSettings \/ LeaveFrontPage \/ RestartFrontPage \/ Reset \/ PowerLoss
  BY <1>3 DEF NewImage, ChangeSettings, LeaveFrontPage, RestartFrontPage, Reset, PowerLoss, nv
<1>4. ASSUME NEW b, KeyNotify(b) PROVE UNCHANGED order BY <1>4 DEF KeyNotify, nv
<1>5. ASSUME NEW k, ProcessBootNext(k) \/ OsAsks(k) PROVE UNCHANGED order
  BY <1>5 DEF ProcessBootNext, OsAsks
<1>6. CASE UNCHANGED vars BY <1>6 DEF vars, nv
<1> QED BY <1>1, <1>2, <1>3, <1>4, <1>5, <1>6 DEF Next

LEMMA OrderInit == Init => OrderInv
<1> SUFFICES ASSUME Init PROVE OrderInv
  OBVIOUS
<1>1. order = <<>> BY DEF Init
<1> QED BY <1>1 DEF OrderInv, NoDuplicates

LEMMA OrderStep == OrderInv /\ KeyInv /\ [Next]_vars => OrderInv'
<1> SUFFICES ASSUME OrderInv, KeyInv, [Next]_vars PROVE OrderInv'
  OBVIOUS
<1>1. CASE UNCHANGED order BY <1>1 DEF OrderInv, NoDuplicates
<1>2. CASE RegisterFvBootOption
  <2>1. Defaults[i] \in Kinds BY <1>2, DefaultIsKind DEF RegisterFvBootOption
  <2>2. Registered(Defaults[i]) \in Seq(Option) /\ Distinct(Registered(Defaults[i]))
    BY <2>1, RegisteredIs
  <2>3. CASE order' = Registered(Defaults[i])
    BY <2>2, <2>3 DEF OrderInv, NoDuplicates, Distinct
  <2> QED BY <1>1, <1>2, <2>3 DEF RegisterFvBootOption
<1>3. ASSUME NEW k \in Kinds, Use(k) \/ OsSets(k) PROVE OrderInv'
  BY <1>3, SetOptionKeeps DEF Use, OsSets
<1> QED BY <1>1, <1>2, <1>3, OrderWriters

\* A step of the firmware keeps the options and their order.
LEMMA FirmwareKeeps ==
  ASSUME OrderInv, KeyInv, [Next]_vars, pc \notin {"os", "frontpage"}
  PROVE  \E s \in MayKeep : Extended(s, order')
<1>1. CASE UNCHANGED order
  <2>1. Extended(order, order) BY DEF Extended, OrderInv
  <2>2. Extended(order, order') BY <1>1, <2>1
  <2> QED BY <2>2 DEF MayKeep
<1>2. CASE RegisterFvBootOption
  <2>1. Defaults[i] \in Kinds BY <1>2, DefaultIsKind DEF RegisterFvBootOption
  <2>2. CASE order' = Registered(Defaults[i]) BY <2>1, <2>2, RegisteredKeeps
  <2> QED BY <1>1, <1>2, <2>2 DEF RegisterFvBootOption
<1>3. \A k : ~Use(k) /\ ~OsSets(k) BY DEF Use, OsSets
<1> QED BY <1>1, <1>2, <1>3, OrderWriters

\* For every list of default options and every set of options of an OS, over any
\* number of boots: RegisterFvBootOption leaves the options it finds in the order
\* and state the user gave them, puts the missing ones behind and registers none
\* twice; it takes out the shell only when the image has none.
THEOREM ChoicesStay == Spec => ChoicesKept
<1>1. OrderInv /\ KeyInv /\ [Next]_vars =>
        [pc \notin {"os", "frontpage"} => \E s \in MayKeep : Extended(s, order')]_vars
  BY FirmwareKeeps
<1>2. Spec => []KeyInv BY KeyInit, KeyStep, PTL DEF Spec
<1>3. Spec => []OrderInv BY <1>2, OrderInit, OrderStep, PTL DEF Spec
<1>4. OrderInv => NoDuplicates BY DEF OrderInv
<1> QED BY <1>1, <1>2, <1>3, <1>4, PTL DEF Spec, ChoicesKept
=============================================================================
