---------------------------- MODULE MenusProofs ----------------------------
(***************************************************************************)
(* Proofs about Menus: its type invariant, a wipe stays asked for until it *)
(* is done (WipeKept), a boot goes on only as the screens say              *)
(* (BootsAsShown), and a lock changes only as the user confirmed it        *)
(* (LockAsConfirmed), for every set of builds and every number of faults.  *)
(***************************************************************************)
EXTENDS Menus, TLAPS

Screened == Warnings \cup {"EIO"}
Msgs == {"YELLOW", "ORANGE", "RED", "EIO", "FASTBOOT", "unlockMsg", "lockMsg"}
Ended == {"linux", "reset", "off"}

Record ==
  [type : MenuTypes, num : {0, 2, 6}, index : 0..6,
   timeout : {0, WarnTime, EioTime, PauseTime}, msg : Msgs \cup {"null"}]

History ==
  [moved : BOOLEAN, pressed : BOOLEAN, asked : LockMenus \cup {"none"},
   changed : BOOLEAN, lost : BOOLEAN, paused : BOOLEAN,
   why : {"none", "timeout", "error", "key"}]

\* A record's options fit its type and its index them, and it is the record of
\* the file that draws menus of that type.
WellFormed(r, f) ==
  /\ r \in Record
  /\ r.num = Len(MenuOptions(r.type)) /\ r.index <= r.num
  /\ r.type = "YELLOW" \/ File(r.type) = f

\* The main thread and the device.
MainInv ==
  /\ build \in Builds
  /\ run \in {"fastboot", "draw", "wait", "delay", "red"} \cup Ended
  /\ screen \in MenuTypes
  /\ boot \in [ok : BOOLEAN, state : {"GREEN", "ORANGE", "YELLOW", "RED"}]
  /\ dev \in [unlocked : BOOLEAN, critical : BOOLEAN, enforcing : BOOLEAN]
  /\ misc \in [command : {"none", "recovery", "ffbm"}, wipe : BOOLEAN]
  /\ faults \in 0..MaxFaults
  /\ hist \in History

\* The menu records.
MenuInv ==
  /\ cb \in Files \cup {"null", "dangling"}
  /\ info \in [Files -> Record]
  /\ \A f \in Files : WellFormed(info[f], f)
  /\ \A f \in Files : cb = f => info[f].msg # "null"
  /\ cb = "unlock" => info["unlock"].msg \in {"unlockMsg", "lockMsg"}
  /\ cb = "fastboot" => info["fastboot"].type = "FASTBOOT"
  /\ run = "draw" /\ screen \in LockMenus
       => info["unlock"].msg \in {"unlockMsg", "lockMsg"}

\* What the key handler keeps.
TimerInv ==
  /\ notice \subseteq {"YELLOW", "ORANGE", "unlockMsg", "lockMsg"}
  /\ lastKey \in Keys
  /\ waited \in 0..(PauseTime + 1)
  /\ refresh \in BOOLEAN

\* Which screens the main thread draws, waits for and delays on; with AVB 2 it
\* gets past them, or to Linux, with an image that was authenticated.
ScreenInv ==
  /\ run = "draw" => screen # "FASTBOOT"
  /\ run \in {"wait", "delay"} => screen \in Screened
  /\ build.avb = "AVB_2" /\ (run = "linux" \/ (run \in {"draw", "wait", "delay"}
                                               /\ screen \in Screened))
       => boot.ok

\* While the event belongs to a screen, the main thread waits for that screen,
\* key detection has not ended, and a pause is in its notice.
PauseInv ==
  cb = "vb" =>
    /\ run = "wait" /\ screen \in Screened
    /\ info["vb"].type = screen /\ info["vb"].msg = screen
    /\ hist.why = "none"
    /\ hist.paused => screen \in Warnings /\ screen \in notice

\* A lock menu is shown, or being drawn, only for a lock it would change.
OfferInv ==
  \A menu \in LockMenus :
    (run = "draw" /\ screen = menu) \/ info["unlock"].type = menu
      => build.display = "menu" /\ dev[LockOf(menu)] # ValueOf(menu)

\* What the handler of a lock menu keeps of the keys it saw.
ConfirmInv ==
  cb = "unlock" =>
    /\ info["unlock"].type \in LockMenus =>
         /\ hist.asked = info["unlock"].type
         /\ info["unlock"].index < info["unlock"].num => hist.moved
    /\ hist.moved /\ lastKey = "power" => hist.pressed

\* The inductive invariant.
Inv ==
  /\ MainInv /\ MenuInv /\ TimerInv
  /\ ScreenInv /\ PauseInv /\ OfferInv /\ ConfirmInv /\ PauseHolds /\ WipeKept


-----------------------------------------------------------------------------
(* Menus and their records                                                 *)

\* The file, the message table and the options of each menu.
LEMMA MenuFacts ==
  ASSUME NEW menu \in MenuTypes
  PROVE  /\ Msg(menu) \in Msgs /\ File(menu) \in Files
         /\ menu \in LockMenus =>
              /\ Len(MenuOptions(menu)) = 2 /\ File(menu) = "unlock"
              /\ Msg(menu) \in {"unlockMsg", "lockMsg"}
         /\ menu = "FASTBOOT" =>
              /\ Len(MenuOptions(menu)) = 6 /\ File(menu) = "fastboot"
              /\ Msg(menu) = menu
         /\ menu \notin LockMenus \cup {"FASTBOOT"} =>
              /\ Len(MenuOptions(menu)) = 0 /\ File(menu) = "vb"
              /\ Msg(menu) = menu
<1>1. CASE menu \in LockMenus
  BY <1>1 DEF Msg, File, Msgs, Files, MenuOptions, LockMenus
<1>2. CASE menu = "FASTBOOT"
  BY <1>2 DEF Msg, File, Msgs, Files, MenuOptions, LockMenus
<1>3. CASE menu \notin LockMenus \cup {"FASTBOOT"}
  <2>1. menu \in {"YELLOW", "ORANGE", "RED", "EIO"}
    BY <1>3 DEF MenuTypes, Warnings, LockMenus
  <2>2. MenuOptions(menu) = << >>
    BY <1>3 DEF MenuOptions
  <2> QED
    BY <2>1, <2>2, <1>3 DEF Msg, File, Msgs, Files, LockMenus
<1> QED
  BY <1>1, <1>2, <1>3

\* A zeroed record is well formed in every file.
LEMMA ZeroedOK ==
  ASSUME NEW menu \in MenuTypes, NEW f
  PROVE  /\ WellFormed(Zeroed(menu), f)
         /\ Zeroed(menu).type = "YELLOW" /\ Zeroed(menu).index = 0
         /\ Zeroed(menu).timeout = 0
         /\ menu \in LockMenus => Zeroed(menu).msg \in {"unlockMsg", "lockMsg"}
<1>1. Len(MenuOptions("YELLOW")) = 0 /\ "YELLOW" \in MenuTypes
  BY MenuFacts DEF MenuTypes, Warnings, LockMenus
<1>2. menu \in LockMenus => Msg(menu) \in {"unlockMsg", "lockMsg"}
  BY MenuFacts
<1> QED
  BY <1>1, <1>2 DEF Zeroed, WellFormed, Record, Msgs

\* A well-formed record stays so when its screen has been drawn.
LEMMA ShownOK ==
  ASSUME NEW menu \in MenuTypes, NEW r, WellFormed(r, File(menu)),
         menu = "FASTBOOT" => r.index = 0
  PROVE  /\ WellFormed(Shown(r, menu), File(menu))
         /\ Shown(r, menu).type = menu /\ Shown(r, menu).msg = Msg(menu)
         /\ menu \in LockMenus => Shown(r, menu).index = Shown(r, menu).num
<1> DEFINE num == Len(MenuOptions(menu))
           time == IF File(menu) = "vb" THEN ScreenTime(menu) ELSE r.timeout
           index == IF menu \in LockMenus THEN num ELSE r.index
<1>1. r \in Record
  BY DEF WellFormed
<1>2. /\ num \in {0, 2, 6} /\ Msg(menu) \in Msgs
      /\ time \in {0, WarnTime, EioTime, PauseTime}
  BY <1>1, MenuFacts DEF ScreenTime, Record
<1>3. index \in 0..6 /\ index <= num
  <2>1. CASE menu \in LockMenus
    BY <2>1, MenuFacts
  <2>2. CASE menu = "FASTBOOT"
    BY <2>2, MenuFacts DEF LockMenus
  <2>3. CASE menu \notin LockMenus \cup {"FASTBOOT"}
    <3>1. File(menu) = "vb" /\ num = 0
      BY <2>3, MenuFacts
    <3>2. File("YELLOW") = "vb" /\ r.type \in MenuTypes
      BY <1>1 DEF Record, File, LockMenus
    <3>3. File(r.type) = "vb"
      BY <3>1, <3>2 DEF WellFormed
    <3>4. r.num = 0
      BY <3>2, <3>3, MenuFacts DEF WellFormed
    <3> QED
      BY <1>1, <2>3, <3>1, <3>4 DEF WellFormed, Record
  <2> QED
    BY <2>1, <2>2, <2>3
<1>4. Shown(r, menu) = [r EXCEPT !.type = menu, !.num = num, !.index = index,
                                 !.timeout = time, !.msg = Msg(menu)]
  BY DEF Shown
<1> HIDE DEF num, time, index
<1>5. /\ Shown(r, menu) \in Record
      /\ Shown(r, menu).type = menu /\ Shown(r, menu).num = num
      /\ Shown(r, menu).index = index /\ Shown(r, menu).msg = Msg(menu)
  BY <1>1, <1>2, <1>3, <1>4 DEF Record
<1> QED
  BY <1>3, <1>5 DEF WellFormed, num, index

\* The records that are kept, and those that count as zeroed.
LEMMA KeptOK ==
  ASSUME NEW i, NEW files, \A f \in Files : WellFormed(i[f], f)
  PROVE  /\ Kept(i, files) \in [Files -> Record]
         /\ \A f \in Files :
              /\ WellFormed(Kept(i, files)[f], f)
              /\ f \in files => Kept(i, files)[f] = i[f]
              /\ f \notin files => Kept(i, files)[f] = Zeroed("RED")
<1>1. "RED" \in MenuTypes
  BY DEF MenuTypes
<1>2. \A f \in Files : WellFormed(Zeroed("RED"), f)
  BY <1>1, ZeroedOK
<1>3. \A f \in Files : /\ WellFormed(Kept(i, files)[f], f)
                       /\ f \in files => Kept(i, files)[f] = i[f]
                       /\ f \notin files => Kept(i, files)[f] = Zeroed("RED")
  BY <1>2 DEF Kept
<1> QED
  BY <1>3 DEF Kept, WellFormed

-----------------------------------------------------------------------------
(* What most actions have in common                                        *)

LEMMA TimerStarts ==
  ASSUME notice' = {}, lastKey' = "none", waited' = 0, refresh' = FALSE
  PROVE  TimerInv'
<1>1. 0 \in 0..(PauseTime + 1)
  BY TimesOrdered
<1> QED
  BY <1>1, Zenon DEF TimerInv, Keys

\* The end of the program leaves nothing of the menus.
LEMMA HaltOK ==
  ASSUME NEW where \in Ended, Halt(where),
         where = "linux" /\ build'.avb = "AVB_2" => boot'.ok
  PROVE  /\ MenuInv' /\ TimerInv' /\ ScreenInv' /\ PauseInv' /\ OfferInv' /\ ConfirmInv'
         /\ run' = where /\ screen' \in MenuTypes
<1>1. "RED" \in MenuTypes
  BY DEF MenuTypes
<1>2. \A f \in Files : info'[f] = Zeroed("RED")
  BY DEF Halt
<1>3. \A f \in Files : WellFormed(info'[f], f) /\ info'[f].type = "YELLOW"
  BY <1>1, <1>2, ZeroedOK
<1>4. info' \in [Files -> Record]
  BY <1>2, <1>3 DEF Halt, WellFormed
<1>5. /\ run' = where /\ screen' = "FASTBOOT" /\ cb' = "null" /\ notice' = {}
      /\ lastKey' = "none" /\ waited' = 0 /\ refresh' = FALSE
  BY DEF Halt
<1>6. MenuInv' /\ TimerInv'
  <2>1. MenuInv'
    BY <1>3, <1>4, <1>5 DEF MenuInv, Files, Ended
  <2>2. TimerInv'
    BY <1>5, TimerStarts
  <2> QED
    BY <2>1, <2>2
<1>7. ScreenInv' /\ PauseInv' /\ ConfirmInv'
  BY <1>5 DEF ScreenInv, PauseInv, ConfirmInv, Ended, Screened, Warnings
<1>8. OfferInv'
  BY <1>3, <1>5 DEF OfferInv, Ended, LockMenus, Files
<1> QED
  BY <1>5, <1>6, <1>7, <1>8 DEF MenuTypes

\* What a step keeps that leaves the locks, the message in misc and what is
\* known of them alone.
LEMMA WipeStays ==
  ASSUME WipeKept, UNCHANGED <<dev, misc>>,
         hist'.changed = hist.changed, hist'.lost = hist.lost
  PROVE  WipeKept'
BY DEF WipeKept

\* A halt that changes nothing else.
LEMMA HaltStays ==
  ASSUME Inv, NEW where \in Ended, Halt(where), run # "off",
         where = "linux" /\ build.avb = "AVB_2" => boot.ok,
         UNCHANGED <<build, boot, dev, misc, faults, hist>>
  PROVE  Inv'
<1>1. /\ MenuInv' /\ TimerInv' /\ ScreenInv' /\ PauseInv' /\ OfferInv' /\ ConfirmInv'
      /\ run' = where /\ screen' \in MenuTypes
  BY HaltOK
<1>2. MainInv'
  BY <1>1 DEF Inv, MainInv, Ended
<1>3. PauseHolds' /\ WipeKept'
  BY WipeStays DEF Inv, PauseHolds
<1> QED
  BY <1>1, <1>2, <1>3 DEF Inv

LEMMA FaultsStay ==
  ASSUME faults \in 0..MaxFaults, Ok \/ Fault
  PROVE  faults' \in 0..MaxFaults
BY FaultsBounded DEF Ok, Fault

LEMMA InitInv ==
  ASSUME Init
  PROVE  Inv
<1>1. "RED" \in MenuTypes
  BY DEF MenuTypes
<1>2. \A f \in Files : info[f] = Zeroed("RED")
  BY DEF Init
<1>3. \A f \in Files : WellFormed(info[f], f) /\ info[f].type = "YELLOW"
  BY <1>1, <1>2, ZeroedOK
<1>4. info \in [Files -> Record]
  BY <1>2, <1>3 DEF Init, WellFormed
<1>5. /\ run = "off" /\ screen = "FASTBOOT" /\ cb = "null" /\ notice = {}
      /\ lastKey = "none" /\ waited = 0 /\ refresh = FALSE /\ hist = Fresh
  BY DEF Init
<1>6. MenuInv /\ TimerInv
  <2>1. MenuInv
    BY <1>3, <1>4, <1>5 DEF MenuInv, Files
  <2>2. 0 \in 0..(PauseTime + 1)
    BY TimesOrdered
  <2>3. TimerInv
    BY <1>5, <2>2, Zenon DEF TimerInv, Keys
  <2> QED
    BY <2>1, <2>3
<1>7. ScreenInv /\ PauseInv /\ ConfirmInv /\ PauseHolds
  BY <1>5 DEF ScreenInv, PauseInv, ConfirmInv, PauseHolds, Fresh
<1>8. OfferInv
  BY <1>3, <1>5 DEF OfferInv, LockMenus, Files
<1>9. dev.unlocked /\ dev.critical
      /\ dev \in [unlocked : BOOLEAN, critical : BOOLEAN, enforcing : BOOLEAN]
  BY DEF Init, DeviceInfoInit
<1>10. WipeKept
  BY <1>5, <1>9 DEF WipeKept, Fresh
<1>11. MainInv
  <2>1. hist \in History
    BY <1>5 DEF History, Fresh
  <2>2. build \in Builds /\ faults \in 0..MaxFaults
        /\ boot \in [ok : BOOLEAN, state : {"GREEN", "ORANGE", "YELLOW", "RED"}]
        /\ misc \in [command : {"none", "recovery", "ffbm"}, wipe : BOOLEAN]
    <3>1. 0 \in 0..MaxFaults
      BY FaultsBounded
    <3> QED
      BY <3>1 DEF Init
  <2> QED
    BY <1>5, <1>9, <2>1, <2>2 DEF MainInv, MenuTypes, Ended
<1> QED
  BY <1>6, <1>7, <1>8, <1>10, <1>11 DEF Inv

LEMMA StartInv ==
  ASSUME Inv, Start
  PROVE  Inv'
<1>0. "RED" \in MenuTypes /\ "FASTBOOT" \in MenuTypes
  BY DEF MenuTypes
<1>1. run' = "fastboot" /\ screen' = "FASTBOOT" /\ notice' = {}
      /\ lastKey' = "none" /\ waited' = 0 /\ refresh' = FALSE
      /\ boot' = [ok |-> TRUE, state |-> "GREEN"] /\ build' = build
  BY DEF Start
<1>2. /\ info'["fastboot"] \in {Shown(Zeroed("FASTBOOT"), "FASTBOOT"), Zeroed("RED")}
      /\ MenuFlag => info'["fastboot"] = Shown(Zeroed("FASTBOOT"), "FASTBOOT")
      /\ info'["unlock"] = Zeroed("RED") /\ info'["vb"] = Zeroed("RED")
      /\ info' = [f \in Files |-> info'[f]]
  BY DEF Start, Files
<1>3. /\ WellFormed(Shown(Zeroed("FASTBOOT"), "FASTBOOT"), "fastboot")
      /\ Shown(Zeroed("FASTBOOT"), "FASTBOOT").type = "FASTBOOT"
      /\ Shown(Zeroed("FASTBOOT"), "FASTBOOT").msg = "FASTBOOT"
  BY <1>0, ZeroedOK, ShownOK, MenuFacts
<1>4. \A f \in Files : WellFormed(Zeroed("RED"), f)
  BY <1>0, ZeroedOK
<1>5. \A f \in Files : WellFormed(info'[f], f)
  BY <1>2, <1>3, <1>4 DEF Files
<1>6. info' \in [Files -> Record]
  BY <1>2, <1>5 DEF WellFormed
<1>7. cb' \in {"null", "fastboot"} /\ (cb' = "fastboot" => MenuFlag)
      /\ faults' \in 0..MaxFaults
  BY FaultsStay DEF Start, Inv, MainInv
<1>8. info'["unlock"].type = "YELLOW"
  BY <1>0, <1>2, ZeroedOK
<1>9. MenuInv' /\ TimerInv'
  <2>1. MenuInv'
    BY <1>1, <1>2, <1>3, <1>5, <1>6, <1>7 DEF MenuInv, Files
  <2>2. TimerInv'
    BY <1>1, TimerStarts
  <2> QED
    BY <2>1, <2>2
<1>10. ScreenInv' /\ PauseInv' /\ ConfirmInv' /\ OfferInv'
  BY <1>1, <1>7, <1>8 DEF ScreenInv, PauseInv, ConfirmInv, OfferInv, LockMenus
<1>11. dev'.unlocked /\ dev'.critical
       /\ dev' \in [unlocked : BOOLEAN, critical : BOOLEAN, enforcing : BOOLEAN]
  BY DEF Start, DeviceInfoInit
<1>12. /\ hist' \in History /\ hist'.paused = FALSE
       /\ hist'.changed = (hist.changed /\ run # "linux")
       /\ hist'.lost = (hist.lost /\ run # "linux")
  BY DEF Start, Fresh, History, Inv, MainInv
<1>13. /\ misc' \in [command : {"none", "recovery", "ffbm"}, wipe : BOOLEAN]
       /\ run # "linux" => misc' = misc
  <2>1. misc' \in {misc} \cup IF run = "linux"
                              THEN {[command |-> "none", wipe |-> FALSE]} ELSE {}
    BY DEF Start
  <2>2. misc \in [command : {"none", "recovery", "ffbm"}, wipe : BOOLEAN]
    BY DEF Inv, MainInv
  <2>3. CASE misc' = misc
    BY <2>2, <2>3
  <2>4. CASE run = "linux" /\ misc' = [command |-> "none", wipe |-> FALSE]
    BY <2>4
  <2> QED
    BY <2>1, <2>3, <2>4
<1>14. PauseHolds' /\ WipeKept'
  BY <1>11, <1>12, <1>13 DEF PauseHolds, WipeKept, Inv, MainInv
<1>15. MainInv'
  BY <1>1, <1>7, <1>11, <1>12, <1>13 DEF MainInv, MenuTypes, Inv
<1> QED
  BY <1>9, <1>10, <1>14, <1>15 DEF Inv

-----------------------------------------------------------------------------
(* The key handler                                                         *)

\* Key detection ends: what stays of the records is the one being drawn.
LEMMA ExitOK ==
  ASSUME Inv, Interrupts, ExitMenuKeysDetection, UNCHANGED <<build, boot, dev>>
  PROVE  /\ MenuInv' /\ ScreenInv' /\ PauseInv' /\ OfferInv' /\ ConfirmInv'
         /\ run' = run /\ screen' = screen
<1> DEFINE files == IF run = "draw" THEN {File(screen)} ELSE {}
<1>1. run' = run /\ screen' = screen /\ notice' = notice /\ cb' = "null"
      /\ info' = Kept(info, files)
  BY DEF ExitMenuKeysDetection
<1>2. /\ info' \in [Files -> Record]
      /\ \A f \in Files : /\ WellFormed(info'[f], f)
                          /\ f \in files => info'[f] = info[f]
                          /\ f \notin files => info'[f] = Zeroed("RED")
  BY <1>1, KeptOK DEF Inv, MenuInv
<1>3. run = "draw" /\ screen \in LockMenus => info'["unlock"] = info["unlock"]
  BY <1>2, MenuFacts DEF Inv, MainInv, Files
<1>4. info'["unlock"].type \in {info["unlock"].type, "YELLOW"}
  <2>1. Zeroed("RED").type = "YELLOW"
    BY ZeroedOK DEF MenuTypes
  <2> QED
    BY <1>2, <2>1 DEF Files
<1>5. MenuInv'
  BY <1>1, <1>2, <1>3 DEF Inv, MenuInv, Files
<1>6. OfferInv'
  BY <1>1, <1>4 DEF Inv, OfferInv, LockMenus
<1> QED
  BY <1>1, <1>5, <1>6 DEF Inv, ScreenInv, PauseInv, ConfirmInv

LEMMA ExitedOK ==
  ASSUME MainInv, NEW why \in {"timeout", "error", "key"}
  PROVE  /\ Exited(why) \in History
         /\ Exited(why).changed = hist.changed /\ Exited(why).lost = hist.lost
         /\ Exited(why).paused = hist.paused
         /\ Exited(why).why = IF cb = "vb" THEN why ELSE hist.why
BY DEF MainInv, Exited, History

LEMMA KeyTimeoutInv ==
  ASSUME Inv, KeyTimeout
  PROVE  Inv'
<1>1. /\ Interrupts /\ hist' = Exited("timeout")
      /\ UNCHANGED <<build, boot, dev, misc, faults>>
      /\ cb \in Files /\ run \notin Ended
  BY DEF KeyTimeout, Interrupts, Ended
<1>2. /\ hist' \in History
      /\ hist'.changed = hist.changed /\ hist'.lost = hist.lost
      /\ hist'.paused = hist.paused
      /\ hist'.why = IF cb = "vb" THEN "timeout" ELSE hist.why
  BY <1>1, ExitedOK DEF Inv
<1>3. WipeKept'
  BY <1>1, <1>2, WipeStays DEF Inv
<1>4. CASE ShutsDown(info[cb])
  <2>1. Halt("off")
    BY <1>4 DEF KeyTimeout
  <2>2. /\ MenuInv' /\ TimerInv' /\ ScreenInv' /\ PauseInv' /\ OfferInv' /\ ConfirmInv'
        /\ run' = "off" /\ screen' \in MenuTypes
    BY <2>1, HaltOK DEF Ended
  <2>3. MainInv'
    BY <1>1, <1>2, <2>2 DEF Inv, MainInv, Ended
  <2>4. PauseHolds'
    BY <2>2 DEF PauseHolds
  <2> QED
    BY <1>3, <2>2, <2>3, <2>4 DEF Inv
<1>5. CASE ~ShutsDown(info[cb])
  <2>1. ExitMenuKeysDetection /\ UNCHANGED <<lastKey, waited, refresh>>
    BY <1>5 DEF KeyTimeout
  <2>2. /\ MenuInv' /\ ScreenInv' /\ PauseInv' /\ OfferInv' /\ ConfirmInv'
        /\ run' = run /\ screen' = screen
    BY <1>1, <2>1, ExitOK
  <2>3. TimerInv'
    BY <2>1 DEF Inv, TimerInv, ExitMenuKeysDetection
  <2>4. MainInv'
    BY <1>1, <1>2, <2>2 DEF Inv, MainInv
  <2>5. cb = "vb" => ~hist.paused
    BY <1>5 DEF Inv, PauseInv, ShutsDown
  <2>6. PauseHolds'
    BY <1>1, <1>2, <2>2, <2>5 DEF Inv, PauseHolds, Ended
  <2> QED
    BY <1>3, <2>2, <2>3, <2>4, <2>6 DEF Inv
<1> QED
  BY <1>4, <1>5

LEMMA KeyErrorInv ==
  ASSUME Inv, KeyError
  PROVE  Inv'
<1>1. /\ Interrupts /\ Fault /\ ExitMenuKeysDetection /\ hist' = Exited("error")
      /\ UNCHANGED <<build, boot, dev, misc, lastKey, waited, refresh>>
      /\ run \notin Ended
  BY DEF KeyError, Interrupts, Ended
<1>2. /\ hist' \in History
      /\ hist'.changed = hist.changed /\ hist'.lost = hist.lost
      /\ hist'.paused = hist.paused
      /\ hist'.why = IF cb = "vb" THEN "error" ELSE hist.why
  BY <1>1, ExitedOK DEF Inv
<1>3. /\ MenuInv' /\ ScreenInv' /\ PauseInv' /\ OfferInv' /\ ConfirmInv'
      /\ run' = run /\ screen' = screen
  BY <1>1, ExitOK
<1>4. MainInv'
  BY <1>1, <1>2, <1>3, FaultsStay DEF Inv, MainInv
<1>5. TimerInv'
  BY <1>1 DEF Inv, TimerInv, ExitMenuKeysDetection
<1>6. PauseHolds' /\ WipeKept'
  BY <1>1, <1>2, <1>3, WipeStays DEF Inv, PauseHolds, Ended
<1> QED
  BY <1>3, <1>4, <1>5, <1>6 DEF Inv

LEMMA KeyContinueInv ==
  ASSUME Inv, NEW cur \in Keys, KeyContinue(cur)
  PROVE  Inv'
<1>1. /\ Interrupts /\ ExitMenuKeysDetection /\ hist' = Exited("key") /\ lastKey' = cur
      /\ UNCHANGED <<build, boot, dev, misc, faults, waited, refresh>>
      /\ run \notin Ended
  BY DEF KeyContinue, ReadsKey, Interrupts, Ended
<1>2. /\ hist' \in History
      /\ hist'.changed = hist.changed /\ hist'.lost = hist.lost
      /\ hist'.paused = hist.paused
      /\ hist'.why = IF cb = "vb" THEN "key" ELSE hist.why
  BY <1>1, ExitedOK DEF Inv
<1>3. /\ MenuInv' /\ ScreenInv' /\ PauseInv' /\ OfferInv' /\ ConfirmInv'
      /\ run' = run /\ screen' = screen
  BY <1>1, ExitOK
<1>4. MainInv'
  BY <1>1, <1>2, <1>3 DEF Inv, MainInv
<1>5. TimerInv'
  BY <1>1 DEF Inv, TimerInv, ExitMenuKeysDetection
<1>6. PauseHolds' /\ WipeKept'
  BY <1>1, <1>2, <1>3, WipeStays DEF Inv, PauseHolds, Ended
<1> QED
  BY <1>3, <1>4, <1>5, <1>6 DEF Inv

LEMMA SeenOK ==
  ASSUME MainInv, NEW cur \in Keys
  PROVE  /\ Seen(cur) \in History
         /\ Seen(cur).pressed = (hist.pressed \/ (cur = "power" /\ cb = "unlock"))
         /\ Seen(cur).moved = hist.moved /\ Seen(cur).asked = hist.asked
         /\ Seen(cur).changed = hist.changed /\ Seen(cur).lost = hist.lost
         /\ Seen(cur).paused = hist.paused /\ Seen(cur).why = hist.why
BY DEF MainInv, Seen, History

LEMMA KeyIdleInv ==
  ASSUME Inv, NEW cur \in Keys, KeyIdle(cur)
  PROVE  Inv'
<1>1. /\ lastKey' = cur /\ hist' = Seen(cur) /\ run \notin Ended
      /\ UNCHANGED <<build, run, screen, boot, dev, misc, cb, info, notice, waited,
                     refresh, faults>>
  BY DEF KeyIdle, ReadsKey, Interrupts, Ended
<1>2. /\ hist' \in History
      /\ hist'.pressed = (hist.pressed \/ (cur = "power" /\ cb = "unlock"))
      /\ hist'.moved = hist.moved /\ hist'.asked = hist.asked
      /\ hist'.changed = hist.changed /\ hist'.lost = hist.lost
      /\ hist'.paused = hist.paused /\ hist'.why = hist.why
  BY <1>1, SeenOK DEF Inv
<1>3. MainInv' /\ MenuInv' /\ TimerInv'
  BY <1>1, <1>2 DEF Inv, MainInv, MenuInv, TimerInv
<1>4. ScreenInv' /\ PauseInv' /\ OfferInv'
  BY <1>1, <1>2 DEF Inv, ScreenInv, PauseInv, OfferInv
<1>5. ConfirmInv'
  BY <1>1, <1>2 DEF Inv, ConfirmInv
<1>6. PauseHolds' /\ WipeKept'
  BY <1>1, <1>2, WipeStays DEF Inv, PauseHolds
<1> QED
  BY <1>3, <1>4, <1>5, <1>6 DEF Inv

LEMMA ElapseInv ==
  ASSUME Inv, Elapse
  PROVE  Inv'
<1>1. /\ waited' = waited + 1 /\ ~TimedOut(info[cb]) /\ info[cb].timeout > 0 /\ cb \in Files
      /\ UNCHANGED <<build, run, screen, boot, dev, misc, cb, info, notice, lastKey,
                     refresh, faults, hist>>
  BY DEF Elapse, Interrupts
<1>2. info[cb].timeout \in {0, WarnTime, EioTime, PauseTime}
  BY <1>1 DEF Inv, MenuInv, Record
<1>3. waited' \in 0..(PauseTime + 1)
  BY <1>1, <1>2, TimesOrdered DEF TimedOut, Inv, TimerInv
<1>4. MainInv' /\ MenuInv' /\ TimerInv'
  BY <1>1, <1>3 DEF Inv, MainInv, MenuInv, TimerInv
<1>5. ScreenInv' /\ PauseInv' /\ OfferInv' /\ ConfirmInv' /\ PauseHolds' /\ WipeKept'
  BY <1>1 DEF Inv, ScreenInv, PauseInv, OfferInv, ConfirmInv, PauseHolds, WipeKept
<1> QED
  BY <1>4, <1>5 DEF Inv

\* The volume functions move the index within the options.
LEMMA VolumeOK ==
  ASSUME NEW f, NEW r, WellFormed(r, f), HasVolume(r.type),
         NEW q \in {MenuVolumeUpFunc(r), MenuVolumeDownFunc(r)}
  PROVE  /\ WellFormed(q, f) /\ q.type = r.type /\ q.num = r.num
         /\ q.msg = r.msg /\ q.timeout = r.timeout
<1> DEFINE up == IF r.index = 0 \/ r.index > r.num - 1 THEN r.num - 1 ELSE r.index - 1
           down == IF r.index >= r.num - 1 THEN 0 ELSE r.index + 1
<1>1. r \in Record /\ r.num \in {2, 6}
  <2>1. r \in Record
    BY DEF WellFormed
  <2>2. r.type \in LockMenus \cup {"FASTBOOT"} /\ r.type \in MenuTypes
    BY <2>1 DEF HasVolume, Record
  <2> QED
    BY <2>1, <2>2, MenuFacts DEF WellFormed
<1>2. up \in 0..6 /\ up <= r.num /\ down \in 0..6 /\ down <= r.num
  BY <1>1 DEF Record, WellFormed
<1>3. q \in {[r EXCEPT !.index = up], [r EXCEPT !.index = down]}
  BY DEF MenuVolumeUpFunc, MenuVolumeDownFunc
<1> HIDE DEF up, down
<1> QED
  BY <1>1, <1>2, <1>3 DEF WellFormed, Record

LEMMA KeyVolumeInv ==
  ASSUME Inv, NEW cur \in Keys, KeyVolume(cur)
  PROVE  Inv'
<1>1. /\ lastKey' = cur /\ run \notin Ended /\ cb \in Files
      /\ hist' = [hist EXCEPT !.moved = cb = "unlock", !.pressed = FALSE]
      /\ HasVolume(info[cb].type)
      /\ UNCHANGED <<build, run, screen, boot, dev, misc, cb, notice, waited,
                     refresh, faults>>
  BY DEF KeyVolume, ReadsKey, Interrupts, Ended
<1>2. PICK q \in {MenuVolumeUpFunc(info[cb]), MenuVolumeDownFunc(info[cb])} :
        info' = [info EXCEPT ![cb] = q]
  BY DEF KeyVolume
<1>3. cur # "power"
  BY DEF KeyVolume, ActsFor
<1>4. /\ hist' \in History /\ hist'.moved = (cb = "unlock")
      /\ hist'.asked = hist.asked
      /\ hist'.changed = hist.changed /\ hist'.lost = hist.lost
      /\ hist'.paused = hist.paused /\ hist'.why = hist.why
  BY <1>1 DEF Inv, MainInv, History
<1>5. /\ WellFormed(q, cb) /\ q.type = info[cb].type /\ q.num = info[cb].num
      /\ q.msg = info[cb].msg
  BY <1>1, VolumeOK DEF Inv, MenuInv
<1>6. /\ info' \in [Files -> Record]
      /\ \A f \in Files : /\ WellFormed(info'[f], f)
                          /\ info'[f].type = info[f].type /\ info'[f].msg = info[f].msg
  BY <1>1, <1>2, <1>5 DEF Inv, MenuInv, WellFormed
<1>7. cb # "vb"
  BY <1>1, MenuFacts DEF Inv, PauseInv, HasVolume, Screened, Warnings, LockMenus
<1>8. MainInv'
  BY <1>1, <1>4 DEF Inv, MainInv
<1>9. MenuInv' /\ TimerInv'
  BY <1>1, <1>6 DEF Inv, MenuInv, TimerInv, Files
<1>10. ScreenInv' /\ PauseInv' /\ OfferInv'
  BY <1>1, <1>6, <1>7 DEF Inv, ScreenInv, PauseInv, OfferInv, Files
<1>11. ConfirmInv'
  BY <1>1, <1>3, <1>4, <1>6 DEF Inv, ConfirmInv, Files
<1>12. PauseHolds' /\ WipeKept'
  BY <1>1, <1>4, WipeStays DEF Inv, PauseHolds
<1> QED
  BY <1>8, <1>9, <1>10, <1>11, <1>12 DEF Inv

LEMMA KeyPauseInv ==
  ASSUME Inv, NEW cur \in Keys, KeyPause(cur)
  PROVE  Inv'
<1>1. /\ lastKey' = cur /\ run \notin Ended /\ cb \in Files
      /\ info[cb].type \in Warnings
      /\ refresh' = TRUE /\ waited' = 0
      /\ UNCHANGED <<build, run, screen, boot, dev, misc, cb>>
  BY DEF KeyPause, ReadsKey, Interrupts, Ended
<1>2. "power" \in Keys
  BY DEF Keys
<1>3. /\ Seen("power") \in History
      /\ Seen("power").moved = hist.moved /\ Seen("power").asked = hist.asked
      /\ Seen("power").changed = hist.changed /\ Seen("power").lost = hist.lost
      /\ Seen("power").paused = hist.paused /\ Seen("power").why = hist.why
      /\ cb = "unlock" => Seen("power").pressed
  BY <1>2, SeenOK DEF Inv
<1>4. faults' \in 0..MaxFaults
  BY FaultsStay DEF KeyPause, Inv, MainInv
<1>5. /\ hist' \in History
      /\ hist'.moved = hist.moved /\ hist'.asked = hist.asked
      /\ hist'.changed = hist.changed /\ hist'.lost = hist.lost
      /\ hist'.why = hist.why
      /\ cb = "unlock" => hist'.pressed
      /\ hist'.paused => hist.paused \/ (cb = "vb" /\ info["vb"].msg \in notice')
      /\ cb # "vb" => ~hist'.paused \/ hist.paused
  BY <1>3 DEF KeyPause, History, PausedAction
<1>6. /\ info' \in [Files -> Record]
      /\ \A f \in Files :
           /\ WellFormed(info'[f], f)
           /\ info'[f].type = info[f].type /\ info'[f].msg = info[f].msg
           /\ info'[f].index = info[f].index /\ info'[f].num = info[f].num
  <2>1. info' = info \/ info' = [info EXCEPT ![cb].timeout = PauseTime]
    BY DEF KeyPause
  <2>2. CASE info' = info
    BY <2>2 DEF Inv, MenuInv
  <2>3. CASE info' = [info EXCEPT ![cb].timeout = PauseTime]
    BY <1>1, <2>3 DEF Inv, MenuInv, WellFormed, Record
  <2> QED
    BY <2>1, <2>2, <2>3
<1>7. /\ info[cb].msg \in {"YELLOW", "ORANGE", "unlockMsg", "lockMsg"}
      /\ cb = "vb" => screen \in Warnings
  <2>1. cb # "fastboot"
    BY <1>1 DEF Inv, MenuInv, Warnings
  <2>2. cb = "vb" => info[cb].msg = screen /\ screen \in Warnings
    BY <1>1 DEF Inv, PauseInv
  <2> QED
    BY <1>1, <2>1, <2>2 DEF Inv, MenuInv, Warnings, Files
<1>8. /\ notice \subseteq notice'
      /\ notice' \subseteq {"YELLOW", "ORANGE", "unlockMsg", "lockMsg"}
  BY <1>7 DEF KeyPause, PausedAction, Inv, TimerInv
<1>9. MainInv'
  BY <1>1, <1>4, <1>5 DEF Inv, MainInv
<1>10. MenuInv'
  BY <1>1, <1>6 DEF Inv, MenuInv, Files
<1>11. TimerInv'
  <2>1. 0 \in 0..(PauseTime + 1)
    BY TimesOrdered
  <2> QED
    BY <1>1, <1>8, <2>1 DEF TimerInv
<1>12. ScreenInv' /\ OfferInv'
  BY <1>1, <1>6 DEF Inv, ScreenInv, OfferInv, Files
<1>13. PauseInv'
  BY <1>1, <1>5, <1>6, <1>7, <1>8 DEF Inv, PauseInv, Files
<1>14. ConfirmInv'
  BY <1>1, <1>5, <1>6 DEF Inv, ConfirmInv, Files
<1>15. WipeKept'
  BY <1>1, <1>5, WipeStays DEF Inv
<1>16. PauseHolds'
  BY <1>1, <1>5 DEF Inv, PauseHolds, PauseInv, Ended
<1> QED
  BY <1>9, <1>10, <1>11, <1>12, <1>13, <1>14, <1>15, <1>16 DEF Inv

-----------------------------------------------------------------------------
(* The locks                                                               *)

\* A lock that does not have the value yet takes it or stays; when it takes it,
\* a wipe is asked for or noted as lost.
LEMMA LockOK ==
  ASSUME MainInv, WipeKept, NEW menu \in LockMenus,
         dev[LockOf(menu)] # ValueOf(menu), LockSet(menu) \/ LockFails(menu)
  PROVE  /\ dev' \in [unlocked : BOOLEAN, critical : BOOLEAN, enforcing : BOOLEAN]
         /\ misc' \in [command : {"none", "recovery", "ffbm"}, wipe : BOOLEAN]
         /\ hist' \in History /\ faults' \in 0..MaxFaults
         /\ hist'.paused = hist.paused /\ hist'.why = hist.why
         /\ dev' \in {dev, SetLock(menu, ValueOf(menu))}
         /\ WipeKept'
<1>1. /\ dev \in [unlocked : BOOLEAN, critical : BOOLEAN, enforcing : BOOLEAN]
      /\ misc \in [command : {"none", "recovery", "ffbm"}, wipe : BOOLEAN]
      /\ hist \in History
  BY DEF MainInv
<1>2. LockOf(menu) \in {"unlocked", "critical"} /\ ValueOf(menu) \in BOOLEAN
  BY DEF LockOf, ValueOf
<1>3. faults' \in 0..MaxFaults
  BY FaultsStay DEF LockSet, LockFails, MainInv
<1>4. /\ SetLock(menu, ValueOf(menu))
           \in [unlocked : BOOLEAN, critical : BOOLEAN, enforcing : BOOLEAN]
      /\ LockRolledBack(menu) = dev
  <2>1. dev[LockOf(menu)] \in BOOLEAN
    BY <1>1, <1>2
  <2>2. dev[LockOf(menu)] = ~ValueOf(menu)
    BY <1>2, <2>1
  <2>3. LockRolledBack(menu) = [dev EXCEPT ![LockOf(menu)] = dev[LockOf(menu)]]
    BY <2>2 DEF LockRolledBack, SetLock
  <2>4. LockRolledBack(menu) = dev
    BY <1>1, <1>2, <2>3
  <2>5. SetLock(menu, ValueOf(menu))
           \in [unlocked : BOOLEAN, critical : BOOLEAN, enforcing : BOOLEAN]
    BY <1>1, <1>2 DEF SetLock
  <2> QED
    BY <2>4, <2>5
<1>5. CASE LockSet(menu)
  <2>1. /\ dev' = SetLock(menu, ValueOf(menu))
        /\ misc' = [command |-> "none", wipe |-> TRUE]
        /\ hist' = [hist EXCEPT !.changed = TRUE, !.lost = FALSE]
    BY <1>5 DEF LockSet
  <2>2. hist' \in History /\ hist'.paused = hist.paused /\ hist'.why = hist.why
    BY <1>1, <2>1 DEF History
  <2>3. WipeKept'
    BY <2>1 DEF WipeKept
  <2> QED
    BY <1>3, <1>4, <2>1, <2>2, <2>3
<1>6. CASE LockFails(menu) /\ dev' = LockRolledBack(menu) /\ UNCHANGED hist
  <2>1. misc' = misc
    BY <1>6 DEF LockFails
  <2>2. WipeKept'
    BY <1>4, <1>6, <2>1 DEF WipeKept
  <2> QED
    BY <1>1, <1>3, <1>4, <1>6, <2>1, <2>2
<1>7. CASE /\ LockFails(menu) /\ dev' = SetLock(menu, ValueOf(menu))
           /\ hist' = [hist EXCEPT !.changed = TRUE, !.lost = TRUE]
  <2>1. misc' = misc
    BY <1>7 DEF LockFails
  <2>2. hist' \in History /\ hist'.paused = hist.paused /\ hist'.why = hist.why
        /\ hist'.lost
    BY <1>1, <1>7 DEF History
  <2>3. WipeKept'
    BY <2>2 DEF WipeKept
  <2> QED
    BY <1>1, <1>3, <1>4, <1>7, <2>1, <2>2, <2>3
<1> QED
  BY <1>5, <1>6, <1>7 DEF LockFails

\* What writes a command to misc keeps the wipe.
LEMMA CommandOK ==
  ASSUME MainInv, NEW command \in {"recovery", "ffbm"}, misc' = WithCommand(command)
  PROVE  /\ misc' \in [command : {"none", "recovery", "ffbm"}, wipe : BOOLEAN]
         /\ misc'.wipe = misc.wipe
BY DEF MainInv, WithCommand

\* The menu record of a selection belongs to a lock menu only in its own file.
LEMMA SelectedLock ==
  ASSUME Inv, cb \in Files, info[cb].type \in LockMenus
  PROVE  /\ cb = "unlock" /\ build.display = "menu"
         /\ dev[LockOf(info[cb].type)] # ValueOf(info[cb].type)
<1>1. File(info[cb].type) = "unlock" /\ info[cb].type # "YELLOW"
  BY MenuFacts DEF MenuTypes, LockMenus
<1>2. cb = "unlock"
  BY <1>1 DEF Inv, MenuInv, WellFormed
<1> QED
  BY <1>2 DEF Inv, OfferInv

LEMMA KeySelectInv ==
  ASSUME Inv, NEW cur \in Keys, KeySelect(cur)
  PROVE  Inv'
<1> DEFINE r == info[cb]
           reason == MenuOptions(r.type)[r.index + 1]
           where == IF reason = "POWEROFF" THEN "off" ELSE "reset"
<1>1. /\ cb \in Files /\ run \notin Ended /\ Halt(where)
      /\ build' = build /\ boot' = boot
  BY DEF KeySelect, ReadsKey, Interrupts, Ended
<1>2. \/ r.type \in LockMenus /\ (LockSet(r.type) \/ LockFails(r.type))
      \/ WriteCommand("ffbm") /\ UNCHANGED <<dev, hist>>
      \/ UNCHANGED <<dev, misc, faults, hist>>
  BY DEF KeySelect
<1>3. where \in {"off", "reset"}
  OBVIOUS
<1> HIDE DEF r, reason, where
<1>4. /\ MenuInv' /\ TimerInv' /\ ScreenInv' /\ PauseInv' /\ OfferInv' /\ ConfirmInv'
      /\ run' = where /\ screen' \in MenuTypes
  BY <1>1, <1>3, HaltOK DEF Ended
<1>5. /\ dev' \in [unlocked : BOOLEAN, critical : BOOLEAN, enforcing : BOOLEAN]
      /\ misc' \in [command : {"none", "recovery", "ffbm"}, wipe : BOOLEAN]
      /\ hist' \in History /\ faults' \in 0..MaxFaults
      /\ hist'.paused = hist.paused /\ hist'.why = hist.why /\ WipeKept'
  <2>1. CASE r.type \in LockMenus /\ (LockSet(r.type) \/ LockFails(r.type))
    <3>1. dev[LockOf(r.type)] # ValueOf(r.type)
      BY <1>1, <2>1, SelectedLock DEF r
    <3> QED
      BY <2>1, <3>1, LockOK DEF Inv
  <2>2. CASE WriteCommand("ffbm") /\ UNCHANGED <<dev, hist>>
    <3>1. CASE misc' = WithCommand("ffbm")
      BY <2>2, <3>1, CommandOK, FaultsStay DEF Inv, MainInv, WipeKept, WriteCommand
    <3>2. CASE misc' = misc
      BY <2>2, <3>2, WipeStays, FaultsStay DEF Inv, MainInv, WriteCommand
    <3> QED
      BY <2>2, <3>1, <3>2 DEF WriteCommand
  <2>3. CASE UNCHANGED <<dev, misc, faults, hist>>
    BY <2>3, WipeStays DEF Inv, MainInv
  <2> QED
    BY <1>2, <2>1, <2>2, <2>3
<1>6. MainInv'
  BY <1>1, <1>3, <1>4, <1>5 DEF Inv, MainInv, Ended
<1>7. PauseHolds'
  BY <1>1, <1>5 DEF Inv, PauseHolds, Ended
<1> QED
  BY <1>4, <1>5, <1>6, <1>7 DEF Inv

-----------------------------------------------------------------------------
(* The screens                                                             *)

\* A screen begins: an event of another menu may stay live meanwhile, and with
\* it that menu's record, but never the event of a screen.
LEMMA ShowOK ==
  ASSUME Inv, NEW menu \in MenuTypes \ {"FASTBOOT"}, Show(menu), cb # "vb",
         UNCHANGED <<build, dev, misc, faults, hist>>,
         run # "off",
         boot' \in [ok : BOOLEAN, state : {"GREEN", "ORANGE", "YELLOW", "RED"}],
         menu \in LockMenus => build.display = "menu" /\ dev[LockOf(menu)] # ValueOf(menu),
         build.avb = "AVB_2" /\ menu \in Screened => boot'.ok
  PROVE  Inv'
<1>1. /\ screen' = menu /\ UNCHANGED <<cb, notice, lastKey, waited, refresh>>
      /\ run' \in {"draw", "red", "delay"} /\ (run' = "draw" <=> MenuFlag)
      /\ run' = "delay" => menu # "RED"
  BY DEF Show
<1>2. run' = "delay" => menu \in Screened
  BY <1>1 DEF MenuFlag, MenuTypes, Screened
<1>3. File(menu) \in {"unlock", "vb"} /\ (menu \in LockMenus <=> File(menu) = "unlock")
  BY MenuFacts DEF MenuTypes, LockMenus, Warnings
<1>4. /\ info' \in [Files -> Record]
      /\ \A f \in Files : WellFormed(info'[f], f)
      /\ cb = "fastboot" => info'["fastboot"] = info["fastboot"]
      /\ cb = "unlock" /\ menu \notin LockMenus => info'["unlock"] = info["unlock"]
      /\ MenuFlag /\ menu \in LockMenus =>
           /\ info'["unlock"].msg \in {"unlockMsg", "lockMsg"}
           /\ info'["unlock"].type = "YELLOW"
      /\ info'["unlock"].type = "YELLOW" \/ info'["unlock"] = info["unlock"]
  <2>1. CASE MenuFlag
    <3> DEFINE k == Kept(info, {cb})
    <3>1. info' = [k EXCEPT ![File(menu)] = Zeroed(menu)]
      BY <2>1 DEF Show
    <3>2. /\ k \in [Files -> Record]
          /\ \A f \in Files : /\ WellFormed(k[f], f)
                              /\ f \in {cb} => k[f] = info[f]
                              /\ f \notin {cb} => k[f] = Zeroed("RED")
      BY KeptOK DEF Inv, MenuInv
    <3>3. /\ \A f \in Files : WellFormed(Zeroed(menu), f)
          /\ Zeroed(menu).type = "YELLOW"
          /\ menu \in LockMenus => Zeroed(menu).msg \in {"unlockMsg", "lockMsg"}
      BY ZeroedOK
    <3>4. Zeroed("RED").type = "YELLOW"
      BY ZeroedOK DEF MenuTypes
    <3> HIDE DEF k
    <3>5. \A f \in Files : info'[f] = IF f = File(menu) THEN Zeroed(menu) ELSE k[f]
      BY <3>1, <3>2
    <3>6. info' \in [Files -> Record]
      BY <3>1, <3>2, <3>3 DEF WellFormed
    <3> QED
      BY <1>3, <3>2, <3>3, <3>4, <3>5, <3>6 DEF Files
  <2>2. CASE ~MenuFlag
    <3>1. info' = info
      BY <2>2 DEF Show
    <3> QED
      BY <2>2, <3>1 DEF Inv, MenuInv
  <2> QED
    BY <2>1, <2>2
<1>5. MenuInv'
  <2>1. cb = "unlock" => info'["unlock"].msg \in {"unlockMsg", "lockMsg"}
    BY <1>1, <1>4 DEF Inv, MenuInv, MenuFlag
  <2>2. cb = "fastboot" => info'["fastboot"].type = "FASTBOOT" /\ info'["fastboot"].msg # "null"
    BY <1>4 DEF Inv, MenuInv, Files
  <2>3. run' = "draw" /\ menu \in LockMenus => info'["unlock"].msg \in {"unlockMsg", "lockMsg"}
    BY <1>1, <1>4
  <2> QED
    BY <1>1, <1>4, <2>1, <2>2, <2>3 DEF MenuInv, Files, Inv
<1>6. MainInv' /\ TimerInv'
  BY <1>1 DEF Inv, MainInv, TimerInv, Ended
<1>7. ScreenInv'
  BY <1>1, <1>2 DEF ScreenInv
<1>8. PauseInv' /\ PauseHolds' /\ WipeKept'
  BY <1>1, WipeStays DEF Inv, PauseInv, PauseHolds
<1>9. OfferInv'
  BY <1>1, <1>4 DEF Inv, OfferInv, LockMenus
<1>10. ConfirmInv'
  BY <1>1, <1>4 DEF Inv, ConfirmInv, LockMenus
<1> QED
  BY <1>5, <1>6, <1>7, <1>8, <1>9, <1>10 DEF Inv

\* After the screens, an image that AVB 2 authenticated.
LEMMA MilestoneOK ==
  ASSUME Inv, Milestone, cb # "vb", run # "off",
         UNCHANGED <<build, dev, misc, faults, hist>>,
         boot' \in [ok : BOOLEAN, state : {"GREEN", "ORANGE", "YELLOW", "RED"}],
         build.avb = "AVB_2" => boot'.ok
  PROVE  Inv'
<1>1. CASE Halt("linux")
  <2>1. /\ MenuInv' /\ TimerInv' /\ ScreenInv' /\ PauseInv' /\ OfferInv' /\ ConfirmInv'
        /\ run' = "linux" /\ screen' \in MenuTypes
    BY <1>1, HaltOK DEF Ended
  <2>2. MainInv'
    BY <2>1 DEF Inv, MainInv, Ended
  <2>3. PauseHolds' /\ WipeKept'
    BY WipeStays DEF Inv, PauseHolds
  <2> QED
    BY <2>1, <2>2, <2>3 DEF Inv
<1>2. CASE run' = "fastboot" /\ screen' = "FASTBOOT" /\ UNCHANGED menuVars
  <2>1. MenuInv' /\ TimerInv' /\ ScreenInv' /\ PauseInv' /\ OfferInv' /\ ConfirmInv'
    BY <1>2 DEF Inv, MenuInv, TimerInv, ScreenInv, PauseInv, OfferInv, ConfirmInv, menuVars
  <2>2. MainInv'
    BY <1>2 DEF Inv, MainInv, MenuTypes
  <2>3. PauseHolds' /\ WipeKept'
    BY WipeStays DEF Inv, PauseHolds
  <2> QED
    BY <2>1, <2>2, <2>3 DEF Inv
<1> QED
  BY <1>1, <1>2 DEF Milestone

LEMMA ProceedInv ==
  ASSUME Inv, Proceed
  PROVE  Inv'
<1>1. /\ run \in {"wait", "delay"} /\ cb # "vb" /\ screen \in Screened
      /\ UNCHANGED <<build, boot, dev, misc, faults, hist>>
      /\ Show("EIO") \/ Milestone
  BY DEF Proceed, Inv, PauseInv, ScreenInv
<1>2. boot \in [ok : BOOLEAN, state : {"GREEN", "ORANGE", "YELLOW", "RED"}]
      /\ (build.avb = "AVB_2" => boot.ok)
  BY <1>1 DEF Inv, MainInv, ScreenInv
<1>3. "EIO" \in MenuTypes \ {"FASTBOOT"} /\ "EIO" \notin LockMenus
  BY DEF MenuTypes, LockMenus
<1> QED
  BY <1>1, <1>2, <1>3, ShowOK, MilestoneOK

\* The verdicts of AVB 2: an image that failed is red.
LEMMA VerdictFacts ==
  ASSUME NEW v \in Verdicts
  PROVE  /\ v \in [ok : BOOLEAN, state : {"GREEN", "ORANGE", "YELLOW", "RED"}]
         /\ build.avb = "AVB_2" /\ ~v.ok => v.state = "RED"
BY DEF Verdicts

LEMMA LoadImageAndAuthInv ==
  ASSUME Inv, LoadImageAndAuth
  PROVE  Inv'
<1>1. /\ run = "fastboot" /\ cb # "vb"
      /\ UNCHANGED <<build, dev, misc, faults, hist>>
  BY DEF LoadImageAndAuth, Inv, PauseInv
<1>2. CASE build.avb = "NO_AVB"
  <2>1. Milestone /\ boot' = [ok |-> TRUE, state |-> "GREEN"]
    BY <1>2 DEF LoadImageAndAuth
  <2> QED
    BY <1>1, <2>1, MilestoneOK
<1>3. CASE build.avb # "NO_AVB"
  <2>1. PICK v \in Verdicts : boot' = v /\ FirstScreen(v)
    BY <1>3 DEF LoadImageAndAuth
  <2>2. /\ v \in [ok : BOOLEAN, state : {"GREEN", "ORANGE", "YELLOW", "RED"}]
        /\ build.avb = "AVB_2" /\ ~v.ok => v.state = "RED"
    BY VerdictFacts
  <2>3. v.state \in MenuTypes \ {"FASTBOOT"} \/ v.state = "GREEN"
    BY <2>2 DEF MenuTypes, Warnings, LockMenus
  <2>4. v.state \notin LockMenus /\ "EIO" \notin LockMenus
        /\ "EIO" \in MenuTypes \ {"FASTBOOT"}
    BY <2>2 DEF MenuTypes, LockMenus
  <2>5. CASE v.state = "GREEN" \/ (v.state = "ORANGE" /\ FfbmBoot)
    <3>1. Show("EIO") \/ Milestone
      BY <2>1, <2>5 DEF FirstScreen
    <3>2. build.avb = "AVB_2" => v.ok
      BY <2>2, <2>5
    <3> QED
      BY <1>1, <2>1, <2>2, <2>4, <3>1, <3>2, ShowOK, MilestoneOK
  <2>6. CASE ~(v.state = "GREEN" \/ (v.state = "ORANGE" /\ FfbmBoot))
    <3>1. Show(v.state) /\ v.state \in MenuTypes \ {"FASTBOOT"}
      BY <2>1, <2>3, <2>6 DEF FirstScreen
    <3>2. build.avb = "AVB_2" /\ v.state \in Screened => v.ok
      BY <2>2 DEF Screened, Warnings
    <3> QED
      BY <1>1, <2>1, <2>2, <2>4, <3>1, <3>2, ShowOK
  <2> QED
    BY <2>5, <2>6
<1> QED
  BY <1>2, <1>3

\* A drawn menu takes the event over, except the red one.
LEMMA DrawDoneInv ==
  ASSUME Inv, DrawDone
  PROVE  Inv'
<1> DEFINE file == File(screen)
           shown == Shown(info[file], screen)
           j == [info EXCEPT ![file] = Shown(@, screen)]
<1>1. /\ run = "draw" /\ screen \in MenuTypes \ {"FASTBOOT"} /\ cb # "vb"
      /\ UNCHANGED <<build, boot, dev, misc, notice, lastKey, refresh>>
  BY DEF DrawDone, Inv, ScreenInv, PauseInv, MainInv
<1>2. file \in {"unlock", "vb"} /\ (screen \in LockMenus <=> file = "unlock")
  BY <1>1, MenuFacts DEF MenuTypes, LockMenus, Warnings
<1>3. /\ WellFormed(shown, file) /\ shown.type = screen /\ shown.msg = Msg(screen)
      /\ screen \in LockMenus => shown.index = shown.num
  BY <1>1, <1>2, ShownOK DEF Inv, MenuInv, Files
<1>4. /\ faults' \in 0..MaxFaults /\ waited' \in 0..(PauseTime + 1)
      /\ screen = "RED" => cb' = cb
      /\ screen # "RED" => cb' = file \/ cb' \in {"null", "dangling"}
  <2>1. 0 \in 0..(PauseTime + 1)
    BY TimesOrdered
  <2> QED
    BY <2>1, FaultsStay DEF DrawDone, MenuKeysDetectionInit, Inv, MainInv, TimerInv
<1>5. info' = Kept(j, {cb'})
  BY DEF DrawDone
<1>6. \A f \in Files : j[f] = IF f = file THEN shown ELSE info[f]
  BY <1>2 DEF Inv, MenuInv, Files
<1> HIDE DEF file, shown, j
<1>7. \A f \in Files : WellFormed(j[f], f)
  BY <1>3, <1>6 DEF Inv, MenuInv
<1>8. /\ info' \in [Files -> Record]
      /\ \A f \in Files : /\ WellFormed(info'[f], f)
                          /\ f = cb' => info'[f] = j[f]
                          /\ f # cb' => info'[f] = Zeroed("RED")
  BY <1>5, <1>7, KeptOK
<1>9. Zeroed("RED").type = "YELLOW"
  BY ZeroedOK DEF MenuTypes
<1>10. CASE screen \in LockMenus
  <2>1. /\ run' = "fastboot" /\ screen' = "FASTBOOT"
        /\ hist' = [hist EXCEPT !.moved = FALSE, !.pressed = FALSE, !.asked = screen]
    BY <1>10 DEF DrawDone
  <2>2. /\ hist' \in History /\ hist'.moved = FALSE /\ hist'.asked = screen
        /\ hist'.changed = hist.changed /\ hist'.lost = hist.lost
        /\ hist'.paused = hist.paused /\ hist'.why = hist.why
    BY <1>10, <2>1 DEF Inv, MainInv, History
  <2>3. cb' \in {"unlock", "null", "dangling"} /\ file = "unlock"
        /\ Msg(screen) \in {"unlockMsg", "lockMsg"}
    BY <1>1, <1>2, <1>4, <1>10, MenuFacts DEF LockMenus
  <2>4. cb' = "unlock" => info'["unlock"] = shown
    BY <1>6, <1>8, <2>3 DEF Files
  <2>5. cb' # "unlock" => info'["unlock"].type = "YELLOW"
    BY <1>8, <1>9 DEF Files
  <2>6. MenuInv'
    BY <1>3, <1>8, <2>1, <2>3, <2>4 DEF MenuInv, Files
  <2>7. MainInv' /\ TimerInv'
    BY <1>1, <1>4, <2>1, <2>2 DEF Inv, MainInv, TimerInv, MenuTypes
  <2>8. ScreenInv' /\ PauseInv'
    BY <2>1, <2>3 DEF ScreenInv, PauseInv
  <2>9. OfferInv'
    BY <1>1, <1>3, <1>10, <2>1, <2>4, <2>5 DEF Inv, OfferInv, LockMenus
  <2>10. ConfirmInv'
    <3>1. shown.index \in 0..6 /\ shown.num \in {0, 2, 6}
      BY <1>3 DEF WellFormed, Record
    <3>2. ~(shown.index < shown.num)
      BY <1>3, <1>10, <3>1
    <3> QED
      BY <1>3, <2>2, <2>4, <3>2 DEF ConfirmInv
  <2>11. PauseHolds' /\ WipeKept'
    BY <1>1, <2>1, <2>2, WipeStays DEF Inv, PauseHolds
  <2> QED
    BY <2>6, <2>7, <2>8, <2>9, <2>10, <2>11 DEF Inv
<1>11. CASE screen \notin LockMenus
  <2>1. /\ run' = IF screen = "RED" THEN "red" ELSE "wait"
        /\ screen' = screen
        /\ hist' = [hist EXCEPT !.paused = FALSE, !.why = "none"]
    BY <1>11 DEF DrawDone
  <2>2. /\ hist' \in History /\ hist'.paused = FALSE /\ hist'.why = "none"
        /\ hist'.changed = hist.changed /\ hist'.lost = hist.lost
        /\ hist'.moved = hist.moved /\ hist'.asked = hist.asked
        /\ hist'.pressed = hist.pressed
    BY <2>1 DEF Inv, MainInv, History
  <2>3. file = "vb" /\ Msg(screen) = screen /\ screen \in Screened \cup {"RED"}
    BY <1>1, <1>2, <1>11, MenuFacts DEF MenuTypes, Screened
  <2>4. cb' = "vb" => info'["vb"] = shown /\ screen # "RED"
    BY <1>1, <1>4, <1>6, <1>8, <2>3 DEF Files
  <2>5. cb' \in {"fastboot", "unlock"} => cb' = cb /\ info'[cb'] = info[cb]
    BY <1>4, <1>6, <1>8, <2>3 DEF Files
  <2>6. cb' # "unlock" => info'["unlock"].type = "YELLOW"
    BY <1>8, <1>9 DEF Files
  <2>7. MenuInv'
    <3>1. cb' \in Files \cup {"null", "dangling"}
      BY <1>4, <2>3 DEF Inv, MenuInv, Files
    <3>2. cb' = "vb" => info'["vb"].msg # "null"
      BY <1>3, <2>3, <2>4 DEF Screened, Warnings
    <3>3. /\ cb' = "unlock" => info'["unlock"].msg \in {"unlockMsg", "lockMsg"}
          /\ cb' = "fastboot" => /\ info'["fastboot"].msg # "null"
                                 /\ info'["fastboot"].type = "FASTBOOT"
      BY <2>5 DEF Inv, MenuInv, Files
    <3> QED
      BY <1>8, <2>1, <3>1, <3>2, <3>3 DEF MenuInv, Files
  <2>8. MainInv' /\ TimerInv'
    BY <1>1, <1>4, <2>1, <2>2 DEF Inv, MainInv, TimerInv
  <2>9. ScreenInv'
    BY <1>1, <2>1, <2>3 DEF Inv, ScreenInv
  <2>10. PauseInv'
    BY <1>3, <2>1, <2>2, <2>3, <2>4 DEF PauseInv
  <2>11. OfferInv'
    BY <1>1, <2>1, <2>5, <2>6 DEF Inv, OfferInv, LockMenus
  <2>12. ConfirmInv'
    BY <1>1, <2>2, <2>5 DEF Inv, ConfirmInv
  <2>13. PauseHolds' /\ WipeKept'
    BY <1>1, <2>2, WipeStays DEF Inv, PauseHolds
  <2> QED
    BY <2>7, <2>8, <2>9, <2>10, <2>11, <2>12, <2>13 DEF Inv
<1> QED
  BY <1>10, <1>11

LEMMA DrawFailsInv ==
  ASSUME Inv, DrawFails
  PROVE  Inv'
<1>1. /\ run = "draw" /\ screen \in MenuTypes \ {"FASTBOOT"} /\ cb # "vb" /\ Fault
      /\ info' = Kept(info, {cb})
      /\ UNCHANGED <<build, boot, dev, misc, cb, notice, lastKey, waited, refresh, hist>>
  BY DEF DrawFails, Inv, ScreenInv, PauseInv, MainInv
<1>2. /\ run' \in {"fastboot", "red", "delay"} /\ screen' \in {screen, "FASTBOOT"}
      /\ run' = "delay" => screen' = screen /\ screen \notin LockMenus \cup {"RED"}
  BY DEF DrawFails
<1>3. run' = "delay" => screen' \in Screened /\ screen' = screen
  BY <1>1, <1>2 DEF MenuTypes, Screened
<1>4. /\ info' \in [Files -> Record]
      /\ \A f \in Files : /\ WellFormed(info'[f], f)
                          /\ f \in {cb} => info'[f] = info[f]
                          /\ f \notin {cb} => info'[f] = Zeroed("RED")
  BY <1>1, KeptOK DEF Inv, MenuInv
<1>5. Zeroed("RED").type = "YELLOW"
  BY ZeroedOK DEF MenuTypes
<1>6. MainInv' /\ TimerInv'
  BY <1>1, <1>2, FaultsStay DEF Inv, MainInv, TimerInv, MenuTypes
<1>7. MenuInv'
  BY <1>1, <1>2, <1>4 DEF Inv, MenuInv, Files
<1>8. ScreenInv' /\ PauseInv'
  BY <1>1, <1>2, <1>3 DEF Inv, ScreenInv, PauseInv
<1>9. OfferInv' /\ ConfirmInv'
  BY <1>1, <1>2, <1>4, <1>5 DEF Inv, OfferInv, ConfirmInv, LockMenus, Files
<1>10. PauseHolds' /\ WipeKept'
  BY <1>1, WipeStays DEF Inv, PauseHolds
<1> QED
  BY <1>6, <1>7, <1>8, <1>9, <1>10 DEF Inv

-----------------------------------------------------------------------------
(* The fastboot commands                                                   *)

LEMMA SetDeviceUnlockInv ==
  ASSUME Inv, NEW menu \in LockMenus, SetDeviceUnlock(menu)
  PROVE  Inv'
<1>1. /\ run = "fastboot" /\ cb # "vb" /\ dev[LockOf(menu)] # ValueOf(menu)
      /\ build' = build /\ boot' = boot
  BY DEF SetDeviceUnlock, Inv, PauseInv
<1>2. CASE build.display = "menu"
  <2>1. Show(menu) /\ UNCHANGED <<dev, misc, faults, hist>>
    BY <1>2 DEF SetDeviceUnlock
  <2>2. menu \in MenuTypes \ {"FASTBOOT"} /\ menu \notin Screened
    BY DEF MenuTypes, LockMenus, Screened, Warnings
  <2>3. boot \in [ok : BOOLEAN, state : {"GREEN", "ORANGE", "YELLOW", "RED"}]
    BY DEF Inv, MainInv
  <2> QED
    BY <1>1, <1>2, <2>1, <2>2, <2>3, ShowOK
<1>3. CASE build.display # "menu"
  <2>1. /\ LockSet(menu) \/ LockFails(menu)
        /\ Halt("reset") \/ UNCHANGED <<run, screen, menuVars>>
    BY <1>3 DEF SetDeviceUnlock
  <2>2. /\ dev' \in [unlocked : BOOLEAN, critical : BOOLEAN, enforcing : BOOLEAN]
        /\ misc' \in [command : {"none", "recovery", "ffbm"}, wipe : BOOLEAN]
        /\ hist' \in History /\ faults' \in 0..MaxFaults
        /\ hist'.paused = hist.paused /\ hist'.why = hist.why /\ WipeKept'
    BY <1>1, <2>1, LockOK DEF Inv
  <2>3. CASE Halt("reset")
    <3>1. /\ MenuInv' /\ TimerInv' /\ ScreenInv' /\ PauseInv' /\ OfferInv' /\ ConfirmInv'
          /\ run' = "reset" /\ screen' \in MenuTypes
      BY <2>3, HaltOK DEF Ended
    <3>2. MainInv'
      BY <1>1, <2>2, <3>1 DEF Inv, MainInv, Ended
    <3>3. PauseHolds'
      BY <1>1, <2>2 DEF Inv, PauseHolds
    <3> QED
      BY <2>2, <3>1, <3>2, <3>3 DEF Inv
  <2>4. CASE UNCHANGED <<run, screen, menuVars>>
    <3>1. UNCHANGED <<run, screen, cb, info, notice, lastKey, waited, refresh>>
      BY <2>4 DEF menuVars
    <3>2. info["unlock"].type \notin LockMenus
      BY <1>3 DEF Inv, OfferInv
    <3>3. MainInv' /\ MenuInv' /\ TimerInv' /\ ScreenInv'
      BY <1>1, <2>2, <3>1 DEF Inv, MainInv, MenuInv, TimerInv, ScreenInv
    <3>4. PauseInv' /\ PauseHolds'
      BY <1>1, <2>2, <3>1 DEF Inv, PauseInv, PauseHolds
    <3>5. OfferInv'
      BY <1>1, <3>1, <3>2 DEF OfferInv
    <3>6. ConfirmInv'
      BY <2>1, <3>1, <3>2 DEF Inv, MainInv, History, ConfirmInv, LockSet, LockFails
    <3> QED
      BY <2>2, <3>3, <3>4, <3>5, <3>6 DEF Inv
  <2> QED
    BY <2>1, <2>3, <2>4
<1> QED
  BY <1>2, <1>3

LEMMA HaltsInv ==
  ASSUME Inv, RedShutdown \/ SlotUnbootable \/ CmdReboot \/ PowerLoss
  PROVE  Inv'
<1>1. /\ run # "off" /\ UNCHANGED <<build, boot, dev, misc, faults, hist>>
      /\ Halt("off") \/ Halt("reset")
  BY DEF RedShutdown, SlotUnbootable, CmdReboot, PowerLoss
<1> QED
  BY <1>1, HaltStays DEF Ended

LEMMA CmdRebootRecoveryInv ==
  ASSUME Inv, CmdRebootRecovery
  PROVE  Inv'
<1>1. /\ run = "fastboot" /\ misc' = WithCommand("recovery") /\ Halt("reset")
      /\ UNCHANGED <<build, boot, dev, faults, hist>>
  BY DEF CmdRebootRecovery
<1>2. /\ MenuInv' /\ TimerInv' /\ ScreenInv' /\ PauseInv' /\ OfferInv' /\ ConfirmInv'
      /\ run' = "reset" /\ screen' \in MenuTypes
  BY <1>1, HaltOK DEF Ended
<1>3. /\ misc' \in [command : {"none", "recovery", "ffbm"}, wipe : BOOLEAN]
      /\ misc'.wipe = misc.wipe
  BY <1>1, CommandOK DEF Inv
<1>4. MainInv'
  BY <1>1, <1>2, <1>3 DEF Inv, MainInv, Ended
<1>5. PauseHolds' /\ WipeKept'
  BY <1>1, <1>3 DEF Inv, PauseHolds, WipeKept
<1> QED
  BY <1>2, <1>4, <1>5 DEF Inv

LEMMA MenuKeysHandlerInv ==
  ASSUME Inv, MenuKeysHandler
  PROVE  Inv'
BY KeyTimeoutInv, KeyErrorInv, KeyIdleInv, KeyVolumeInv, KeyPauseInv, KeyContinueInv,
   KeySelectInv DEF MenuKeysHandler

LEMMA NextInv ==
  ASSUME Inv, [Next]_vars
  PROVE  Inv'
<1>1. CASE UNCHANGED vars
  BY <1>1 DEF vars, menuVars, Inv, MainInv, MenuInv, TimerInv, ScreenInv, PauseInv,
     OfferInv, ConfirmInv, PauseHolds, WipeKept
<1>2. CASE Screens
  BY <1>2, DrawDoneInv, DrawFailsInv, ProceedInv, HaltsInv DEF Screens
<1> QED
  BY <1>1, <1>2, StartInv, MenuKeysHandlerInv, ElapseInv, LoadImageAndAuthInv, HaltsInv,
     SetDeviceUnlockInv, CmdRebootRecoveryInv DEF Next

-----------------------------------------------------------------------------
(* Theorems                                                                *)

LEMMA Invariance == Spec => []Inv
<1>1. Init => Inv
  BY InitInv
<1>2. Inv /\ [Next]_vars => Inv'
  BY NextInv
<1> QED
  BY <1>1, <1>2, PTL DEF Spec

\* Every variable of Menus keeps its type: the index of a menu never passes its
\* options, and the handler of a live event never reads the NULL message of a
\* record the main thread has just zeroed.
THEOREM TypesKept == Spec => []TypeOK
<1>1. Inv => TypeOK
  <2> SUFFICES ASSUME Inv
               PROVE  TypeOK
    OBVIOUS
  <2>1. \A f \in Files :
          /\ info[f].type \in MenuTypes /\ info[f].num \in {0, 2, 6}
          /\ info[f].index \in 0..info[f].num
          /\ info[f].timeout \in {0, WarnTime, EioTime, PauseTime}
          /\ cb = f => info[f].msg # "null"
    BY DEF Inv, MenuInv, WellFormed, Record
  <2>2. misc.command \in {"none", "recovery", "ffbm"} /\ misc.wipe \in BOOLEAN
    BY DEF Inv, MainInv
  <2> QED
    BY <2>1, <2>2 DEF TypeOK, Inv, MainInv, MenuInv, TimerInv, Ended
<1> QED
  BY <1>1, Invariance, PTL

\* SetDeviceUnlockValue and whatever writes the misc partition after it: the
\* wipe a lock change asks for is pending until an operating system has run,
\* unless the write that asked for it failed.
THEOREM WipeStaysAsked == Spec => []WipeKept
<1>1. Inv => WipeKept
  BY DEF Inv
<1> QED
  BY <1>1, Invariance, PTL

\* DisplayVerifiedBootScreen and the key handler: no boot goes on past a screen
\* the user paused, and no locked device built with AVB 2 past a failed
\* authentication.
THEOREM NoBootPastScreens == Spec => []BootsAsShown
<1>1. Inv => BootsAsShown
  <2> SUFFICES ASSUME Inv
               PROVE  PauseHolds /\ LockedBootsVerified
    BY DEF BootsAsShown
  <2>1. LockedBootsVerified
    BY DEF Inv, ScreenInv, LockedBootsVerified
  <2> QED
    BY <2>1 DEF Inv
<1> QED
  BY <1>1, Invariance, PTL

\* Power on an option of a lock menu: it changes the lock that was asked for,
\* after a volume key and then power.
LEMMA SelectConfirmed ==
  ASSUME Inv, NEW cur \in Keys, KeySelect(cur),
         dev' # dev \/ (misc'.wipe /\ ~misc.wipe)
  PROVE  /\ cb = "unlock" /\ hist.moved /\ hist.pressed
         /\ dev' \in {dev, SetLock(hist.asked, ValueOf(hist.asked))}
<1> DEFINE r == info[cb]
<1>1. /\ cb \in Files /\ lastKey = "power" /\ r.index < r.num
  BY DEF KeySelect, ReadsKey, Interrupts, ActsFor
<1>2. r.type \in LockMenus /\ (LockSet(r.type) \/ LockFails(r.type))
  <2>1. \/ r.type \in LockMenus /\ (LockSet(r.type) \/ LockFails(r.type))
        \/ WriteCommand("ffbm") /\ UNCHANGED <<dev, hist>>
        \/ UNCHANGED <<dev, misc, faults, hist>>
    BY DEF KeySelect
  <2>2. ~(WriteCommand("ffbm") /\ UNCHANGED <<dev, hist>>)
    BY CommandOK DEF WriteCommand, Inv
  <2> QED
    BY <2>1, <2>2
<1>3. cb = "unlock" /\ dev[LockOf(r.type)] # ValueOf(r.type)
  BY <1>1, <1>2, SelectedLock
<1>4. dev' \in {dev, SetLock(r.type, ValueOf(r.type))}
  BY <1>2, <1>3, LockOK DEF Inv
<1>5. hist.asked = r.type /\ hist.moved /\ hist.pressed
  BY <1>1, <1>2, <1>3 DEF Inv, ConfirmInv
<1> QED
  BY <1>3, <1>4, <1>5

\* SetDeviceUnlock, the lock menus and the key handler: on a device with a
\* display no lock changes and no wipe is asked for but as the user confirmed
\* it, in the menu of the last command answered OKAY, with a volume key and
\* then power, although a timer callback shares the record the main thread
\* redraws.
THEOREM LocksConfirmed == Spec => LockAsConfirmed
<1> DEFINE Confirmed ==
      build.display = "menu" /\ run \notin {"reset", "off", "linux"}
        /\ (dev' # dev \/ (misc'.wipe /\ ~misc.wipe))
      => /\ cb = "unlock" /\ hist.moved /\ hist.pressed
         /\ dev' \in {dev, SetLock(hist.asked, ValueOf(hist.asked))}
<1>1. Inv /\ [Next]_vars => [Confirmed]_vars
  <2> SUFFICES ASSUME Inv, Next, build.display = "menu",
                      run \notin {"reset", "off", "linux"},
                      dev' # dev \/ (misc'.wipe /\ ~misc.wipe)
               PROVE  /\ cb = "unlock" /\ hist.moved /\ hist.pressed
                      /\ dev' \in {dev, SetLock(hist.asked, ValueOf(hist.asked))}
    OBVIOUS
  <2>1. CASE MenuKeysHandler
    <3>1. CASE KeyTimeout \/ KeyError
      BY <3>1 DEF KeyTimeout, KeyError
    <3>2. CASE \E cur \in Keys :
                 KeyIdle(cur) \/ KeyVolume(cur) \/ KeyPause(cur) \/ KeyContinue(cur)
      BY <3>2 DEF KeyIdle, KeyVolume, KeyPause, KeyContinue
    <3>3. CASE \E cur \in Keys : KeySelect(cur)
      BY <3>3, SelectConfirmed
    <3> QED
      BY <2>1, <3>1, <3>2, <3>3 DEF MenuKeysHandler
  <2>2. CASE Start
    BY <2>2 DEF Start
  <2>3. CASE \E menu \in LockMenus : SetDeviceUnlock(menu)
    BY <2>3 DEF SetDeviceUnlock
  <2>4. CASE CmdRebootRecovery
    BY <2>4, CommandOK DEF CmdRebootRecovery, Inv
  <2>5. CASE Elapse \/ Screens \/ LoadImageAndAuth \/ SlotUnbootable \/ CmdReboot \/ PowerLoss
    BY <2>5 DEF Elapse, Screens, DrawDone, DrawFails, Proceed, RedShutdown,
       LoadImageAndAuth, SlotUnbootable, CmdReboot, PowerLoss
  <2> QED
    BY <2>1, <2>2, <2>3, <2>4, <2>5 DEF Next
<1>2. Spec => [][Confirmed]_vars
  BY <1>1, Invariance, PTL DEF Spec
<1> QED
  BY <1>2 DEF LockAsConfirmed

=============================================================================
