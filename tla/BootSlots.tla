------------------------------ MODULE BootSlots ------------------------------
(***************************************************************************)
(* The A/B boot slots: PartitionTableUpdate.c (BootLib), the commands of   *)
(* FastbootCmds.c that use it, LoadImageAndAuth (avb/VerifiedBoot.c) and   *)
(* LinuxLoaderEntry (LinuxLoader.c), on a UFS device.                      *)
(*                                                                         *)
(* Three things say which slot is booted: the attributes of boot_a and     *)
(* boot_b, the type GUIDs of the slotted partitions, and the UFS boot LUN. *)
(* The first two live in the GPT and in its copy PtnEntries; the third in  *)
(* the UFS device.  IsUpdatePartitionAttributes returns FALSE, so          *)
(* UpdatePartitionAttributes never writes the copy back: a reset loses     *)
(* every change of the first two, and none of the third.                   *)
(***************************************************************************)
EXTENDS Naturals, FiniteSets

CONSTANTS
  Gpts,          \* the partition tables the medium may hold
  HostOps,       \* the commands the host uses
  SetActiveArgs, \* the slot names it gives to set_active
  AllocMayFail,  \* AllocateZeroPool may fail in GetMultiSlotPartsList
  VerifiedBoot2, \* built with VERIFIED_BOOT_2 (otherwise NO_AVB)
  Unlocked,      \* IsUnlocked ()
  UserBuild      \* TargetBuildVariantUser ()

VARIABLES
  gpt, lun, img,             \* on the medium: the table, the boot LUN, whether
                             \* the image of a slot loads and verifies
  ptn, FirstBoot, HeadNode,  \* PtnEntries, and the slotted partitions known
  CurrentSlotFB, slotVars,   \* the published fastboot variables
  phase, booted,
  asked, fresh               \* history: the slot last made active, and that
                             \* nothing has undone it since

vars == <<gpt, lun, img, ptn, FirstBoot, HeadNode, CurrentSlotFB, slotVars,
          phase, booted, asked, fresh>>

Slots  == {"_a", "_b"}
NoSlot == ""
Pairs  == {"boot", "abl"}    \* the slotted partitions ValidateSlotGuids reads
MAX_PRIORITY    == 3
MAX_RETRY_COUNT == 7

Attr == [prio : 0..MAX_PRIORITY, active : BOOLEAN, retry : 0..MAX_RETRY_COUNT,
         succ : BOOLEAN, unboot : BOOLEAN]
\* guid[p]: the slot whose partition p has its own type GUID; the other one has
\* the GUID that all inactive partitions share.
Ptn == [attr : [Slots -> Attr], guid : [Pairs -> Slots]]
SlotVars == [succ : BOOLEAN, unboot : BOOLEAN, retry : 0..MAX_RETRY_COUNT]

Other(s) == IF s = "_a" THEN "_b" ELSE "_a"
LunOf(s) == IF s = "_a" THEN 1 ELSE 2

-----------------------------------------------------------------------------
(***************************************************************************)
(* GetActiveSlot: the active slot of the highest priority, _a on a tie.    *)
(* When there is none and the attributes of _a are all zero it makes _a    *)
(* active in PtnEntries: every caller may have this effect.                *)
(***************************************************************************)
Candidate(at, s) == at[s].active /\ at[s].prio > 0

Active(at) ==
  IF Candidate(at, "_a")
     /\ ~(Candidate(at, "_b") /\ at["_b"].prio > at["_a"].prio) THEN "_a"
  ELSE IF Candidate(at, "_b") THEN "_b" ELSE NoSlot

IsFirstBoot(at) ==
  /\ Active(at) = NoSlot
  /\ ~at["_a"].active /\ ~at["_a"].succ /\ ~at["_a"].unboot
  /\ at["_a"].prio = 0

Defaulted(at) ==
  IF IsFirstBoot(at)
  THEN [at EXCEPT !["_a"] = [@ EXCEPT !.prio = MAX_PRIORITY, !.active = TRUE,
                                      !.retry = MAX_RETRY_COUNT]]
  ELSE at

\* PtnEntries and FirstBoot after GetActiveSlot.
Seen(p) == [p EXCEPT !.attr = Defaulted(@)]
FirstSeen(p) == FirstBoot \/ IsFirstBoot(p.attr)

ASSUME GptAssumption ==
  /\ AllocMayFail \in BOOLEAN /\ VerifiedBoot2 \in BOOLEAN
  /\ Unlocked \in BOOLEAN /\ UserBuild \in BOOLEAN
  /\ SetActiveArgs \subseteq {"a", "b", "_a", "_b", ""}
  /\ \A g \in Gpts :
       /\ g \in Ptn
       /\ ~(Seen(g).attr["_a"].active /\ Seen(g).attr["_b"].active)
       /\ \A s \in Slots : g.attr[s].active => g.attr[s].prio > 0
       /\ \A s \in Slots : Active(Seen(g).attr) = s => \A p \in Pairs : g.guid[p] = s

-----------------------------------------------------------------------------
(***************************************************************************)
(* SetActiveSlot.                                                          *)
(***************************************************************************)
\* GetBootPartitionEntry compares as many characters as the suffix has: the
\* suffix "_" finds boot_a.
BootEntry(suffix) == IF suffix = "_b" THEN "_b" ELSE "_a"

\* The new slot is raised, then the alternate lowered: for the suffix "_" both
\* are boot_a.
Ranked(at, new, resetSuccess) ==
  LET up == [at EXCEPT ![BootEntry(new)] =
               [prio |-> MAX_PRIORITY, active |-> TRUE, retry |-> MAX_RETRY_COUNT,
                succ |-> @.succ /\ ~resetSuccess, unboot |-> FALSE]]
  IN [up EXCEPT ![Other(new)] = [@ EXCEPT !.prio = MAX_PRIORITY - 1,
                                          !.active = FALSE]]

\* MarkPtnActive looks for the suffix in the name: "_" is in every one.
Marked(at, suffix) ==
  [s \in Slots |-> [at[s] EXCEPT !.active = (suffix = s \/ suffix = "_")]]

\* Variant: the boot LUN is switched one way only.
SwitchLunToB(l, new) == IF l = 1 /\ new = "_b" THEN 2 ELSE l

SwitchLun(l, new) ==
  IF l = 1 /\ new = "_b" THEN 2 ELSE IF l = 2 /\ new = "_a" THEN 1 ELSE l

Swapped(guid, parts) ==
  [p \in Pairs |-> IF p \in parts THEN Other(guid[p]) ELSE guid[p]]

\* SwitchPtnSlots: the partitions of HeadNode, which is built on the first
\* call.  Out of memory, it is left as far as it got and nothing is switched.
SwitchPtnSlots(at, guid, new) ==
  \/ LET parts == IF HeadNode = {} THEN Pairs ELSE HeadNode IN
       /\ ptn' = [attr |-> at, guid |-> Swapped(guid, parts)]
       /\ lun' = SwitchLun(lun, new) /\ HeadNode' = parts
  \/ /\ AllocMayFail /\ HeadNode = {}
     /\ HeadNode' \in (SUBSET Pairs) \ {Pairs}
     /\ ptn' = [attr |-> at, guid |-> guid] /\ lun' = lun

\* From the entries p, of which some slot is active.
SetActiveSlot(p, new, resetSuccess) ==
  LET at == Ranked(p.attr, new, resetSuccess) IN
  \/ /\ Active(p.attr) = new
     /\ ptn' = [p EXCEPT !.attr = at] /\ lun' = SwitchLun(lun, new)
     /\ UNCHANGED HeadNode
  \/ /\ Active(p.attr) # new
     /\ SwitchPtnSlots(Marked(at, new), p.guid, new)

-----------------------------------------------------------------------------
(***************************************************************************)
(* LinuxLoaderEntry up to the fastboot loop, which this build always       *)
(* enters; FastbootCommandSetup publishes the variables.                   *)
(***************************************************************************)
Published(at) ==
  [s \in Slots |-> [succ |-> at[s].succ, unboot |-> at[s].unboot,
                    retry |-> at[s].retry]]
Renewed == [succ |-> FALSE, unboot |-> FALSE, retry |-> MAX_RETRY_COUNT]

\* The boot LUN that goes with a partition table; any, if no slot is active.
BootLuns(g) ==
  {l \in {1, 2} : \A s \in Slots : Active(Seen(g).attr) = s => l = LunOf(s)}

Init ==
  /\ gpt \in Gpts /\ lun \in BootLuns(gpt)
  /\ img \in [Slots -> {"good", "bad"}]
  /\ ptn = gpt /\ FirstBoot = FALSE /\ HeadNode = {}
  /\ CurrentSlotFB = NoSlot /\ slotVars = [s \in Slots |-> Renewed]
  /\ phase = "reset" /\ booted = NoSlot /\ asked = NoSlot /\ fresh = FALSE

LinuxLoaderEntry ==
  /\ phase = "reset" /\ phase' = "fastboot"
  /\ ptn' = Seen(gpt) /\ FirstBoot' = IsFirstBoot(gpt.attr) /\ HeadNode' = {}
  /\ CurrentSlotFB' = Active(ptn'.attr) /\ slotVars' = Published(ptn'.attr)
  /\ fresh' = FALSE
  /\ UNCHANGED <<gpt, lun, img, booted, asked>>

Host(op) == phase = "fastboot" /\ op \in HostOps

\* The slot suffix made of the argument, and the slots whose BootSlotInfo
\* entry ("a" or "b") contains the argument.
Suffix(arg) == CASE arg \in {"a", "_a"} -> "_a" [] arg \in {"b", "_b"} -> "_b"
                 [] OTHER -> "_"
InfoOf(arg) == CASE arg = "a" -> {"_a"} [] arg = "b" -> {"_b"}
                 [] arg = "" -> {"_a"} [] OTHER -> {}

\* The loop over BootSlotInfo ends only at an entry that contains the argument.
CmdSetActive(arg) ==
  LET p == Seen(ptn) IN
  /\ Host("set_active") /\ ~(UserBuild /\ ~Unlocked)
  /\ Active(p.attr) # NoSlot
  /\ SetActiveSlot(p, Suffix(arg), TRUE)
  /\ FirstBoot' = FirstSeen(ptn)
  /\ CurrentSlotFB' = Active(ptn'.attr)
  /\ slotVars' = [s \in Slots |-> IF s \in InfoOf(arg) THEN Renewed ELSE slotVars[s]]
  /\ phase' = IF InfoOf(arg) = {} THEN "stray" ELSE "fastboot"
  /\ asked' = IF Suffix(arg) \in Slots THEN Suffix(arg) ELSE NoSlot
  /\ fresh' = TRUE
  /\ UNCHANGED <<gpt, img, booted>>

\* Variants: the slot is also made active; its priority is cleared.
FastbootUpdateAttrActive(a) ==
  [prio |-> MAX_PRIORITY, active |-> TRUE, retry |-> MAX_RETRY_COUNT,
   succ |-> FALSE, unboot |-> FALSE]

FastbootUpdateAttrNoPriority(a) ==
  [a EXCEPT !.prio = 0, !.retry = MAX_RETRY_COUNT, !.succ = FALSE, !.unboot = FALSE]

FastbootUpdateAttr(a) ==
  [a EXCEPT !.prio = MAX_PRIORITY, !.retry = MAX_RETRY_COUNT,
            !.succ = FALSE, !.unboot = FALSE]

\* flash or erase of a boot partition, by its full name or as "boot", for
\* which GetPartitionHasSlot takes the current slot.  A sparse flash leaves
\* the attributes alone.
CmdFlashOrErase ==
  /\ Host("flash") /\ ~(UserBuild /\ ~Unlocked)
  /\ \E full \in BOOLEAN, s \in Slots, sparse \in BOOLEAN :
       LET p == IF full THEN ptn ELSE Seen(ptn) IN
       /\ full \/ s = Active(p.attr)
       /\ FirstBoot' = IF full THEN FirstBoot ELSE FirstSeen(ptn)
       /\ \E i \in {"good", "bad"} : img' = [img EXCEPT ![s] = i]
       /\ ptn' = IF sparse THEN p
                 ELSE [p EXCEPT !.attr[s] = FastbootUpdateAttr(@)]
       /\ slotVars' = IF sparse THEN slotVars ELSE [slotVars EXCEPT ![s] = Renewed]
  /\ UNCHANGED <<gpt, lun, HeadNode, CurrentSlotFB, phase, booted, asked, fresh>>

\* flash:partition selects boot LUN 1 before it looks at the image.  Then: the
\* image is refused; the table of a LUN without boot partitions is replaced
\* and all entries are read again; or that of the boot partitions is, after
\* the LUN was erased.  CurrentSlotFB is not published again.
CmdFlashPartition ==
  /\ Host("partition") /\ ~(UserBuild /\ ~Unlocked)
  /\ lun' = 1
  /\ \/ UNCHANGED <<gpt, img, ptn, FirstBoot, slotVars, asked>>
     \/ /\ ptn' = gpt /\ asked' = NoSlot
        /\ UNCHANGED <<gpt, img, FirstBoot, slotVars>>
     \/ \E g \in Gpts :
          /\ gpt' = g /\ ptn' = Seen(g) /\ FirstBoot' = FirstSeen(g)
          /\ img' = [s \in Slots |-> "bad"]
          /\ slotVars' = [s \in Slots |-> Renewed] /\ asked' = NoSlot
  /\ UNCHANGED <<HeadNode, CurrentSlotFB, phase, booted, fresh>>

-----------------------------------------------------------------------------
(***************************************************************************)
(* LoadImageAndAuth, for continue and boot.                                *)
(***************************************************************************)
\* The retry count is not decremented: BootIntoFastboot is always set.
Bootable(a) == ~a.unboot /\ (a.succ \/ a.retry > 0)

\* Variants: the LUN is not looked at; the comparison is the wrong way round.
ValidateGuidsOnly(guid, s) == \E p \in Pairs : guid[p] = s
ValidateInverted(guid, s) == (\A p \in Pairs : guid[p] # s) /\ lun = LunOf(s)

\* boot_s and abl_s must not share the GUID of inactive partitions, and the
\* boot LUN must be the slot's.
ValidateSlotGuids(guid, s) == (\E p \in Pairs : guid[p] = s) /\ lun = LunOf(s)

\* From the entries p, of which a slot is active: mark it unbootable and, if
\* the other one is bootable, switch to that and reset.  Otherwise go to next.
HandleActiveSlotUnbootable(p, next) ==
  LET s     == Active(p.attr)
      first == FirstSeen(ptn) /\ ~UserBuild
      q     == IF first THEN p ELSE [p EXCEPT !.attr[s].unboot = TRUE]
      alt   == q.attr[Other(s)]
  IN /\ FirstBoot' = (FirstSeen(ptn) /\ ~first)
     /\ fresh' = FALSE
     /\ \/ /\ ~alt.unboot /\ alt.succ
           /\ SetActiveSlot(q, Other(s), FALSE)
           /\ phase' = "reset" /\ asked' = Other(s)
        \/ /\ ~(~alt.unboot /\ alt.succ)
           /\ ptn' = q /\ phase' = next /\ UNCHANGED <<lun, HeadNode, asked>>

\* The image of slot s, found in the entries p, is loaded: it boots; it does
\* not load or verify, and a locked device with VERIFIED_BOOT_2 then shows the
\* red screen and shuts down; or it verifies but does not fit (CmdBoot).
LoadImage(p, s, good, fits) ==
  \/ /\ good /\ fits /\ phase' = "linux" /\ booted' = s
     /\ ptn' = p /\ FirstBoot' = FirstSeen(ptn)
     /\ UNCHANGED <<lun, HeadNode, asked, fresh>>
  \/ /\ (good /\ ~fits) \/ (~good /\ ~VerifiedBoot2)
     /\ ptn' = p /\ FirstBoot' = FirstSeen(ptn)
     /\ UNCHANGED <<lun, HeadNode, phase, booted, asked, fresh>>
  \/ /\ ~good /\ VerifiedBoot2
     /\ HandleActiveSlotUnbootable(p, IF Unlocked THEN "fastboot" ELSE "reset")
     /\ UNCHANGED booted

\* FindBootableSlot on the entries p takes the slot s.
FindBootableSlot(p, s) ==
  s = Active(p.attr) /\ Bootable(p.attr[s]) /\ ValidateSlotGuids(p.guid, s)

\* FindBootableSlot on the entries p, then LoadImage.
LoadImageAndAuth(p, good, fits) ==
  LET s == Active(p.attr) IN
  \/ /\ FindBootableSlot(p, s)
     /\ LoadImage([p EXCEPT !.attr = Marked(@, s)], s, good, fits)
  \/ /\ Bootable(p.attr[s]) /\ ~ValidateSlotGuids(p.guid, s)
     /\ ptn' = p /\ FirstBoot' = FirstSeen(ptn)
     /\ UNCHANGED <<lun, HeadNode, phase, booted, asked, fresh>>
  \/ /\ ~Bootable(p.attr[s])
     /\ HandleActiveSlotUnbootable(p, "fastboot") /\ UNCHANGED booted

CmdContinue ==
  /\ Host("continue") /\ Active(Seen(ptn).attr) # NoSlot
  /\ LoadImageAndAuth(Seen(ptn), img[Active(Seen(ptn).attr)] = "good", TRUE)
  /\ UNCHANGED <<gpt, img, CurrentSlotFB, slotVars>>

\* ClearUnbootable, then a downloaded image instead of the slot's.
CmdBoot ==
  LET p == Seen(ptn) IN
  /\ Host("boot") /\ Unlocked /\ Active(p.attr) # NoSlot
  /\ \E ok \in BOOLEAN, fits \in BOOLEAN :
       LoadImageAndAuth([p EXCEPT !.attr[Active(p.attr)].unboot = FALSE], ok, fits)
  /\ UNCHANGED <<gpt, img, CurrentSlotFB, slotVars>>

\* CmdReboot, a power cycle, or a restart of Linux.
Reset ==
  /\ "reset" \in HostOps /\ phase # "reset" /\ phase' = "reset" /\ fresh' = FALSE
  /\ UNCHANGED <<gpt, lun, img, ptn, FirstBoot, HeadNode, CurrentSlotFB, slotVars,
                 booted, asked>>

\* The boot control of the running system (external) changes slots: it writes
\* the GPT and the boot LUN together.
OsUpdate ==
  /\ "os" \in HostOps /\ phase = "linux" /\ phase' = "reset"
  /\ \E g \in Gpts : gpt' = g /\ lun' \in BootLuns(g)
  /\ asked' = NoSlot /\ fresh' = FALSE
  /\ UNCHANGED <<img, ptn, FirstBoot, HeadNode, CurrentSlotFB, slotVars, booted>>

Next ==
  \/ LinuxLoaderEntry
  \/ \E arg \in SetActiveArgs : CmdSetActive(arg)
  \/ CmdFlashOrErase \/ CmdFlashPartition \/ CmdContinue \/ CmdBoot
  \/ Reset \/ OsUpdate

Spec == Init /\ [][Next]_vars

\* The loader runs after a reset, and the host does not give up.
LiveSpec == Spec /\ WF_vars(LinuxLoaderEntry) /\ WF_vars(CmdContinue)

-----------------------------------------------------------------------------
\* The types of the variables: in particular the boot LUN is 1 or 2 whatever
\* SwitchPtnSlots and CmdFlash do to it.
TypeOK ==
  /\ gpt \in Gpts /\ lun \in {1, 2} /\ img \in [Slots -> {"good", "bad"}]
  /\ ptn \in Ptn /\ FirstBoot \in BOOLEAN /\ HeadNode \subseteq Pairs
  /\ CurrentSlotFB \in Slots \cup {NoSlot} /\ slotVars \in [Slots -> SlotVars]
  /\ phase \in {"reset", "fastboot", "linux", "stray"}
  /\ booted \in Slots \cup {NoSlot} /\ asked \in Slots \cup {NoSlot}
  /\ fresh \in BOOLEAN

\* After set_active attributes, type GUIDs and boot LUN agree on the slot, and
\* no flash, erase or boot attempt that leaves the device in fastboot takes it
\* away (SetActiveSlot, SwitchPtnSlots).
SetActiveHonoured ==
  asked \in Slots /\ fresh =>
    /\ Active(ptn.attr) = asked /\ lun = LunOf(asked)
    /\ \A p \in Pairs : ptn.guid[p] = asked
    /\ Bootable(ptn.attr[asked])

\* set_active has been kept so far, and the image of that slot is good.
Asked == phase = "fastboot" /\ asked \in Slots /\ fresh /\ img[asked] = "good"

\* While that is so, continue boots that slot if its image is good, and can do
\* nothing else: it neither refuses nor marks the slot unbootable
\* (FindBootableSlot, ValidateSlotGuids).
ContinueBoots ==
  /\ [](Asked => FindBootableSlot(Seen(ptn), asked))
  /\ [][Asked /\ CmdContinue => phase' = "linux" /\ booted' = asked]_vars

\* Linux is only started from the slot the boot LUN belongs to, which is the
\* current slot and is not marked unbootable (FindBootableSlot).
BootedConsistent ==
  phase = "linux" =>
    /\ booted = Active(ptn.attr) /\ lun = LunOf(booted)
    /\ ~ptn.attr[booted].unboot

\* boot_a and boot_b are never both active ("Mark all the slots with current
\* ActiveSlot as active", MarkPtnActive).
AtMostOneActive ==
  phase = "fastboot" => ~(ptn.attr["_a"].active /\ ptn.attr["_b"].active)

\* getvar current-slot names the slot that GetActiveSlot finds
\* (FastbootPublishSlotVars, CmdSetActive).
CurrentSlotVar ==
  phase = "fastboot" => CurrentSlotFB = Active(Seen(ptn).attr)

\* getvar slot-unbootable, slot-successful and slot-retry-count give the
\* attributes of the entries (PopulateMultislotMetadata).
SlotVarsCurrent ==
  phase = "fastboot" => slotVars = Published(ptn.attr)

\* The loop of CmdSetActive stays within BootSlotInfo.
SlotInfoInBounds == phase # "stray"

\* A slot made active is still the current one after a reset (SetActiveSlot,
\* UpdatePartitionAttributes).
SlotSurvivesReset ==
  phase = "fastboot" /\ asked \in Slots => Active(Seen(ptn).attr) = asked

\* If the active slot is unbootable and the other one is good, a host that
\* repeats continue gets to Linux (HandleActiveSlotUnbootable).
FailoverBoots ==
  (\E s \in Slots : /\ phase = "fastboot" /\ s = Active(Seen(ptn).attr)
                    /\ ptn.attr[Other(s)].succ /\ ~ptn.attr[Other(s)].unboot
                    /\ img[Other(s)] = "good")
    ~> (phase = "linux")

=============================================================================
