-------------------------- MODULE BootSlotsProofs ---------------------------
(***************************************************************************)
(* What set_active promises until the next reset, what Linux is started    *)
(* from, and that one slot is active, for every set of partition tables.   *)
(*                                                                         *)
(* For the first the inductive invariant adds to SetActiveHonoured that    *)
(* the entries agree among themselves (EntriesAgree) whenever they are in  *)
(* use: the switch of slots swaps GUIDs relative to what they are, so it   *)
(* is right only if they were right before.  For the last it adds that an  *)
(* active slot has a priority (Single): GetActiveSlot would otherwise take *)
(* a slot that is active for none, and make _a active too.                 *)
(***************************************************************************)
EXTENDS BootSlots, TLAPS

Sane(at) ==
  /\ ~(at["_a"].active /\ at["_b"].active)
  /\ \A s \in Slots : at[s].active => at[s].prio > 0
  /\ ~IsFirstBoot(at)

EntriesAgree(p) ==
  /\ Sane(p.attr)
  /\ \A s \in Slots : Active(p.attr) = s => \A q \in Pairs : p.guid[q] = s

SlotInv ==
  /\ phase # "reset" => EntriesAgree(ptn)
  /\ HeadNode \in {{}, Pairs}
  /\ SetActiveHonoured
  /\ CurrentSlotVar

-----------------------------------------------------------------------------
(* The operators on the attributes of the two slots. *)

\* GetActiveSlot returns an active slot with a priority, or none.
LEMMA ActiveSlot ==
  ASSUME NEW at \in [Slots -> Attr]
  PROVE  /\ Active(at) \in Slots \cup {NoSlot}
         /\ \A s \in Slots : Active(at) = s => at[s].active /\ at[s].prio > 0
         /\ Sane(at) => \A s \in Slots : at[s].active => Active(at) = s
  BY DEF Active, Candidate, Sane, Slots, NoSlot, Attr, MAX_PRIORITY

\* The attribute fields that the code sets stay within their bits.
LEMMA AttrEdits ==
  ASSUME NEW a \in Attr, NEW p \in 0..MAX_PRIORITY, NEW r \in 0..MAX_RETRY_COUNT,
         NEW x \in BOOLEAN, NEW y \in BOOLEAN, NEW z \in BOOLEAN
  PROVE  /\ [a EXCEPT !.prio = p, !.active = x, !.retry = r] \in Attr
         /\ [a EXCEPT !.prio = p, !.active = x] \in Attr
         /\ [a EXCEPT !.prio = p, !.retry = r, !.succ = y, !.unboot = z] \in Attr
  BY DEF Attr

\* The values the code writes into the priority and retry fields fit them.
LEMMA Bits ==
  /\ MAX_PRIORITY \in 0..MAX_PRIORITY /\ MAX_PRIORITY - 1 \in 0..MAX_PRIORITY
  /\ MAX_RETRY_COUNT \in 0..MAX_RETRY_COUNT
  /\ MAX_PRIORITY > 0 /\ MAX_RETRY_COUNT > 0
  BY DEF MAX_PRIORITY, MAX_RETRY_COUNT

\* The first boot default of GetActiveSlot keeps the type, and applies once.
LEMMA DefaultedType ==
  ASSUME NEW at \in [Slots -> Attr]
  PROVE  Defaulted(at) \in [Slots -> Attr] /\ ~IsFirstBoot(Defaulted(at))
  <1>1. CASE ~IsFirstBoot(at)
    BY <1>1 DEF Defaulted
  <1>2. CASE IsFirstBoot(at)
    <2> DEFINE a  == [at["_a"] EXCEPT !.prio = MAX_PRIORITY, !.active = TRUE,
                                      !.retry = MAX_RETRY_COUNT]
    <2>0. at["_a"] \in Attr
      BY DEF Slots
    <2>1. Defaulted(at) = [at EXCEPT !["_a"] = a]
      BY <1>2 DEF Defaulted
    <2>2. a \in Attr
      BY <2>0, AttrEdits, Bits
    <2>a. a.active
      BY <2>0 DEF Attr
    <2>3. Defaulted(at) \in [Slots -> Attr] /\ Defaulted(at)["_a"] = a
      BY <2>1, <2>2 DEF Slots
    <2> QED BY <2>a, <2>3 DEF IsFirstBoot
  <1> QED BY <1>1, <1>2

\* Entries that agree are left alone by GetActiveSlot.
LEMMA SeenSane ==
  ASSUME NEW p \in Ptn, Sane(p.attr), FirstBoot \in BOOLEAN
  PROVE  Seen(p) = p /\ FirstSeen(p) = FirstBoot
  <1>1. ~IsFirstBoot(p.attr)
    BY DEF Sane
  <1>2. Defaulted(p.attr) = p.attr
    BY <1>1 DEF Defaulted
  <1>3. Seen(p) = p
    BY <1>2 DEF Seen, Ptn
  <1> QED BY <1>1, <1>3 DEF FirstSeen

\* The entries read from a partition table agree.
LEMMA SeenGpt ==
  ASSUME NEW g \in Gpts
  PROVE  Seen(g) \in Ptn /\ EntriesAgree(Seen(g)) /\ g \in Ptn
  <1>1. /\ g \in Ptn
        /\ ~(Seen(g).attr["_a"].active /\ Seen(g).attr["_b"].active)
        /\ \A s \in Slots : g.attr[s].active => g.attr[s].prio > 0
        /\ \A s \in Slots : Active(Seen(g).attr) = s => \A p \in Pairs : g.guid[p] = s
    BY GptAssumption
  <1>2. /\ Seen(g) = [attr |-> Defaulted(g.attr), guid |-> g.guid]
        /\ g.attr \in [Slots -> Attr] /\ g.guid \in [Pairs -> Slots]
    BY <1>1 DEF Seen, Ptn
  <1>3. Defaulted(g.attr) \in [Slots -> Attr] /\ ~IsFirstBoot(Defaulted(g.attr))
    BY <1>2, DefaultedType
  <1>4. \A s \in Slots : Defaulted(g.attr)[s].active => Defaulted(g.attr)[s].prio > 0
    BY <1>1, <1>2 DEF Defaulted, Slots, Attr, MAX_PRIORITY
  <1>5. Seen(g) \in Ptn
    BY <1>2, <1>3 DEF Ptn
  <1> QED BY <1>1, <1>2, <1>3, <1>4, <1>5 DEF EntriesAgree, Sane

\* MarkPtnActive of the active slot changes nothing.
LEMMA MarkedActive ==
  ASSUME NEW at \in [Slots -> Attr], Sane(at), NEW s \in Slots, Active(at) = s
  PROVE  Marked(at, s) = at
  <1>1. at[s].active /\ ~at[Other(s)].active
    BY ActiveSlot DEF Sane, Slots, Other
  <1>2. \A t \in Slots : [at[t] EXCEPT !.active = (s = t \/ s = "_")] = at[t]
    BY <1>1 DEF Slots, Other, Attr
  <1> QED BY <1>2 DEF Marked

\* SetActiveSlot leaves exactly the new slot active, and bootable.
LEMMA RankedActive ==
  ASSUME NEW at \in [Slots -> Attr], NEW new \in Slots, NEW r \in BOOLEAN
  PROVE  LET up == Ranked(at, new, r) IN
         /\ up \in [Slots -> Attr] /\ Active(up) = new /\ Sane(up)
         /\ Marked(up, new) = up /\ Bootable(up[new])
  <1> DEFINE up == Ranked(at, new, r)
             hi == [prio |-> MAX_PRIORITY, active |-> TRUE, retry |-> MAX_RETRY_COUNT,
                    succ |-> at[new].succ /\ ~r, unboot |-> FALSE]
             lo == [at[Other(new)] EXCEPT !.prio = MAX_PRIORITY - 1, !.active = FALSE]
  <1>0. Other(new) \in Slots /\ Other(new) # new /\ BootEntry(new) = new
    BY DEF Other, Slots, BootEntry
  <1>a. hi \in Attr /\ lo \in Attr /\ ~lo.active
    <2>1. at[new] \in Attr /\ at[Other(new)] \in Attr
      BY <1>0
    <2>2. hi \in Attr
      BY <2>1, Bits DEF Attr
    <2>3. lo \in Attr
      BY <2>1, AttrEdits, Bits
    <2>4. ~lo.active
      BY <2>1 DEF Attr
    <2> QED BY <2>2, <2>3, <2>4
  <1>b. up = [[at EXCEPT ![new] = hi] EXCEPT ![Other(new)] = lo]
    BY <1>0 DEF Ranked
  <1>1. up \in [Slots -> Attr] /\ up[new] = hi /\ up[Other(new)] = lo
    <2> HIDE DEF hi, lo, up
    <2> QED BY <1>0, <1>a, <1>b
  <1>2. up[new].active /\ ~up[Other(new)].active
    BY <1>1, <1>a
  <1>3. up[new].prio > 0 /\ up[new].retry > 0 /\ ~up[new].unboot
    BY <1>1, Bits
  <1>4. Active(up) = new
    BY <1>2, <1>3 DEF Active, Candidate, Slots, Other
  <1>5. Sane(up)
    <2>1. ~IsFirstBoot(up)
      BY <1>4 DEF IsFirstBoot, Slots, NoSlot
    <2>2. ~(up["_a"].active /\ up["_b"].active)
      BY <1>2 DEF Slots, Other
    <2>3. \A s \in Slots : up[s].active => up[s].prio > 0
      BY <1>2, <1>3 DEF Slots, Other
    <2> QED BY <2>1, <2>2, <2>3 DEF Sane
  <1>6. Marked(up, new) = up
    BY <1>1, <1>4, <1>5, MarkedActive
  <1>7. Bootable(up[new])
    BY <1>3 DEF Bootable
  <1> QED BY <1>1, <1>4, <1>5, <1>6, <1>7

\* FastbootUpdateAttr does not change the active slot.
LEMMA UpdatedActive ==
  ASSUME NEW at \in [Slots -> Attr], Sane(at), NEW s \in Slots
  PROVE  LET up == [at EXCEPT ![s] = FastbootUpdateAttr(@)] IN
         /\ up \in [Slots -> Attr] /\ Sane(up) /\ Active(up) = Active(at)
         /\ \A t \in Slots : Bootable(at[t]) => Bootable(up[t])
  <1> DEFINE up == [at EXCEPT ![s] = FastbootUpdateAttr(@)]
  <1>0. at[s] \in Attr /\ FastbootUpdateAttr(at[s]) \in Attr
    BY AttrEdits, Bits DEF FastbootUpdateAttr
  <1>1. /\ up \in [Slots -> Attr]
        /\ up[s] = FastbootUpdateAttr(at[s]) /\ up[Other(s)] = at[Other(s)]
    BY <1>0 DEF Slots, Other
  <1>2. /\ up[s].active = at[s].active /\ up[s].prio > 0 /\ up[s].retry > 0
        /\ ~up[s].unboot
    BY <1>0, <1>1, Bits DEF FastbootUpdateAttr, Attr
  <1>3. /\ ~(at["_a"].active /\ at["_b"].active)
        /\ \A t \in Slots : at[t].active => at[t].prio > 0
        /\ \A t \in Slots : at[t].prio \in 0..3 /\ at[t].active \in BOOLEAN
    BY DEF Sane, Attr, Slots, MAX_PRIORITY
  <1>4. Active(up) = Active(at)
    BY <1>1, <1>2, <1>3 DEF Active, Candidate, Slots, Other
  <1>5. Sane(up)
    BY <1>1, <1>2, <1>3, <1>4 DEF Sane, IsFirstBoot, Slots, Other
  <1>6. \A t \in Slots : Bootable(at[t]) => Bootable(up[t])
    BY <1>1, <1>2 DEF Bootable, Slots, Other
  <1> QED BY <1>1, <1>4, <1>5, <1>6

\* Setting or clearing the unbootable flag of the active slot keeps it active.
LEMMA FlaggedActive ==
  ASSUME NEW at \in [Slots -> Attr], Sane(at), NEW s \in Slots, Active(at) = s,
         NEW b \in BOOLEAN
  PROVE  LET up == [at EXCEPT ![s].unboot = b] IN
         /\ up \in [Slots -> Attr] /\ Sane(up) /\ Active(up) = s
         /\ ~b /\ Bootable(at[s]) => Bootable(up[s])
  <1> DEFINE up == [at EXCEPT ![s].unboot = b]
  <1>1. /\ up \in [Slots -> Attr]
        /\ \A t \in Slots : up[t].active = at[t].active /\ up[t].prio = at[t].prio
        /\ up[s].unboot = b /\ up[s].succ = at[s].succ /\ up[s].retry = at[s].retry
    BY DEF Slots, Attr
  <1>2. Active(up) = s
    BY <1>1 DEF Active, Candidate, Slots
  <1>3. Sane(up)
    BY <1>1, <1>2 DEF Sane, IsFirstBoot, Slots, NoSlot
  <1> QED BY <1>1, <1>2, <1>3 DEF Bootable

-----------------------------------------------------------------------------
(* Types. *)

\* The priorities SetActiveSlot writes keep the type, for a suffix "_" too.
LEMMA RankedType ==
  ASSUME NEW at \in [Slots -> Attr], NEW new \in Slots \cup {"_"}, NEW r \in BOOLEAN
  PROVE  Ranked(at, new, r) \in [Slots -> Attr]
  <1> DEFINE b  == BootEntry(new)
             hi == [prio |-> MAX_PRIORITY, active |-> TRUE, retry |-> MAX_RETRY_COUNT,
                    succ |-> at[b].succ /\ ~r, unboot |-> FALSE]
             up == [at EXCEPT ![b] = hi]
             lo == [up[Other(new)] EXCEPT !.prio = MAX_PRIORITY - 1, !.active = FALSE]
  <1>1. Other(new) \in Slots /\ b \in Slots
    BY DEF Other, Slots, BootEntry
  <1>2. hi \in Attr
    BY <1>1, Bits DEF Attr
  <1>3. up \in [Slots -> Attr]
    BY <1>1, <1>2
  <1>4. lo \in Attr
    <2>1. up[Other(new)] \in Attr
      BY <1>1, <1>3
    <2> QED BY <2>1, AttrEdits, Bits
  <1>5. Ranked(at, new, r) = [up EXCEPT ![Other(new)] = lo]
    BY <1>1 DEF Ranked
  <1> QED BY <1>1, <1>3, <1>4, <1>5

\* MarkPtnActive keeps the type.
LEMMA MarkedType ==
  ASSUME NEW at \in [Slots -> Attr], NEW s
  PROVE  Marked(at, s) \in [Slots -> Attr]
  <1>1. ASSUME NEW t \in Slots PROVE [at[t] EXCEPT !.active = (s = t \/ s = "_")] \in Attr
    BY DEF Attr
  <1> QED BY <1>1 DEF Marked

\* GetActiveSlot keeps the type of the entries.
LEMMA SeenType ==
  ASSUME NEW p \in Ptn
  PROVE  Seen(p) \in Ptn /\ Seen(p).attr \in [Slots -> Attr]
  BY DefaultedType DEF Seen, Ptn

\* The boot LUN is only ever switched between 1 and 2.
LEMMA SwitchLunType ==
  ASSUME NEW l \in {1, 2}, NEW new PROVE SwitchLun(l, new) \in {1, 2}
  BY DEF SwitchLun

\* A swap of type GUIDs leaves one slot per partition with its own GUID.
LEMMA SwappedType ==
  ASSUME NEW guid \in [Pairs -> Slots], NEW parts
  PROVE  Swapped(guid, parts) \in [Pairs -> Slots]
  BY DEF Swapped, Other, Slots

\* SetActiveSlot keeps the types.
LEMMA SetActiveType ==
  ASSUME lun \in {1, 2}, HeadNode \subseteq Pairs,
         NEW p \in Ptn, NEW new \in Slots \cup {"_"}, NEW r \in BOOLEAN,
         SetActiveSlot(p, new, r)
  PROVE  ptn' \in Ptn /\ lun' \in {1, 2} /\ HeadNode' \subseteq Pairs
  <1> DEFINE at == Ranked(p.attr, new, r)
  <1>1. p.attr \in [Slots -> Attr] /\ p.guid \in [Pairs -> Slots]
    BY DEF Ptn
  <1>2. at \in [Slots -> Attr] /\ Marked(at, new) \in [Slots -> Attr]
    BY <1>1, RankedType, MarkedType
  <1>3. CASE Active(p.attr) = new /\ ptn' = [p EXCEPT !.attr = at]
             /\ lun' = SwitchLun(lun, new) /\ HeadNode' = HeadNode
    BY <1>1, <1>2, <1>3, SwitchLunType DEF Ptn
  <1>4. CASE SwitchPtnSlots(Marked(at, new), p.guid, new)
    <2>1. CASE \E parts \in SUBSET Pairs :
                 /\ ptn' = [attr |-> Marked(at, new), guid |-> Swapped(p.guid, parts)]
                 /\ lun' = SwitchLun(lun, new) /\ HeadNode' = parts
      <3>1. PICK parts \in SUBSET Pairs :
              /\ ptn' = [attr |-> Marked(at, new), guid |-> Swapped(p.guid, parts)]
              /\ lun' = SwitchLun(lun, new) /\ HeadNode' = parts
        BY <2>1
      <3>2. Swapped(p.guid, parts) \in [Pairs -> Slots]
        BY <1>1, SwappedType
      <3>3. ptn' \in Ptn
        BY <1>2, <3>1, <3>2 DEF Ptn
      <3>4. lun' \in {1, 2}
        BY <3>1, SwitchLunType
      <3> QED BY <3>1, <3>3, <3>4
    <2>2. CASE /\ HeadNode' \in (SUBSET Pairs) \ {Pairs}
               /\ ptn' = [attr |-> Marked(at, new), guid |-> p.guid] /\ lun' = lun
      BY <1>1, <1>2, <2>2 DEF Ptn
    <2> QED BY <1>4, <2>1, <2>2 DEF SwitchPtnSlots
  <1> QED BY <1>3, <1>4 DEF SetActiveSlot

\* HandleActiveSlotUnbootable keeps the types.
LEMMA HandleType ==
  ASSUME TypeOK, NEW p \in Ptn, Active(p.attr) \in Slots,
         NEW next \in {"fastboot", "reset"}, HandleActiveSlotUnbootable(p, next)
  PROVE  /\ ptn' \in Ptn /\ lun' \in {1, 2} /\ HeadNode' \subseteq Pairs
         /\ FirstBoot' \in BOOLEAN /\ fresh' \in BOOLEAN
         /\ phase' \in {"fastboot", "reset"} /\ asked' \in Slots \cup {NoSlot}
  <1> DEFINE s == Active(p.attr)
             first == FirstSeen(ptn) /\ ~UserBuild
             q == IF first THEN p ELSE [p EXCEPT !.attr[s].unboot = TRUE]
  <1>1. q \in Ptn
    <2>1. p.attr \in [Slots -> Attr] /\ p.attr[s] \in Attr
      BY DEF Ptn
    <2>2. [p.attr[s] EXCEPT !.unboot = TRUE] \in Attr
      BY <2>1 DEF Attr
    <2>3. [p EXCEPT !.attr[s].unboot = TRUE] \in Ptn
      BY <2>1, <2>2 DEF Ptn
    <2> QED BY <2>3
  <1>2. Other(s) \in Slots
    BY DEF Other, Slots
  <1>3. FirstBoot' \in BOOLEAN /\ fresh' \in BOOLEAN
    BY DEF HandleActiveSlotUnbootable
  <1>4. CASE SetActiveSlot(q, Other(s), FALSE) /\ phase' = "reset" /\ asked' = Other(s)
    BY <1>1, <1>2, <1>3, <1>4, SetActiveType DEF TypeOK
  <1>5. CASE ptn' = q /\ phase' = next /\ UNCHANGED <<lun, HeadNode, asked>>
    BY <1>1, <1>3, <1>5 DEF TypeOK
  <1> QED BY <1>4, <1>5 DEF HandleActiveSlotUnbootable

\* LoadImageAndAuth keeps the types.
LEMMA LoadType ==
  ASSUME TypeOK, NEW p \in Ptn, Active(p.attr) \in Slots, NEW good \in BOOLEAN,
         NEW fits \in BOOLEAN, phase = "fastboot", LoadImageAndAuth(p, good, fits)
  PROVE  /\ ptn' \in Ptn /\ lun' \in {1, 2} /\ HeadNode' \subseteq Pairs
         /\ FirstBoot' \in BOOLEAN /\ fresh' \in BOOLEAN
         /\ phase' \in {"fastboot", "reset", "linux"}
         /\ asked' \in Slots \cup {NoSlot} /\ booted' \in Slots \cup {NoSlot}
  <1> DEFINE s == Active(p.attr)
             m == [p EXCEPT !.attr = Marked(@, s)]
             next == IF Unlocked THEN "fastboot" ELSE "reset"
  <1>1. CASE Bootable(p.attr[s]) /\ ValidateSlotGuids(p.guid, s) /\ LoadImage(m, s, good, fits)
    <2>1. m \in Ptn
      BY MarkedType DEF Ptn
    <2>2. CASE ~good /\ VerifiedBoot2 /\ HandleActiveSlotUnbootable(m, next)
               /\ booted' = booted
      <3>1. Active(m.attr) \in Slots
        <4>1. /\ p.attr \in [Slots -> Attr] /\ m.attr = Marked(p.attr, s)
              /\ p.attr[s].active /\ p.attr[s].prio > 0
          BY ActiveSlot DEF Ptn
        <4>2. m.attr[s].active /\ m.attr[s].prio > 0
          BY <4>1 DEF Marked, Attr
        <4> QED BY <4>2 DEF Active, Candidate, Slots
      <3>2. next \in {"fastboot", "reset"}
        OBVIOUS
      <3> QED BY <2>1, <2>2, <3>1, <3>2, HandleType DEF TypeOK
    <2>3. CASE /\ good /\ phase' = "linux" /\ booted' = s
               /\ ptn' = m /\ FirstBoot' = FirstSeen(ptn)
               /\ UNCHANGED <<lun, HeadNode, asked, fresh>>
      BY <2>1, <2>3 DEF TypeOK, FirstSeen
    <2>4. CASE /\ ptn' = m /\ FirstBoot' = FirstSeen(ptn)
               /\ UNCHANGED <<lun, HeadNode, phase, booted, asked, fresh>>
      BY <2>1, <2>4 DEF TypeOK, FirstSeen
    <2> QED BY <1>1, <2>2, <2>3, <2>4 DEF LoadImage
  <1>2. CASE /\ ptn' = p /\ FirstBoot' = FirstSeen(ptn)
             /\ UNCHANGED <<lun, HeadNode, phase, booted, asked, fresh>>
    BY <1>2 DEF TypeOK, FirstSeen
  <1>3. CASE HandleActiveSlotUnbootable(p, "fastboot") /\ booted' = booted
    BY <1>3, HandleType DEF TypeOK
  <1> QED BY <1>1, <1>2, <1>3 DEF LoadImageAndAuth, FindBootableSlot

-----------------------------------------------------------------------------
(* Type correctness. *)

\* Every step keeps the types.
LEMMA SlotsTypedStep ==
  ASSUME TypeOK, [Next]_vars PROVE TypeOK'
  <1>0. ptn \in Ptn /\ Seen(ptn) \in Ptn /\ Seen(ptn).attr \in [Slots -> Attr]
    BY SeenType DEF TypeOK
  <1>a. Renewed \in SlotVars
    BY Bits DEF Renewed, SlotVars
  <1>b. \A q \in Ptn : Active(q.attr) \in Slots \cup {NoSlot}
    BY ActiveSlot DEF Ptn
  <1>c. \A q \in Ptn : Published(q.attr) \in [Slots -> SlotVars]
    <2> TAKE q \in Ptn
    <2>1. q.attr \in [Slots -> Attr]
      BY DEF Ptn
    <2>2. ASSUME NEW t \in Slots
          PROVE  [succ |-> q.attr[t].succ, unboot |-> q.attr[t].unboot,
                  retry |-> q.attr[t].retry] \in SlotVars
      BY <2>1 DEF Attr, SlotVars
    <2> QED BY <2>2 DEF Published
  <1>1. CASE LinuxLoaderEntry
    <2>1. ptn' \in Ptn /\ FirstBoot' \in BOOLEAN
      BY <1>1, SeenGpt DEF LinuxLoaderEntry, IsFirstBoot, TypeOK
    <2> QED BY <1>1, <1>b, <1>c, <2>1 DEF LinuxLoaderEntry, TypeOK
  <1>2. ASSUME NEW arg \in SetActiveArgs, CmdSetActive(arg) PROVE TypeOK'
    <2>1. Suffix(arg) \in Slots \cup {"_"}
      BY DEF Suffix, Slots
    <2>2. ptn' \in Ptn /\ lun' \in {1, 2} /\ HeadNode' \subseteq Pairs
      BY <1>2, <1>0, <2>1, SetActiveType DEF CmdSetActive, TypeOK
    <2>3. slotVars' \in [Slots -> SlotVars]
      BY <1>2, <1>a DEF CmdSetActive, TypeOK
    <2>4. FirstBoot' \in BOOLEAN /\ CurrentSlotFB' \in Slots \cup {NoSlot}
      BY <1>2, <1>b, <2>2 DEF CmdSetActive, FirstSeen
    <2> QED BY <1>2, <2>1, <2>2, <2>3, <2>4 DEF CmdSetActive, TypeOK
  <1>3. CASE CmdFlashOrErase
    <2>1. PICK full \in BOOLEAN, s \in Slots, sparse \in BOOLEAN :
            LET p == IF full THEN ptn ELSE Seen(ptn) IN
            /\ FirstBoot' = IF full THEN FirstBoot ELSE FirstSeen(ptn)
            /\ \E i \in {"good", "bad"} : img' = [img EXCEPT ![s] = i]
            /\ ptn' = IF sparse THEN p
                      ELSE [p EXCEPT !.attr[s] = FastbootUpdateAttr(@)]
            /\ slotVars' = IF sparse THEN slotVars ELSE [slotVars EXCEPT ![s] = Renewed]
      BY <1>3 DEF CmdFlashOrErase
    <2> DEFINE p == IF full THEN ptn ELSE Seen(ptn)
    <2>2. p \in Ptn /\ p.attr \in [Slots -> Attr]
      BY <1>0 DEF Ptn
    <2>3. FastbootUpdateAttr(p.attr[s]) \in Attr
      BY <2>2, AttrEdits, Bits DEF FastbootUpdateAttr
    <2>4. [p EXCEPT !.attr[s] = FastbootUpdateAttr(@)] \in Ptn
      BY <2>2, <2>3 DEF Ptn
    <2>5. ptn' \in Ptn
      BY <2>1, <2>2, <2>4
    <2>6. FirstBoot' \in BOOLEAN
      BY <2>1 DEF FirstSeen, TypeOK
    <2>7. img' \in [Slots -> {"good", "bad"}] /\ slotVars' \in [Slots -> SlotVars]
      BY <2>1, <1>a DEF TypeOK
    <2> QED BY <1>3, <2>5, <2>6, <2>7 DEF CmdFlashOrErase, TypeOK
  <1>4. CASE CmdFlashPartition
    <2>1. /\ gpt' \in Gpts /\ ptn' \in Ptn /\ FirstBoot' \in BOOLEAN
          /\ img' \in [Slots -> {"good", "bad"}] /\ slotVars' \in [Slots -> SlotVars]
          /\ asked' \in Slots \cup {NoSlot}
      <3>1. CASE UNCHANGED <<gpt, img, ptn, FirstBoot, slotVars, asked>>
        BY <3>1 DEF TypeOK
      <3>2. CASE ptn' = gpt /\ asked' = NoSlot /\ UNCHANGED <<gpt, img, FirstBoot, slotVars>>
        BY <3>2, SeenGpt DEF TypeOK
      <3>3. CASE \E g \in Gpts :
                   /\ gpt' = g /\ ptn' = Seen(g) /\ FirstBoot' = FirstSeen(g)
                   /\ img' = [s \in Slots |-> "bad"]
                   /\ slotVars' = [s \in Slots |-> Renewed] /\ asked' = NoSlot
        BY <3>3, <1>a, SeenGpt DEF FirstSeen
      <3> QED BY <1>4, <3>1, <3>2, <3>3 DEF CmdFlashPartition
    <2> QED BY <1>4, <2>1 DEF CmdFlashPartition, TypeOK
  <1>5. CASE CmdContinue
    <2>1. Active(Seen(ptn).attr) \in Slots
      BY <1>5, <1>0, <1>b DEF CmdContinue
    <2> DEFINE good == img[Active(Seen(ptn).attr)] = "good"
    <2>2. good \in BOOLEAN /\ phase = "fastboot" /\ LoadImageAndAuth(Seen(ptn), good, TRUE)
      BY <1>5 DEF CmdContinue, Host
    <2> HIDE DEF good
    <2>3. /\ ptn' \in Ptn /\ lun' \in {1, 2} /\ HeadNode' \subseteq Pairs
          /\ FirstBoot' \in BOOLEAN /\ fresh' \in BOOLEAN
          /\ phase' \in {"fastboot", "reset", "linux"}
          /\ asked' \in Slots \cup {NoSlot} /\ booted' \in Slots \cup {NoSlot}
      BY <1>0, <2>1, <2>2, LoadType
    <2> QED BY <1>5, <2>3 DEF CmdContinue, TypeOK
  <1>6. CASE CmdBoot
    <2> DEFINE s == Active(Seen(ptn).attr)
               q == [Seen(ptn) EXCEPT !.attr[s].unboot = FALSE]
    <2>1. s \in Slots
      BY <1>6, <1>0, <1>b DEF CmdBoot
    <2>2. PICK ok \in BOOLEAN, fits \in BOOLEAN : LoadImageAndAuth(q, ok, fits)
      BY <1>6 DEF CmdBoot
    <2>3. q \in Ptn /\ Active(q.attr) \in Slots
      <3>0. Seen(ptn).attr[s] \in Attr
        BY <1>0, <2>1
      <3> DEFINE a == [Seen(ptn).attr[s] EXCEPT !.unboot = FALSE]
      <3>1. a \in Attr /\ a.active = Seen(ptn).attr[s].active /\ a.prio = Seen(ptn).attr[s].prio
        BY <3>0 DEF Attr
      <3>2. q = [Seen(ptn) EXCEPT !.attr = [@ EXCEPT ![s] = a]]
        OBVIOUS
      <3>3. q \in Ptn /\ q.attr[s] = a
        <4> HIDE DEF a, q, s
        <4> QED BY <1>0, <2>1, <3>1, <3>2 DEF Ptn
      <3>4. Seen(ptn).attr[s].active /\ Seen(ptn).attr[s].prio > 0
        BY <1>0, <2>1, ActiveSlot
      <3>5. Candidate(q.attr, s)
        BY <3>1, <3>3, <3>4 DEF Candidate
      <3>6. \A at : Candidate(at, "_a") \/ Candidate(at, "_b") => Active(at) \in Slots
        BY DEF Active, Slots
      <3> QED BY <2>1, <3>3, <3>5, <3>6 DEF Slots
    <2>4. phase = "fastboot"
      BY <1>6 DEF CmdBoot, Host
    <2> HIDE DEF q
    <2>5. /\ ptn' \in Ptn /\ lun' \in {1, 2} /\ HeadNode' \subseteq Pairs
          /\ FirstBoot' \in BOOLEAN /\ fresh' \in BOOLEAN
          /\ phase' \in {"fastboot", "reset", "linux"}
          /\ asked' \in Slots \cup {NoSlot} /\ booted' \in Slots \cup {NoSlot}
      BY <2>2, <2>3, <2>4, LoadType
    <2> QED BY <1>6, <2>5 DEF CmdBoot, TypeOK
  <1>7. CASE Reset
    BY <1>7 DEF Reset, TypeOK
  <1>8. CASE OsUpdate
    BY <1>8 DEF OsUpdate, TypeOK, BootLuns
  <1>9. CASE UNCHANGED vars
    BY <1>9 DEF vars, TypeOK
  <1> QED BY <1>1, <1>2, <1>3, <1>4, <1>5, <1>6, <1>7, <1>8, <1>9 DEF Next

\* Every variable keeps its type, whatever the tables and commands: the boot
\* LUN stays 1 or 2 and attributes stay within their bits.
THEOREM SlotsTyped == Spec => []TypeOK
  <1>1. Init => TypeOK
    <2> SUFFICES ASSUME Init PROVE TypeOK
      OBVIOUS
    <2>1. ptn \in Ptn /\ gpt \in Gpts
      BY SeenGpt DEF Init
    <2>2. lun \in {1, 2}
      BY DEF Init, BootLuns
    <2>3. Renewed \in SlotVars
      BY Bits DEF Renewed, SlotVars
    <2>4. slotVars \in [Slots -> SlotVars]
      BY <2>3 DEF Init
    <2> QED BY <2>1, <2>2, <2>4 DEF Init, TypeOK
  <1>2. TypeOK /\ [Next]_vars => TypeOK'
    BY SlotsTypedStep
  <1> QED BY <1>1, <1>2, PTL DEF Spec

-----------------------------------------------------------------------------
(* set_active, until the next reset. *)

\* From entries that agree SetActiveSlot makes attributes, GUIDs and boot LUN
\* those of the new slot, if memory does not run out.
LEMMA SetActiveSets ==
  ASSUME AllocMayFail = FALSE, lun \in {1, 2}, HeadNode \in {{}, Pairs},
         NEW p \in Ptn, EntriesAgree(p), Active(p.attr) \in Slots,
         NEW new \in Slots, NEW r \in BOOLEAN, SetActiveSlot(p, new, r)
  PROVE  /\ EntriesAgree(ptn') /\ HeadNode' \in {{}, Pairs}
         /\ Active(ptn'.attr) = new /\ lun' = LunOf(new)
         /\ \A q \in Pairs : ptn'.guid[q] = new
         /\ Bootable(ptn'.attr[new])
  <1> DEFINE at == Ranked(p.attr, new, r)
  <1>1. p.attr \in [Slots -> Attr] /\ p.guid \in [Pairs -> Slots]
    BY DEF Ptn
  <1>2. /\ at \in [Slots -> Attr] /\ Active(at) = new /\ Sane(at)
        /\ Marked(at, new) = at /\ Bootable(at[new])
    BY <1>1, RankedActive
  <1>3. SwitchLun(lun, new) = LunOf(new)
    BY DEF SwitchLun, LunOf, Slots
  <1>4. \A q \in Pairs : p.guid[q] = Active(p.attr)
    BY DEF EntriesAgree
  <1> SUFFICES /\ ptn'.attr = at /\ (\A q \in Pairs : ptn'.guid[q] = new)
               /\ lun' = LunOf(new) /\ HeadNode' \in {{}, Pairs}
    BY <1>2 DEF EntriesAgree
  <1> HIDE DEF at
  <1>5. CASE /\ Active(p.attr) = new /\ ptn' = [p EXCEPT !.attr = at]
             /\ lun' = SwitchLun(lun, new) /\ HeadNode' = HeadNode
    BY <1>3, <1>4, <1>5 DEF Ptn
  <1>6. CASE Active(p.attr) # new /\ SwitchPtnSlots(Marked(at, new), p.guid, new)
    <2>1. /\ ptn' = [attr |-> at, guid |-> Swapped(p.guid, Pairs)]
          /\ lun' = SwitchLun(lun, new) /\ HeadNode' = Pairs
      BY <1>2, <1>6 DEF SwitchPtnSlots
    <2>2. Other(Active(p.attr)) = new
      BY <1>6 DEF Other, Slots
    <2>3. \A q \in Pairs : Swapped(p.guid, Pairs)[q] = new
      BY <1>4, <2>2 DEF Swapped
    <2> QED BY <1>3, <2>1, <2>3
  <1> QED BY <1>5, <1>6 DEF SetActiveSlot, at

\* HandleActiveSlotUnbootable keeps the entries in agreement and ends what was
\* promised: it either leaves the slot unbootable or changes to the other one.
LEMMA HandleKeeps ==
  ASSUME AllocMayFail = FALSE, TypeOK, HeadNode \in {{}, Pairs},
         NEW p \in Ptn, EntriesAgree(p), Active(p.attr) \in Slots, NEW next,
         HandleActiveSlotUnbootable(p, next)
  PROVE  /\ EntriesAgree(ptn') /\ HeadNode' \in {{}, Pairs} /\ fresh' = FALSE
         /\ phase' = "reset" \/ Active(ptn'.attr) = Active(p.attr)
  <1> DEFINE s == Active(p.attr)
             first == FirstSeen(ptn) /\ ~UserBuild
             u == [p EXCEPT !.attr[s].unboot = TRUE]
             q == IF first THEN p ELSE u
  <1>1. q \in Ptn /\ EntriesAgree(q) /\ Active(q.attr) = s
    <2>1. p.attr \in [Slots -> Attr] /\ Sane(p.attr) /\ p.guid \in [Pairs -> Slots]
      BY DEF Ptn, EntriesAgree
    <2> DEFINE at == [p.attr EXCEPT ![s].unboot = TRUE]
    <2>2. at \in [Slots -> Attr] /\ Sane(at) /\ Active(at) = s
      BY <2>1, FlaggedActive
    <2>3. u = [p EXCEPT !.attr = at]
      BY DEF Ptn
    <2> HIDE DEF at, u
    <2>4. u \in Ptn /\ u.attr = at /\ u.guid = p.guid
      BY <2>2, <2>3 DEF Ptn
    <2>5. EntriesAgree(u) /\ Active(u.attr) = s
      BY <2>2, <2>4 DEF EntriesAgree
    <2> QED BY <2>4, <2>5
  <1>2. fresh' = FALSE
    BY DEF HandleActiveSlotUnbootable
  <1> HIDE DEF u
  <1>3. CASE SetActiveSlot(q, Other(s), FALSE) /\ phase' = "reset"
    <2>1. Other(s) \in Slots /\ lun \in {1, 2}
      BY DEF Other, Slots, TypeOK
    <2> HIDE DEF q, s
    <2> QED BY <1>1, <1>2, <1>3, <2>1, SetActiveSets DEF s
  <1>4. CASE ptn' = q /\ UNCHANGED HeadNode
    BY <1>1, <1>2, <1>4
  <1> QED BY <1>3, <1>4 DEF HandleActiveSlotUnbootable, u

\* LoadImageAndAuth keeps the entries in agreement; where it does not end what
\* was promised it leaves entries and boot LUN as they were.
LEMMA LoadKeeps ==
  ASSUME AllocMayFail = FALSE, TypeOK, HeadNode \in {{}, Pairs},
         NEW p \in Ptn, EntriesAgree(p), Active(p.attr) \in Slots,
         NEW good, NEW fits, LoadImageAndAuth(p, good, fits)
  PROVE  /\ EntriesAgree(ptn') /\ HeadNode' \in {{}, Pairs}
         /\ fresh' = FALSE \/ (ptn' = p /\ UNCHANGED <<lun, asked, fresh>>)
         /\ phase' = "reset" \/ Active(ptn'.attr) = Active(p.attr)
  <1> DEFINE s == Active(p.attr)
             m == [p EXCEPT !.attr = Marked(@, s)]
  <1>1. m = p
    <2>1. Marked(p.attr, s) = p.attr
      BY MarkedActive DEF EntriesAgree, Ptn
    <2> QED BY <2>1 DEF Ptn
  <1>2. CASE \E next : HandleActiveSlotUnbootable(p, next)
    BY <1>2, HandleKeeps
  <1>3. CASE ptn' = p /\ UNCHANGED <<lun, HeadNode, asked, fresh>>
    BY <1>3
  <1>4. CASE LoadImage(m, s, good, fits)
    <2> HIDE DEF m
    <2> QED BY <1>1, <1>2, <1>3, <1>4 DEF LoadImage
  <1> QED BY <1>2, <1>3, <1>4 DEF LoadImageAndAuth, FindBootableSlot

\* SlotInv, with the types, is inductive, given slot names a and b, memory, and
\* no flash of a partition table.
LEMMA SlotInvariant ==
  ASSUME SetActiveArgs \subseteq {"a", "b"}, AllocMayFail = FALSE,
         "partition" \notin HostOps
  PROVE  Spec => []SlotInv
  <1>1. Init => SlotInv
    BY DEF Init, SlotInv, SetActiveHonoured, CurrentSlotVar
  <1>2. TypeOK /\ SlotInv /\ [Next]_vars => SlotInv'
    <2> SUFFICES ASSUME TypeOK, SlotInv, [Next]_vars PROVE SlotInv'
      OBVIOUS
    <2>0. HeadNode \in {{}, Pairs} /\ SetActiveHonoured /\ CurrentSlotVar
      BY DEF SlotInv
    <2>a. ASSUME phase = "fastboot"
          PROVE  /\ ptn \in Ptn /\ Seen(ptn) = ptn /\ FirstSeen(ptn) = FirstBoot
                 /\ EntriesAgree(ptn)
                 /\ Active(ptn.attr) \in Slots \cup {NoSlot}
      <3>1. EntriesAgree(ptn) /\ Sane(ptn.attr) /\ ptn \in Ptn /\ FirstBoot \in BOOLEAN
        BY <2>a DEF SlotInv, EntriesAgree, TypeOK
      <3>2. Active(ptn.attr) \in Slots \cup {NoSlot}
        BY <3>1, ActiveSlot DEF Ptn
      <3> QED BY <3>1, <3>2, SeenSane
    <2>b. ASSUME EntriesAgree(ptn'), CurrentSlotFB' = Active(ptn'.attr)
          PROVE  CurrentSlotVar'
      <3>1. Defaulted(ptn'.attr) = ptn'.attr
        BY <2>b DEF EntriesAgree, Sane, Defaulted
      <3>2. ptn' \in Ptn
        BY SlotsTypedStep DEF TypeOK
      <3> QED BY <2>b, <3>1, <3>2 DEF CurrentSlotVar, Seen, Ptn
    <2>c. phase = "fastboot" => CurrentSlotFB = Active(ptn.attr)
      BY <2>0, <2>a DEF CurrentSlotVar
    <2>1. CASE LinuxLoaderEntry
      <3>1. EntriesAgree(ptn') /\ CurrentSlotFB' = Active(ptn'.attr)
        BY <2>1, SeenGpt DEF LinuxLoaderEntry, TypeOK
      <3> QED BY <2>1, <2>b, <3>1 DEF LinuxLoaderEntry, SlotInv, SetActiveHonoured
    <2>2. ASSUME NEW arg \in SetActiveArgs, CmdSetActive(arg) PROVE SlotInv'
      <3> DEFINE new == Suffix(arg)
      <3>1. new \in Slots /\ InfoOf(arg) # {}
        BY DEF Suffix, InfoOf, Slots
      <3>2. /\ ptn \in Ptn /\ EntriesAgree(ptn) /\ Active(ptn.attr) \in Slots
            /\ SetActiveSlot(ptn, new, TRUE)
        BY <2>2, <2>a DEF CmdSetActive, Host
      <3>3. asked' = new
        BY <2>2, <3>1 DEF CmdSetActive
      <3> HIDE DEF new
      <3>4. /\ EntriesAgree(ptn') /\ HeadNode' \in {{}, Pairs}
            /\ Active(ptn'.attr) = new /\ lun' = LunOf(new)
            /\ \A q \in Pairs : ptn'.guid[q] = new
            /\ Bootable(ptn'.attr[new])
        BY <2>0, <3>1, <3>2, SetActiveSets DEF TypeOK
      <3>5. SetActiveHonoured'
        BY <3>3, <3>4 DEF SetActiveHonoured
      <3>6. CurrentSlotFB' = Active(ptn'.attr)
        BY <2>2 DEF CmdSetActive
      <3> QED BY <2>b, <3>4, <3>5, <3>6 DEF SlotInv
    <2>3. CASE CmdFlashOrErase
      <3>1. phase = "fastboot" /\ UNCHANGED <<lun, HeadNode, asked, fresh, CurrentSlotFB>>
        BY <2>3 DEF CmdFlashOrErase, Host
      <3>2. PICK s \in Slots, sparse \in BOOLEAN :
              ptn' = IF sparse THEN ptn ELSE [ptn EXCEPT !.attr[s] = FastbootUpdateAttr(@)]
        BY <2>3, <2>a, <3>1 DEF CmdFlashOrErase
      <3>3. CASE ptn' = ptn
        BY <2>a, <2>b, <2>c, <2>0, <3>1, <3>3 DEF SlotInv, SetActiveHonoured
      <3>4. CASE ptn' = [ptn EXCEPT !.attr[s] = FastbootUpdateAttr(@)]
        <4> DEFINE at == [ptn.attr EXCEPT ![s] = FastbootUpdateAttr(@)]
        <4>1. ptn.attr \in [Slots -> Attr] /\ Sane(ptn.attr)
          BY <2>a, <3>1 DEF Ptn, EntriesAgree
        <4>2. /\ Sane(at) /\ Active(at) = Active(ptn.attr)
              /\ \A t \in Slots : Bootable(ptn.attr[t]) => Bootable(at[t])
          BY <4>1, UpdatedActive
        <4>3. ptn' = [ptn EXCEPT !.attr = at]
          BY <3>4, <2>a, <3>1 DEF Ptn
        <4> HIDE DEF at
        <4>4. ptn'.attr = at /\ ptn'.guid = ptn.guid
          BY <4>3, <2>a, <3>1 DEF Ptn
        <4>5. EntriesAgree(ptn')
          BY <4>2, <4>4, <2>a, <3>1 DEF EntriesAgree
        <4>6. SetActiveHonoured'
          BY <2>0, <3>1, <4>2, <4>4 DEF SetActiveHonoured
        <4>7. CurrentSlotFB' = Active(ptn'.attr)
          BY <2>c, <3>1, <4>2, <4>4
        <4> QED BY <2>0, <2>b, <3>1, <4>5, <4>6, <4>7 DEF SlotInv
      <3> QED BY <3>2, <3>3, <3>4
    <2>4. CASE CmdFlashPartition
      BY <2>4 DEF CmdFlashPartition, Host
    <2>5. CASE CmdContinue
      <3>1. phase = "fastboot" /\ Active(ptn.attr) \in Slots
        BY <2>5, <2>a DEF CmdContinue, Host
      <3>2. \E good : LoadImageAndAuth(ptn, good, TRUE)
        BY <2>5, <2>a, <3>1 DEF CmdContinue
      <3>3. /\ EntriesAgree(ptn') /\ HeadNode' \in {{}, Pairs}
            /\ fresh' = FALSE \/ (ptn' = ptn /\ UNCHANGED <<lun, asked, fresh>>)
            /\ phase' = "reset" \/ Active(ptn'.attr) = Active(ptn.attr)
        BY <2>0, <2>a, <3>1, <3>2, LoadKeeps
      <3>4. CurrentSlotVar'
        <4>1. CASE phase' = "reset"
          BY <4>1 DEF CurrentSlotVar
        <4>2. CASE Active(ptn'.attr) = Active(ptn.attr)
          BY <4>2, <2>5, <2>b, <2>c, <3>1, <3>3 DEF CmdContinue
        <4> QED BY <3>3, <4>1, <4>2
      <3> QED BY <2>0, <3>3, <3>4 DEF SlotInv, SetActiveHonoured
    <2>6. CASE CmdBoot
      <3> DEFINE s == Active(ptn.attr)
                 at == [ptn.attr EXCEPT ![s].unboot = FALSE]
                 q == [ptn EXCEPT !.attr[s].unboot = FALSE]
      <3>1. phase = "fastboot" /\ s \in Slots
        BY <2>6, <2>a DEF CmdBoot, Host
      <3>2. PICK ok \in BOOLEAN, fits \in BOOLEAN : LoadImageAndAuth(q, ok, fits)
        BY <2>6, <2>a, <3>1 DEF CmdBoot
      <3>3. ptn.attr \in [Slots -> Attr] /\ Sane(ptn.attr)
        BY <2>a, <3>1 DEF Ptn, EntriesAgree
      <3>4. /\ at \in [Slots -> Attr] /\ Sane(at) /\ Active(at) = s
            /\ Bootable(ptn.attr[s]) => Bootable(at[s])
        BY <3>1, <3>3, FlaggedActive
      <3>5. q = [ptn EXCEPT !.attr = at]
        BY <2>a, <3>1 DEF Ptn
      <3> HIDE DEF at, q
      <3>6. q \in Ptn /\ q.attr = at /\ q.guid = ptn.guid
        BY <3>4, <3>5, <2>a, <3>1 DEF Ptn
      <3>7. EntriesAgree(q) /\ Active(q.attr) \in Slots
        BY <3>1, <3>4, <3>6, <2>a DEF EntriesAgree
      <3>8. /\ EntriesAgree(ptn') /\ HeadNode' \in {{}, Pairs}
            /\ fresh' = FALSE \/ (ptn' = q /\ UNCHANGED <<lun, asked, fresh>>)
            /\ phase' = "reset" \/ Active(ptn'.attr) = Active(q.attr)
        BY <2>0, <3>2, <3>6, <3>7, LoadKeeps
      <3>9. SetActiveHonoured'
        BY <2>0, <3>4, <3>6, <3>8 DEF SetActiveHonoured
      <3>10. CurrentSlotVar'
        <4>1. CASE phase' = "reset"
          BY <4>1 DEF CurrentSlotVar
        <4>2. CASE Active(ptn'.attr) = Active(q.attr)
          <5>1. CurrentSlotFB' = Active(ptn'.attr)
            BY <4>2, <2>6, <2>c, <3>1, <3>4, <3>6 DEF CmdBoot
          <5> QED BY <5>1, <2>b, <3>8
        <4> QED BY <3>8, <4>1, <4>2
      <3> QED BY <3>8, <3>9, <3>10 DEF SlotInv
    <2>7. CASE Reset
      BY <2>7 DEF Reset, SlotInv, SetActiveHonoured, CurrentSlotVar
    <2>8. CASE OsUpdate
      BY <2>8 DEF OsUpdate, SlotInv, SetActiveHonoured, CurrentSlotVar
    <2>9. CASE UNCHANGED vars
      BY <2>9 DEF vars, SlotInv, SetActiveHonoured, CurrentSlotVar
    <2> QED BY <2>1, <2>2, <2>3, <2>4, <2>5, <2>6, <2>7, <2>8, <2>9 DEF Next
  <1> QED BY <1>1, <1>2, SlotsTyped, PTL DEF Spec

\* What set_active asked for stays true of attributes, GUIDs and boot LUN
\* together until a reset or a boot attempt that fails, for every set of tables.
THEOREM SetActiveKept ==
  ASSUME SetActiveArgs \subseteq {"a", "b"}, AllocMayFail = FALSE,
         "partition" \notin HostOps
  PROVE  Spec => []SetActiveHonoured
  <1>1. SlotInv => SetActiveHonoured
    BY DEF SlotInv
  <1> QED BY <1>1, SlotInvariant, PTL

\* getvar current-slot is never stale: every command that may change the slot
\* publishes it again or ends in a reset.
THEOREM CurrentSlotKept ==
  ASSUME SetActiveArgs \subseteq {"a", "b"}, AllocMayFail = FALSE,
         "partition" \notin HostOps
  PROVE  Spec => []CurrentSlotVar
  <1>1. SlotInv => CurrentSlotVar
    BY DEF SlotInv
  <1> QED BY <1>1, SlotInvariant, PTL

\* While set_active is kept, continue boots that slot if its image is good: the
\* slot is found (FindBootableSlot), whatever was flashed, erased or tried to
\* boot since, and LoadImageAndAuth starts it.
THEOREM ContinueKept ==
  ASSUME SetActiveArgs \subseteq {"a", "b"}, AllocMayFail = FALSE,
         "partition" \notin HostOps
  PROVE  Spec => ContinueBoots
  <1>1. TypeOK /\ SlotInv /\ Asked => FindBootableSlot(Seen(ptn), asked) /\ Seen(ptn) = ptn
    <2> SUFFICES ASSUME TypeOK, SlotInv, Asked
                 PROVE  FindBootableSlot(Seen(ptn), asked) /\ Seen(ptn) = ptn
      OBVIOUS
    <2>1. /\ Active(ptn.attr) = asked /\ lun = LunOf(asked)
          /\ (\A p \in Pairs : ptn.guid[p] = asked) /\ Bootable(ptn.attr[asked])
      BY DEF Asked, SlotInv, SetActiveHonoured
    <2>2. asked # NoSlot BY DEF Asked, Slots, NoSlot
    <2>3. Defaulted(ptn.attr) = ptn.attr BY <2>1, <2>2 DEF Defaulted, IsFirstBoot
    <2>4. Seen(ptn) = ptn BY <2>3 DEF Seen, TypeOK, Ptn
    <2> QED BY <2>1, <2>4 DEF FindBootableSlot, ValidateSlotGuids, Pairs
  <1>2. TypeOK /\ SlotInv /\ Asked /\ CmdContinue => phase' = "linux" /\ booted' = asked
    <2> SUFFICES ASSUME TypeOK, SlotInv, Asked, CmdContinue
                 PROVE  phase' = "linux" /\ booted' = asked
      OBVIOUS
    <2>1. FindBootableSlot(ptn, asked) /\ Seen(ptn) = ptn BY <1>1
    <2>2. LoadImageAndAuth(ptn, TRUE, TRUE)
      BY <2>1 DEF CmdContinue, Asked, FindBootableSlot
    <2> QED BY <2>1, <2>2 DEF LoadImageAndAuth, FindBootableSlot, LoadImage
  <1>3. TypeOK /\ SlotInv /\ [Next]_vars =>
          [Asked /\ CmdContinue => phase' = "linux" /\ booted' = asked]_vars
    BY <1>2
  <1> QED BY <1>1, <1>3, SlotInvariant, SlotsTyped, PTL DEF Spec, ContinueBoots

-----------------------------------------------------------------------------
(* What Linux is started from. *)

\* MarkPtnActive makes the slot the current one and leaves its other flags alone.
LEMMA MarkedChoice ==
  ASSUME NEW at \in [Slots -> Attr], NEW s \in Slots, at[s].prio > 0
  PROVE  /\ Active(Marked(at, s)) = s /\ Marked(at, s)[s].unboot = at[s].unboot
         /\ \A t \in Slots : Marked(at, s)[t].active = (s = t) /\ Marked(at, s)[t].prio = at[t].prio
  <1>1. \A t \in Slots : at[t] \in Attr
    OBVIOUS
  <1>2. \A t \in Slots : Marked(at, s)[t] = [at[t] EXCEPT !.active = (s = t \/ s = "_")]
    BY DEF Marked
  <1>3. \A t \in Slots : /\ Marked(at, s)[t].active = (s = t) /\ Marked(at, s)[t].prio = at[t].prio
                         /\ Marked(at, s)[t].unboot = at[t].unboot
    BY <1>1, <1>2 DEF Attr, Slots
  <1>4. Candidate(Marked(at, s), s) /\ ~Candidate(Marked(at, s), Other(s))
    BY <1>3 DEF Candidate, Other, Slots
  <1>5. Active(Marked(at, s)) = s
    BY <1>4 DEF Active, Other, Slots
  <1> QED BY <1>3, <1>5

\* LoadImageAndAuth starts Linux only after FindBootableSlot took the slot.
LEMMA LoadBoots ==
  ASSUME lun \in {1, 2}, NEW p \in Ptn, Active(p.attr) \in Slots, NEW good, NEW fits,
         phase = "fastboot", LoadImageAndAuth(p, good, fits), phase' = "linux"
  PROVE  BootedConsistent'
  <1> DEFINE s == Active(p.attr)
             m == [p EXCEPT !.attr = Marked(@, s)]
  <1>0. p.attr \in [Slots -> Attr] /\ p.attr[s].prio > 0
    BY ActiveSlot DEF Ptn
  <1>1. \A q : ~HandleActiveSlotUnbootable(q, "fastboot") /\ ~HandleActiveSlotUnbootable(q, "reset")
    BY DEF HandleActiveSlotUnbootable
  <1>2. ~HandleActiveSlotUnbootable(m, IF Unlocked THEN "fastboot" ELSE "reset")
    <2> HIDE DEF m
    <2> QED BY <1>1
  <1>3. Bootable(p.attr[s]) /\ ValidateSlotGuids(p.guid, s) /\ LoadImage(m, s, good, fits)
    BY <1>1 DEF LoadImageAndAuth, FindBootableSlot
  <1>4. booted' = s /\ ptn' = m /\ lun' = lun
    BY <1>2, <1>3 DEF LoadImage
  <1>5. ptn'.attr = Marked(p.attr, s)
    BY <1>4 DEF Ptn
  <1>6. Active(ptn'.attr) = s /\ ptn'.attr[s].unboot = p.attr[s].unboot
    BY <1>0, <1>5, MarkedChoice
  <1>7. lun = LunOf(s) /\ ~p.attr[s].unboot
    BY <1>3 DEF ValidateSlotGuids, Bootable
  <1> QED BY <1>4, <1>6, <1>7 DEF BootedConsistent

\* For every set of tables and commands, with memory running out and tables being
\* flashed: Linux is started from the slot the boot LUN belongs to, which is then
\* the current slot and not marked unbootable (FindBootableSlot).
THEOREM BootedRight == Spec => []BootedConsistent
  <1>1. Init => BootedConsistent
    BY DEF Init, BootedConsistent
  <1>2. TypeOK /\ BootedConsistent /\ [Next]_vars => BootedConsistent'
    <2> SUFFICES ASSUME TypeOK, BootedConsistent, [Next]_vars, phase' = "linux"
                 PROVE  BootedConsistent'
      BY DEF BootedConsistent
    <2>0. lun \in {1, 2} /\ Seen(ptn) \in Ptn /\ Seen(ptn).attr \in [Slots -> Attr]
      BY SeenType DEF TypeOK
    <2>a. Active(Seen(ptn).attr) \in Slots \cup {NoSlot}
      BY <2>0, ActiveSlot
    <2>1. CASE CmdContinue
      BY <2>0, <2>1, <2>a, LoadBoots DEF CmdContinue, Host
    <2>2. CASE CmdBoot
      <3> DEFINE s == Active(Seen(ptn).attr)
                 at == [Seen(ptn).attr EXCEPT ![s].unboot = FALSE]
                 q == [Seen(ptn) EXCEPT !.attr[s].unboot = FALSE]
      <3>1. phase = "fastboot" /\ s \in Slots
        BY <2>2, <2>a DEF CmdBoot, Host
      <3>2. PICK ok \in BOOLEAN, fits \in BOOLEAN : LoadImageAndAuth(q, ok, fits)
        BY <2>2 DEF CmdBoot
      <3>3. at \in [Slots -> Attr] /\ \A t \in Slots :
              at[t].active = Seen(ptn).attr[t].active /\ at[t].prio = Seen(ptn).attr[t].prio
        <4> DEFINE old == Seen(ptn).attr
        <4>1. old \in [Slots -> Attr] /\ at = [old EXCEPT ![s].unboot = FALSE]
          BY <2>0
        <4> HIDE DEF old, at, s
        <4>2. at \in [Slots -> Attr] /\ \A t \in Slots :
                at[t].active = old[t].active /\ at[t].prio = old[t].prio
          BY <3>1, <4>1 DEF Attr
        <4> QED BY <4>2 DEF old
      <3>4. Active(at) = s
        BY <3>1, <3>3 DEF Active, Candidate, Slots
      <3>5. q = [Seen(ptn) EXCEPT !.attr = at]
        BY <2>0 DEF Ptn
      <3> HIDE DEF at, q
      <3>6. q \in Ptn /\ q.attr = at
        BY <2>0, <3>3, <3>5 DEF Ptn
      <3> QED BY <2>0, <3>1, <3>2, <3>4, <3>6, LoadBoots
    <2>3. CASE UNCHANGED vars
      BY <2>3 DEF vars, BootedConsistent
    <2>4. ~LinuxLoaderEntry /\ ~CmdFlashOrErase /\ ~CmdFlashPartition /\ ~Reset /\ ~OsUpdate
      BY DEF LinuxLoaderEntry, CmdFlashOrErase, CmdFlashPartition, Reset, OsUpdate, Host
    <2>5. \A arg : ~CmdSetActive(arg)
      BY DEF CmdSetActive
    <2> QED BY <2>1, <2>2, <2>3, <2>4, <2>5 DEF Next
  <1> QED BY <1>1, <1>2, SlotsTyped, PTL DEF Spec

-----------------------------------------------------------------------------
(* One active slot. *)

Single(at) ==
  /\ ~(at["_a"].active /\ at["_b"].active)
  /\ \A s \in Slots : at[s].active => at[s].prio > 0

OneInv == phase # "reset" => Single(ptn.attr)

\* Whether a slot is active, and has a priority then, is all that matters.
LEMMA SingleKept ==
  ASSUME NEW at \in [Slots -> Attr], Single(at), NEW up \in [Slots -> Attr],
         \A s \in Slots : up[s].active => at[s].active /\ up[s].prio > 0
  PROVE  Single(up)
  BY DEF Single, Slots

\* GetActiveSlot makes _a active only when no slot is.
LEMMA SingleSeen ==
  ASSUME NEW p \in Ptn, Single(p.attr)
  PROVE  Single(Seen(p).attr)
  <1>0. p.attr \in [Slots -> Attr] /\ Seen(p).attr = Defaulted(p.attr)
    BY DEF Ptn, Seen
  <1>1. CASE ~IsFirstBoot(p.attr)
    BY <1>0, <1>1 DEF Defaulted
  <1>2. CASE IsFirstBoot(p.attr)
    <2>1. ~p.attr["_a"].active /\ ~p.attr["_b"].active
      BY <1>0, <1>2 DEF IsFirstBoot, Single, Active, Candidate, Slots, NoSlot
    <2> DEFINE a == [p.attr["_a"] EXCEPT !.prio = MAX_PRIORITY, !.active = TRUE,
                                         !.retry = MAX_RETRY_COUNT]
    <2>2. Defaulted(p.attr) = [p.attr EXCEPT !["_a"] = a]
      BY <1>2 DEF Defaulted
    <2>3. a.prio > 0
      <3>1. p.attr["_a"] \in Attr
        BY <1>0 DEF Slots
      <3> QED BY <3>1, Bits DEF Attr
    <2> HIDE DEF a
    <2>4. Defaulted(p.attr)["_a"] = a /\ Defaulted(p.attr)["_b"] = p.attr["_b"]
      BY <1>0, <2>2 DEF Slots
    <2> QED BY <1>0, <2>1, <2>3, <2>4 DEF Single, Slots
  <1> QED BY <1>1, <1>2

\* A table that is read in.
LEMMA SingleGpt ==
  ASSUME NEW g \in Gpts
  PROVE  g \in Ptn /\ Single(g.attr) /\ Single(Seen(g).attr)
  <1>1. g \in Ptn /\ EntriesAgree(Seen(g))
    BY SeenGpt
  <1>2. Single(Seen(g).attr)
    BY <1>1 DEF EntriesAgree, Sane, Single
  <1>3. \A s \in Slots : g.attr[s].active => g.attr[s].prio > 0
    BY GptAssumption
  <1>4. ~(g.attr["_a"].active /\ g.attr["_b"].active)
    <2>1. CASE IsFirstBoot(g.attr)
      BY <2>1 DEF IsFirstBoot
    <2>2. CASE ~IsFirstBoot(g.attr)
      <3>1. Seen(g).attr = g.attr
        BY <1>1, <2>2 DEF Seen, Defaulted, Ptn
      <3> QED BY <1>2, <3>1 DEF Single
    <2> QED BY <2>1, <2>2
  <1> QED BY <1>1, <1>2, <1>3, <1>4 DEF Single

\* SetActiveSlot, whether or not memory runs out.
LEMMA SingleSet ==
  ASSUME NEW p \in Ptn, NEW new \in Slots, NEW r \in BOOLEAN, SetActiveSlot(p, new, r)
  PROVE  Single(ptn'.attr)
  <1> DEFINE at == Ranked(p.attr, new, r)
  <1>1. p.attr \in [Slots -> Attr]
    BY DEF Ptn
  <1>2. Sane(at) /\ Marked(at, new) = at
    BY <1>1, RankedActive
  <1>3. Single(at)
    BY <1>2 DEF Sane, Single
  <1> HIDE DEF at
  <1>4. CASE ptn' = [p EXCEPT !.attr = at]
    BY <1>3, <1>4 DEF Ptn
  <1>5. CASE SwitchPtnSlots(at, p.guid, new)
    BY <1>3, <1>5 DEF SwitchPtnSlots
  <1> QED BY <1>2, <1>4, <1>5 DEF SetActiveSlot, at

\* The unbootable flag has nothing to do with it.
LEMMA SingleFlagged ==
  ASSUME NEW p \in Ptn, Single(p.attr), NEW s \in Slots, NEW b \in BOOLEAN
  PROVE  LET q == [p EXCEPT !.attr[s].unboot = b] IN
         /\ q \in Ptn /\ Single(q.attr)
         /\ \A t \in Slots : q.attr[t].active = p.attr[t].active
                             /\ q.attr[t].prio = p.attr[t].prio
  <1> DEFINE at == [p.attr EXCEPT ![s].unboot = b]
             q == [p EXCEPT !.attr[s].unboot = b]
  <1>0. p.attr \in [Slots -> Attr]
    BY DEF Ptn
  <1>1. at \in [Slots -> Attr] /\ \A t \in Slots :
          at[t].active = p.attr[t].active /\ at[t].prio = p.attr[t].prio
    BY <1>0 DEF Attr
  <1>2. q = [p EXCEPT !.attr = at]
    BY DEF Ptn
  <1>3. Single(at)
    BY <1>1 DEF Single, Slots
  <1> HIDE DEF at, q
  <1>4. q \in Ptn /\ q.attr = at
    BY <1>1, <1>2 DEF Ptn
  <1> QED BY <1>1, <1>3, <1>4 DEF q

LEMMA SingleHandled ==
  ASSUME NEW p \in Ptn, Single(p.attr), Active(p.attr) \in Slots, NEW next,
         HandleActiveSlotUnbootable(p, next)
  PROVE  Single(ptn'.attr)
  <1> DEFINE s == Active(p.attr)
             u == [p EXCEPT !.attr[s].unboot = TRUE]
             q == IF FirstSeen(ptn) /\ ~UserBuild THEN p ELSE u
  <1>1. u \in Ptn /\ Single(u.attr)
    BY SingleFlagged
  <1>2. Other(s) \in Slots
    BY DEF Other, Slots
  <1>3. SetActiveSlot(q, Other(s), FALSE) \/ ptn' = q
    BY DEF HandleActiveSlotUnbootable
  <1> HIDE DEF u
  <1>4. q \in Ptn /\ Single(q.attr)
    BY <1>1
  <1> HIDE DEF q, s
  <1> QED BY <1>2, <1>3, <1>4, SingleSet

LEMMA SingleLoaded ==
  ASSUME NEW p \in Ptn, Single(p.attr), Active(p.attr) \in Slots, NEW good, NEW fits,
         LoadImageAndAuth(p, good, fits)
  PROVE  Single(ptn'.attr)
  <1> DEFINE s == Active(p.attr)
             m == [p EXCEPT !.attr = Marked(@, s)]
  <1>0. p.attr \in [Slots -> Attr] /\ p.attr[s].prio > 0
    BY ActiveSlot DEF Ptn
  <1>1. Marked(p.attr, s) \in [Slots -> Attr]
    BY <1>0, MarkedType
  <1>2. m \in Ptn /\ m.attr = Marked(p.attr, s)
    BY <1>1 DEF Ptn
  <1>3. Active(m.attr) = s
    BY <1>0, <1>2, MarkedChoice
  <1>4. \A t \in Slots : m.attr[t].active = (s = t) /\ m.attr[t].prio = p.attr[t].prio
    BY <1>0, <1>2, MarkedChoice
  <1>5. Single(m.attr)
    BY <1>0, <1>4 DEF Single, Slots
  <1>6. CASE \E next : HandleActiveSlotUnbootable(p, next)
    BY <1>6, SingleHandled
  <1>7. CASE ptn' = p
    BY <1>7
  <1>8. CASE LoadImage(m, s, good, fits)
    <2> HIDE DEF m
    <2>1. CASE ptn' = m
      BY <1>5, <2>1
    <2>2. CASE \E next : HandleActiveSlotUnbootable(m, next)
      BY <1>2, <1>3, <1>5, <2>2, SingleHandled
    <2> QED BY <1>8, <2>1, <2>2 DEF LoadImage
  <1> QED BY <1>6, <1>7, <1>8 DEF LoadImageAndAuth, FindBootableSlot

\* For every set of tables and commands, with memory running out and tables being
\* flashed, boot_a and boot_b are never both active; for slot names that name a
\* slot (the empty one makes MarkPtnActive mark both).
THEOREM OneSlotActive ==
  ASSUME "" \notin SetActiveArgs
  PROVE  Spec => []AtMostOneActive
  <1>1. Init => OneInv
    BY DEF Init, OneInv
  <1>2. TypeOK /\ OneInv /\ [Next]_vars => OneInv'
    <2> SUFFICES ASSUME TypeOK, OneInv, [Next]_vars, phase' # "reset" PROVE Single(ptn'.attr)
      BY DEF OneInv
    <2>0. ptn \in Ptn /\ gpt \in Gpts /\ Seen(ptn) \in Ptn
      BY SeenType DEF TypeOK
    <2>a. ASSUME phase = "fastboot" PROVE Single(ptn.attr) /\ Single(Seen(ptn).attr)
      BY <2>0, <2>a, SingleSeen DEF OneInv
    <2>b. Active(Seen(ptn).attr) \in Slots \cup {NoSlot}
      BY <2>0, ActiveSlot DEF Ptn
    <2>1. CASE LinuxLoaderEntry
      BY <2>0, <2>1, SingleGpt DEF LinuxLoaderEntry
    <2>2. ASSUME NEW arg \in SetActiveArgs, CmdSetActive(arg) PROVE Single(ptn'.attr)
      <3>1. Suffix(arg) \in Slots
        BY GptAssumption DEF Suffix, Slots
      <3>2. SetActiveSlot(Seen(ptn), Suffix(arg), TRUE)
        BY <2>2 DEF CmdSetActive
      <3> QED BY <2>0, <3>1, <3>2, SingleSet
    <2>3. CASE CmdFlashOrErase
      <3>0. phase = "fastboot"
        BY <2>3 DEF CmdFlashOrErase, Host
      <3>1. PICK p \in {ptn, Seen(ptn)}, s \in Slots, sparse \in BOOLEAN :
              ptn' = IF sparse THEN p ELSE [p EXCEPT !.attr[s] = FastbootUpdateAttr(@)]
        BY <2>3 DEF CmdFlashOrErase
      <3>2. p \in Ptn /\ Single(p.attr)
        BY <2>0, <2>a, <3>0
      <3>3. CASE ptn' = p
        BY <3>2, <3>3
      <3>4. CASE ptn' = [p EXCEPT !.attr[s] = FastbootUpdateAttr(@)]
        <4> DEFINE at == [p.attr EXCEPT ![s] = FastbootUpdateAttr(@)]
        <4>1. p.attr \in [Slots -> Attr] /\ p.attr[s] \in Attr
          BY <3>2 DEF Ptn
        <4>2. FastbootUpdateAttr(p.attr[s]) \in Attr
          BY <4>1, AttrEdits, Bits DEF FastbootUpdateAttr
        <4>3. /\ FastbootUpdateAttr(p.attr[s]).active = p.attr[s].active
              /\ FastbootUpdateAttr(p.attr[s]).prio > 0
          BY <4>1, Bits DEF FastbootUpdateAttr, Attr
        <4>4. at \in [Slots -> Attr] /\ at[s] = FastbootUpdateAttr(p.attr[s])
              /\ \A t \in Slots : t # s => at[t] = p.attr[t]
          BY <4>1, <4>2
        <4>5. ptn'.attr = at
          BY <3>2, <3>4 DEF Ptn
        <4> HIDE DEF at
        <4>6. \A t \in Slots : at[t].active => p.attr[t].active /\ at[t].prio > 0
          BY <3>2, <4>3, <4>4 DEF Single
        <4> QED BY <3>2, <4>1, <4>4, <4>5, <4>6, SingleKept
      <3> QED BY <3>1, <3>3, <3>4
    <2>4. CASE CmdFlashPartition
      <3>0. phase = "fastboot"
        BY <2>4 DEF CmdFlashPartition, Host
      <3>1. ptn' = ptn \/ ptn' = gpt \/ \E g \in Gpts : ptn' = Seen(g)
        BY <2>4 DEF CmdFlashPartition
      <3> QED BY <2>0, <2>a, <3>0, <3>1, SingleGpt
    <2>5. CASE CmdContinue
      BY <2>0, <2>5, <2>a, <2>b, SingleLoaded DEF CmdContinue, Host
    <2>6. CASE CmdBoot
      <3> DEFINE s == Active(Seen(ptn).attr)
                 q == [Seen(ptn) EXCEPT !.attr[s].unboot = FALSE]
      <3>1. phase = "fastboot" /\ s \in Slots
        BY <2>6, <2>b DEF CmdBoot, Host
      <3>2. PICK ok \in BOOLEAN, fits \in BOOLEAN : LoadImageAndAuth(q, ok, fits)
        BY <2>6 DEF CmdBoot
      <3>3. /\ q \in Ptn /\ Single(q.attr)
            /\ \A t \in Slots : q.attr[t].active = Seen(ptn).attr[t].active
                                /\ q.attr[t].prio = Seen(ptn).attr[t].prio
        BY <2>0, <2>a, <3>1, SingleFlagged
      <3> HIDE DEF q
      <3>4. Active(q.attr) = s
        BY <3>1, <3>3 DEF Active, Candidate, Slots
      <3> QED BY <3>1, <3>2, <3>3, <3>4, SingleLoaded
    <2>7. CASE UNCHANGED vars
      BY <2>7 DEF vars, OneInv
    <2>8. ~Reset /\ ~OsUpdate
      BY DEF Reset, OsUpdate
    <2> QED BY <2>1, <2>2, <2>3, <2>4, <2>5, <2>6, <2>7, <2>8 DEF Next
  <1>3. OneInv => AtMostOneActive
    BY DEF OneInv, AtMostOneActive, Single
  <1> QED BY <1>1, <1>2, <1>3, SlotsTyped, PTL DEF Spec
=============================================================================
