--------------------------- MODULE GptUpdateProofs ---------------------------
(***************************************************************************)
(* Theorems about GptUpdate, for every set of LUNs and images and any      *)
(* number of failures: which LUNs are touched, what is found on a LUN      *)
(* after failed or interrupted writes, and what OKAY means.                *)
(*                                                                         *)
(* The argument follows WriteGpt.  It erases the LUN first, so that while  *)
(* it writes, every region is blank or holds what this command writes;     *)
(* and both headers take the CRC of their entries from the same array.     *)
(***************************************************************************)
EXTENDS GptUpdate, TLAPS

\* The images of which both headers verified, and the tables a LUN may hold.
SentImages == {j \in Images : j.first.crc /\ j.second.crc}
Sent == {"old"} \cup {i.table : i \in SentImages}

\* A LUN after any writes: headers that verify are of a table that was there or
\* was sent, and if both verify they were made for the same entries.
LunInv(d) ==
  /\ DOMAIN d = Regions
  /\ d["first"].crc => d["first"].entries.table \in Sent
  /\ d["second"].crc => d["second"].entries.table \in Sent
  /\ d["first"].crc /\ d["second"].crc => d["first"].entries = d["second"].entries

\* The regions the command under way, or the last one, has written.
Finished ==
  CASE pc = "mbr" -> {} [] pc = "first" -> {"mbr"} [] pc = "second" -> {"mbr", "first"}
    [] pc = "entries1" -> {"mbr", "first", "second"}
    [] pc = "entries2" -> {"mbr", "first", "second", "entries1"}
    [] OTHER -> Regions

Working == pc \in Regions \cup {"reenumerate"} \/ answer = "OKAY"

\* The command under way: its LUN was named, its image verified, and the LUN
\* holds what it has written and nothing else.
WorkInv ==
  /\ pc # "idle" => answer = "none"
  /\ Lun \in Luns => Lun \in asked
  /\ pc \in Regions \cup {"erase"} => w.lun \in Luns /\ w.lun \in asked /\ w.img \in SentImages
  /\ Working /\ w.lun \in Luns =>
       \A r \in Regions :
         disk[w.lun][r] = IF r \in Finished THEN Content(r) ELSE Wiped(Blank)[r]

GptInv ==
  /\ pc \in Regions \cup {"idle", "erase", "reenumerate"}
  /\ DOMAIN disk = Luns /\ (\A l \in Luns : LunInv(disk[l]))
  /\ OnlyNamedLuns /\ WorkInv /\ EnumeratedAfterOkay

-----------------------------------------------------------------------------
\* What the regions of a wiped LUN are.
LEMMA WipedRegions ==
  ASSUME NEW c
  PROVE  /\ Wiped(c)["first"] = NoHeader /\ Wiped(c)["second"] = NoHeader
         /\ ~NoHeader.crc
BY DEF Wiped, NoHeader

\* What WriteGpt writes to the regions of a LUN.
LEMMA Contents ==
  /\ Content("first") = Patched(w.img, w.img.first, w.img.first.CurrentLba)
  /\ Content("second") = Patched(w.img, w.img.second, GPT_LBA)
  /\ Content("entries1") = PatchedEntries(w.img) /\ Content("entries2") = PatchedEntries(w.img)
BY DEF Content

\* Both headers are made for the same entries, those of the image.
LEMMA HeadersOfImage ==
  ASSUME NEW i, NEW h, NEW lba
  PROVE  /\ Patched(i, h, lba).entries = PatchedEntries(i)
         /\ PatchedEntries(i).table = i.table
         /\ Patched(i, h, lba).crc = (h.HeaderSz = GPT_HEADER_SIZE)
         /\ Patched(i, h, lba).CurrentLba = lba
         /\ Patched(i, h, lba).MaxPtCnt = h.MaxPtCnt
         /\ Patched(i, h, lba).over = i.second.MaxPtCnt
BY DEF Patched, PatchedEntries

\* The table that is there at the start.
LEMMA OldInv == LunInv(OldLun)
<1>1. DOMAIN OldLun = Regions BY DEF OldLun, Regions
<1>2. OldLun["first"].entries = OldEntries /\ OldLun["second"].entries = OldEntries
  BY DEF OldLun, OldHeader
<1>3. OldEntries.table = "old" BY DEF OldEntries
<1> QED BY <1>1, <1>2, <1>3 DEF LunInv, Sent

\* Erasing any of the regions keeps LunInv.
LEMMA WithoutInv ==
  ASSUME NEW d, LunInv(d), NEW S
  PROVE  LunInv(Without(d, S))
<1> DEFINE e == Without(d, S)
<1>1. DOMAIN e = Regions BY DEF Without
<1>2. /\ e["first"] = d["first"] \/ e["first"] = NoHeader
      /\ e["second"] = d["second"] \/ e["second"] = NoHeader
  BY WipedRegions DEF Without, Regions
<1> QED BY <1>1, <1>2, WipedRegions DEF LunInv

\* A write that failed keeps LunInv.
LEMMA TornInv ==
  ASSUME NEW d, LunInv(d), NEW r \in Regions, NEW c \in {d[r], Wiped(Torn)[r]}
  PROVE  LunInv([d EXCEPT ![r] = c])
<1> DEFINE e == [d EXCEPT ![r] = c]
<1>1. DOMAIN e = Regions BY DEF LunInv
<1>2. /\ e["first"] = d["first"] \/ e["first"] = NoHeader
      /\ e["second"] = d["second"] \/ e["second"] = NoHeader
  BY WipedRegions DEF LunInv, Regions
<1> QED BY <1>1, <1>2, WipedRegions DEF LunInv

-----------------------------------------------------------------------------
\* The part of the invariant that speaks of the medium.
DiskInv == DOMAIN disk = Luns /\ \A l \in Luns : LunInv(disk[l])

\* A failed or interrupted erase or write keeps every LUN in order and leaves
\* all LUNs but its own alone.
LEMMA PartStep ==
  ASSUME GptInv,
         (pc \in Regions /\ PartWritten(w.lun, pc)) \/ (pc = "erase" /\ PartErased(w.lun))
  PROVE  DiskInv' /\ (\A l \in Luns \ {w.lun} : disk'[l] = disk[l])
<1>0. w.lun \in Luns /\ DOMAIN disk = Luns /\ \A l \in Luns : LunInv(disk[l])
  BY DEF GptInv, WorkInv
<1>1. CASE pc \in Regions /\ PartWritten(w.lun, pc)
  <2>1. PICK c \in {disk[w.lun][pc], Wiped(Torn)[pc]} :
          disk' = [disk EXCEPT ![w.lun] = [disk[w.lun] EXCEPT ![pc] = c]]
    BY <1>1 DEF PartWritten
  <2>2. LunInv([disk[w.lun] EXCEPT ![pc] = c]) BY <1>0, <1>1, <2>1, TornInv
  <2> QED BY <1>0, <2>1, <2>2 DEF DiskInv
<1>2. CASE pc = "erase" /\ PartErased(w.lun)
  <2>1. PICK S \in SUBSET Regions : disk' = [disk EXCEPT ![w.lun] = Without(disk[w.lun], S)]
    BY <1>2 DEF PartErased
  <2>2. LunInv(Without(disk[w.lun], S)) BY <1>0, WithoutInv
  <2> QED BY <1>0, <2>1, <2>2 DEF DiskInv
<1> QED BY <1>1, <1>2

\* The initial state has the tables that were there.
LEMMA InitInv == Init => GptInv
<1> SUFFICES ASSUME Init PROVE GptInv OBVIOUS
<1>1. DOMAIN disk = Luns /\ \A l \in Luns : disk[l] = OldLun BY DEF Init
<1>2. \A l \in Luns : LunInv(disk[l]) BY <1>1, OldInv
<1>3. OnlyNamedLuns BY <1>1 DEF OnlyNamedLuns
<1>4. pc = "idle" /\ answer = "none" /\ Lun = NoLun BY DEF Init
<1>5. WorkInv BY <1>4, GptUpdateAssumption DEF WorkInv, Working, Regions
<1>6. EnumeratedAfterOkay BY <1>4 DEF EnumeratedAfterOkay
<1> QED BY <1>1, <1>2, <1>3, <1>4, <1>5, <1>6 DEF GptInv

\* A command up to the erase: only a LUN that was named, with an image of which
\* both headers verified, is gone on with.
LEMMA FlashInv ==
  ASSUME GptInv, NEW arg \in Args, NEW i \in Images, Flash(arg, i)
  PROVE  GptInv'
<1> DEFINE l == TargetLun(arg)
<1>0. /\ disk' = disk /\ ptn' = ptn /\ Lun' = l /\ asked' = asked \cup ({arg} \cap Luns)
      /\ pc' \in {"idle", "reenumerate", "erase"} /\ answer' \in {"none", "FAIL"}
      /\ pc' # "idle" => answer' = "none"
      /\ pc' = "reenumerate" => w'.lun \notin Luns
      /\ pc' = "erase" => w'.lun = l /\ w'.img = i /\ l \in Luns /\ Accepted(i)
  BY DEF Flash
<1>1. l \in Luns => l \in asked' BY <1>0 DEF TargetLun, GptInv, WorkInv
<1>2. Accepted(i) => i \in SentImages
  BY DEF Accepted, ReachesSecond, FirstParses, Parses, SentImages
<1>3. WorkInv' BY <1>0, <1>1, <1>2 DEF WorkInv, Working, Regions
<1>4. OnlyNamedLuns' BY <1>0 DEF GptInv, OnlyNamedLuns
<1>5. EnumeratedAfterOkay' BY <1>0 DEF EnumeratedAfterOkay
<1> QED BY <1>0, <1>3, <1>4, <1>5 DEF GptInv, LunInv

\* The end of a command that failed, or of the session: what is on the medium
\* is as PartStep says.
LEMMA StoppedInv ==
  ASSUME GptInv, DiskInv', OnlyNamedLuns', pc' = "idle", answer' \in {"none", "FAIL"},
         asked' = asked, Lun' \in {Lun, NoLun}
  PROVE  GptInv'
<1>1. WorkInv' BY GptUpdateAssumption DEF GptInv, WorkInv, Working, Regions
<1> QED BY <1>1 DEF GptInv, DiskInv, LunInv, EnumeratedAfterOkay

\* Nothing but the LUN of the command changes, and that was named.
LEMMA NamedStep ==
  ASSUME GptInv, pc \in Regions \cup {"erase"}, asked' = asked,
         \A l \in Luns \ {w.lun} : disk'[l] = disk[l]
  PROVE  OnlyNamedLuns'
BY DEF GptInv, OnlyNamedLuns, WorkInv

\* ErasePartition: a complete erase leaves nothing of the old table.
LEMMA EraseInv ==
  ASSUME GptInv, Erase
  PROVE  GptInv'
<1>0. /\ pc = "erase" /\ asked' = asked /\ Lun' = Lun /\ ptn' = ptn
      /\ w.lun \in Luns /\ w.lun \in asked /\ w.img \in SentImages /\ answer = "none"
      /\ DOMAIN disk = Luns /\ (\A l \in Luns : LunInv(disk[l]))
  BY DEF Erase, GptInv, WorkInv
<1>1. CASE PartErased(w.lun) /\ Failed
  <2>1. DiskInv' /\ OnlyNamedLuns' BY <1>0, <1>1, PartStep, NamedStep
  <2> QED BY <1>0, <1>1, <2>1, StoppedInv DEF Failed
<1>2. CASE /\ disk' = [disk EXCEPT ![w.lun] = Erased(disk[w.lun])]
           /\ pc' = "mbr" /\ UNCHANGED <<answer, w, faults>>
  <2>1. LunInv(Erased(disk[w.lun])) BY <1>0, WithoutInv DEF Erased
  <2>2. DiskInv' /\ OnlyNamedLuns' BY <1>0, <1>2, <2>1, NamedStep DEF DiskInv
  <2>3. Finished' = {} BY <1>2 DEF Finished
  <2>4. \A r \in Regions : disk'[w.lun][r] = Wiped(Blank)[r]
    BY <1>0, <1>2 DEF Erased, Without
  <2>5. WorkInv' BY <1>0, <1>2, <2>3, <2>4 DEF GptInv, WorkInv, Working
  <2> QED BY <1>0, <1>2, <2>2, <2>5 DEF GptInv, DiskInv, EnumeratedAfterOkay, Regions
<1> QED BY <1>1, <1>2 DEF Erase

\* One WriteBlocks that completes: the region joins those that are finished.
LEMMA FinishedAfter ==
  ASSUME pc \in Regions, pc' = After(pc)
  PROVE  /\ Finished' = Finished \cup {pc} /\ pc' \in Regions \cup {"reenumerate"}
         /\ pc = "first" => "second" \notin Finished
         /\ pc = "second" => "first" \in Finished
<1>1. CASE pc = "mbr" BY <1>1 DEF After, Finished, Regions
<1>2. CASE pc = "first" BY <1>2 DEF After, Finished, Regions
<1>3. CASE pc = "second" BY <1>3 DEF After, Finished, Regions
<1>4. CASE pc = "entries1" BY <1>4 DEF After, Finished, Regions
<1>5. CASE pc = "entries2" BY <1>5 DEF After, Finished, Regions
<1> QED BY <1>1, <1>2, <1>3, <1>4, <1>5 DEF Regions

\* A completed write keeps the LUN in order: when the first header is written
\* the second is blank, and when the second is written the first is of this image.
LEMMA WrittenInv ==
  ASSUME GptInv, pc \in Regions, pc' = After(pc)
  PROVE  LunInv([disk[w.lun] EXCEPT ![pc] = Content(pc)])
<1> DEFINE d == disk[w.lun]
           e == [d EXCEPT ![pc] = Content(pc)]
<1>0. /\ w.img \in SentImages /\ w.lun \in Luns /\ LunInv(d)
      /\ \A r \in Regions : d[r] = IF r \in Finished THEN Content(r) ELSE Wiped(Blank)[r]
  BY DEF GptInv, WorkInv, Working
<1>1. DOMAIN e = Regions /\ \A r \in Regions : e[r] = IF r = pc THEN Content(pc) ELSE d[r]
  BY <1>0 DEF LunInv
<1>2. PatchedEntries(w.img).table \in Sent BY <1>0, HeadersOfImage DEF Sent
<1>3. /\ Content("first").entries = PatchedEntries(w.img)
      /\ Content("second").entries = PatchedEntries(w.img)
  BY Contents, HeadersOfImage
<1>4. "first" \in Regions /\ "second" \in Regions BY DEF Regions
<1>5. CASE pc = "first"
  <2>1. e["second"] = NoHeader BY <1>0, <1>1, <1>4, <1>5, FinishedAfter, WipedRegions
  <2>2. e["first"] = Content("first") BY <1>1, <1>4, <1>5
  <2> QED BY <1>1, <1>2, <1>3, <2>1, <2>2, WipedRegions DEF LunInv
<1>6. CASE pc = "second"
  <2>1. e["first"] = Content("first") BY <1>0, <1>1, <1>4, <1>6, FinishedAfter
  <2>2. e["second"] = Content("second") BY <1>1, <1>4, <1>6
  <2> QED BY <1>1, <1>2, <1>3, <2>1, <2>2 DEF LunInv
<1>7. CASE pc \notin {"first", "second"}
  <2>1. e["first"] = d["first"] /\ e["second"] = d["second"] BY <1>1, <1>4, <1>7
  <2> QED BY <1>0, <1>1, <2>1 DEF LunInv
<1> QED BY <1>5, <1>6, <1>7

\* WriteGpt's writes keep the invariant, whether they complete or fail.
LEMMA WriteInv ==
  ASSUME GptInv, Write
  PROVE  GptInv'
<1>0. /\ pc \in Regions /\ asked' = asked /\ Lun' = Lun /\ ptn' = ptn /\ pc # "idle"
      /\ w.lun \in Luns /\ w.lun \in asked /\ w.img \in SentImages /\ answer = "none"
      /\ DOMAIN disk = Luns /\ (\A l \in Luns : LunInv(disk[l]))
      /\ \A r \in Regions :
           disk[w.lun][r] = IF r \in Finished THEN Content(r) ELSE Wiped(Blank)[r]
  BY DEF Write, GptInv, WorkInv, Working, Regions
<1>1. CASE PartWritten(w.lun, pc) /\ Failed
  <2>1. DiskInv' /\ OnlyNamedLuns' BY <1>0, <1>1, PartStep, NamedStep
  <2> QED BY <1>0, <1>1, <2>1, StoppedInv DEF Failed
<1>2. CASE /\ disk' = [disk EXCEPT ![w.lun] = [disk[w.lun] EXCEPT ![pc] = Content(pc)]]
           /\ pc' = After(pc) /\ UNCHANGED <<answer, w, faults>>
  <2>1. LunInv([disk[w.lun] EXCEPT ![pc] = Content(pc)]) BY <1>0, <1>2, WrittenInv
  <2>2. DiskInv' /\ OnlyNamedLuns' BY <1>0, <1>2, <2>1, NamedStep DEF DiskInv
  <2>3. Finished' = Finished \cup {pc} /\ pc' \in Regions \cup {"reenumerate"}
    BY <1>0, <1>2, FinishedAfter
  <2>4. \A r \in Regions : Content(r)' = Content(r) BY <1>2 DEF Content
  <2>5. \A r \in Regions : disk'[w.lun][r] = IF r = pc THEN Content(pc) ELSE disk[w.lun][r]
    BY <1>0, <1>2 DEF LunInv
  <2>6. \A r \in Regions :
          disk'[w'.lun][r] = IF r \in Finished' THEN Content(r)' ELSE Wiped(Blank)[r]
    BY <1>0, <1>2, <2>3, <2>4, <2>5
  <2>7. WorkInv' BY <1>0, <1>2, <2>3, <2>6 DEF GptInv, WorkInv, Working, Regions
  <2> QED BY <1>0, <1>2, <2>2, <2>3, <2>7 DEF GptInv, DiskInv, EnumeratedAfterOkay
<1> QED BY <1>1, <1>2 DEF Write

\* ReenumeratePartTable reads every LUN again before OKAY is said.
LEMMA ReenumerateInv ==
  ASSUME GptInv, ReenumeratePartTable
  PROVE  GptInv'
<1>0. pc = "reenumerate" /\ pc' = "idle" /\ disk' = disk /\ asked' = asked /\ Lun' = Lun
  BY DEF ReenumeratePartTable
<1>1. DiskInv' /\ OnlyNamedLuns' BY <1>0 DEF GptInv, DiskInv, LunInv, OnlyNamedLuns
<1>2. CASE Failed BY <1>0, <1>1, <1>2, StoppedInv DEF Failed
<1>3. CASE ptn' = Enumerated /\ answer' = "OKAY" /\ UNCHANGED <<w, faults>>
  <2>1. Finished = Regions /\ Finished' = Regions BY <1>0 DEF Finished
  <2>2. \A r \in Regions : Content(r)' = Content(r) BY <1>3 DEF Content
  <2>3. WorkInv' BY <1>0, <1>3, <2>1, <2>2 DEF GptInv, WorkInv, Working, Regions
  <2>4. EnumeratedAfterOkay' BY <1>0, <1>3 DEF EnumeratedAfterOkay, Enumerated
  <2> QED BY <1>0, <1>1, <2>3, <2>4 DEF GptInv, DiskInv
<1> QED BY <1>2, <1>3 DEF ReenumeratePartTable

\* A loss of power at any moment keeps the invariant.
LEMMA ResetInv ==
  ASSUME GptInv, Reset
  PROVE  GptInv'
<1>0. pc' = "idle" /\ answer' = "none" /\ asked' = asked /\ Lun' = NoLun BY DEF Reset
<1>1. CASE disk' = disk
  BY <1>0, <1>1, StoppedInv DEF GptInv, DiskInv, LunInv, OnlyNamedLuns
<1>2. CASE (pc \in Regions /\ PartWritten(w.lun, pc)) \/ (pc = "erase" /\ PartErased(w.lun))
  <2>1. DiskInv' /\ OnlyNamedLuns' BY <1>0, <1>2, PartStep, NamedStep
  <2> QED BY <1>0, <2>1, StoppedInv
<1> QED BY <1>1, <1>2 DEF Reset

\* Every step keeps the invariant.
LEMMA NextInv == GptInv /\ [Next]_vars => GptInv'
<1> SUFFICES ASSUME GptInv, [Next]_vars PROVE GptInv' OBVIOUS
<1>1. ASSUME NEW arg \in Args, NEW i \in Images, Flash(arg, i) PROVE GptInv'
  BY <1>1, FlashInv
<1>2. CASE Erase BY <1>2, EraseInv
<1>3. CASE Write BY <1>3, WriteInv
<1>4. CASE ReenumeratePartTable BY <1>4, ReenumerateInv
<1>5. CASE Reset BY <1>5, ResetInv
<1>6. CASE UNCHANGED vars
  BY <1>6 DEF vars, GptInv, LunInv, OnlyNamedLuns, WorkInv, Working, Finished, Content,
              EnumeratedAfterOkay, Table, Sound
<1> QED BY <1>1, <1>2, <1>3, <1>4, <1>5, <1>6 DEF Next

\* The invariant holds of every reachable state.
LEMMA GptInvariant == Spec => []GptInv
BY InitInv, NextInv, PTL DEF Spec

-----------------------------------------------------------------------------
\* A LUN whose number the host never gave keeps its table (CmdFlash leaves Lun
\* set between commands), for every set of LUNs and images and any failures.
THEOREM NamedLunsOnly == Spec => []OnlyNamedLuns
<1>1. GptInv => OnlyNamedLuns BY DEF GptInv
<1> QED BY <1>1, GptInvariant, PTL

\* Wherever WriteGpt fails or power is lost, the copies of a LUN do not contradict
\* each other, and a table that is found was there before or was sent.
THEOREM TablesStaySound == Spec => []TablesSound
<1>1. ASSUME NEW d, LunInv(d)
      PROVE  /\ Sound(d, "first") /\ Sound(d, "second") => d["entries1"] = d["entries2"]
             /\ Table(d) \in Sent \cup {Blank}
  BY <1>1 DEF LunInv, Sound, EntriesOf, Table
<1>2. GptInv => CopiesAgree BY <1>1 DEF GptInv, CopiesAgree
<1>3. GptInv => NoInventedTable
  BY <1>1 DEF GptInv, NoInventedTable, Sent, SentImages
<1> QED BY <1>2, <1>3, GptInvariant, PTL DEF TablesSound

\* After OKAY the table is on the medium whole, and PtnEntries shows every LUN as
\* it is (ReenumeratePartTable comes last).
THEOREM OkayIsFlashed == Spec => []OkayMeansFlashed
<1>1. GptInv => FlashedWhole
  <2> SUFFICES ASSUME GptInv, answer = "OKAY", w.lun \in Luns, Plain(w.img)
               PROVE  /\ Sound(disk[w.lun], "first") /\ Sound(disk[w.lun], "second")
                      /\ disk[w.lun]["entries1"] = PatchedEntries(w.img)
                      /\ disk[w.lun]["entries2"] = PatchedEntries(w.img)
    BY DEF FlashedWhole
  <2>1. pc = "idle" BY DEF GptInv, WorkInv
  <2>2. Finished = Regions BY <2>1 DEF Finished
  <2>3. \A r \in Regions : disk[w.lun][r] = Content(r)
    BY <2>2 DEF GptInv, WorkInv, Working
  <2>4. {"first", "second", "entries1", "entries2"} \subseteq Regions BY DEF Regions
  <2>5. /\ disk[w.lun]["first"] = Patched(w.img, w.img.first, w.img.first.CurrentLba)
        /\ disk[w.lun]["second"] = Patched(w.img, w.img.second, GPT_LBA)
        /\ disk[w.lun]["entries1"] = PatchedEntries(w.img)
        /\ disk[w.lun]["entries2"] = PatchedEntries(w.img)
    BY <2>3, <2>4, Contents
  <2>6. /\ w.img.first.HeaderSz = GPT_HEADER_SIZE /\ w.img.second.HeaderSz = GPT_HEADER_SIZE
        /\ w.img.first.MaxPtCnt = w.img.second.MaxPtCnt /\ w.img.first.CurrentLba = GPT_LBA
    BY DEF Plain
  <2>7. Patched(w.img, w.img.first, w.img.first.CurrentLba).crc
        /\ Patched(w.img, w.img.second, GPT_LBA).crc
    BY <2>6 DEF Patched
  <2>8. Sound(disk[w.lun], "first")
    <3>1. EntriesOf("first") = "entries1" BY DEF EntriesOf
    <3> QED BY <2>5, <2>6, <2>7, <3>1, HeadersOfImage DEF Sound
  <2>9. Sound(disk[w.lun], "second")
    <3>1. EntriesOf("second") = "entries2" BY DEF EntriesOf
    <3> QED BY <2>5, <2>7, <3>1, HeadersOfImage DEF Sound
  <2> QED BY <2>5, <2>8, <2>9
<1>2. GptInv => EnumeratedAfterOkay BY DEF GptInv
<1> QED BY <1>1, <1>2, GptInvariant, PTL DEF OkayMeansFlashed
=============================================================================
