------------------------------ MODULE GptUpdate ------------------------------
(***************************************************************************)
(* Flashing a partition table: the "partition" branch of CmdFlash          *)
(* (FastbootCmds.c) and UpdatePartitionTable, WriteGpt, ParseGptHeader and *)
(* PatchGpt (PartitionTableUpdate.c), with ErasePartition and              *)
(* GetBlkIOHandles (LinuxLoaderLib.c), on a UFS device of several LUNs.    *)
(*                                                                         *)
(* A LUN holds a protective MBR, two headers and two arrays of entries,    *)
(* each written by a WriteBlocks of its own after the whole LUN has been   *)
(* erased.  Power may be lost, and a write may fail, between any two.      *)
(***************************************************************************)
EXTENDS Naturals

CONSTANTS
  Luns,     \* the LUNs that are configured
  Args,     \* the LUN numbers the host writes after "partition:", or NoLun
  Images,   \* the images the host sends
  MaxFaults, \* bound: failed writes and losses of power
  NoLun     \* NO_LUN: no number was given

VARIABLES
  disk,              \* the medium
  ptn,               \* the table of each LUN in PtnEntries
  Lun,               \* survives the command that set it
  ParseSecondaryGpt, \* static: set by the first image that gets so far
  pc, w,             \* the next write, and the LUN and image it is part of
  answer,
  asked,             \* history: the LUNs the host has named since Init
  faults

vars == <<disk, ptn, Lun, ParseSecondaryGpt, pc, w, answer, asked, faults>>

MAX_LUNS == 8
GPT_LBA == 1
GPT_HEADER_SIZE == 92
HDR_BLOCKS == 2    \* MBR and primary header: the least a parsable image exceeds
GPT_BLOCKS == 11   \* MBR, two headers and two arrays of 4 blocks each

(***************************************************************************)
(* A header as ParseGptHeader sees it: form - signature, and a HeaderSz    *)
(* between GPT_HEADER_SIZE and the block size; crc - the CRC over HeaderSz *)
(* bytes; ranges - usable LBAs within the device, size of an entry, and    *)
(* MaxPtCnt within the array.                                              *)
(***************************************************************************)
Header == [form : BOOLEAN, HeaderSz : Nat, crc : BOOLEAN, CurrentLba : Nat,
           ranges : BOOLEAN, MaxPtCnt : Nat]
\* used: the entries before the first empty one.
Image  == [protective : BOOLEAN, blocks : Nat, first : Header, second : Header,
           used : Nat, table : STRING]

Blank == "blank"
Torn  == "torn"
\* grown: the entry that is extended to the end of the device (0: none).
Entries == [table : STRING, grown : Nat]
\* A header on the medium: crc - the CRC over HeaderSz bytes verifies; entries,
\* over - the array its CRC of the entries was taken from, and how much of it.
OnDisk  == [HeaderSz : Nat, crc : BOOLEAN, CurrentLba : Nat, MaxPtCnt : Nat,
            entries : Entries, over : Nat]
Regions == {"mbr", "first", "second", "entries1", "entries2"}
OneLun  == [mbr : STRING, first : OnDisk, second : OnDisk, entries1 : Entries,
            entries2 : Entries]
EntriesOf(h) == IF h = "first" THEN "entries1" ELSE "entries2"

ASSUME GptUpdateAssumption ==
  /\ Luns \subseteq 0..(MAX_LUNS - 1) /\ NoLun \notin Luns /\ MaxFaults \in Nat
  /\ \A i \in Images : i \in Image /\ i.table # Blank

\* A LUN that holds nothing, or half of what was written to it.
NoEntries(c) == [table |-> c, grown |-> 0]
NoHeader == [HeaderSz |-> 0, crc |-> FALSE, CurrentLba |-> 0, MaxPtCnt |-> 0,
             entries |-> NoEntries(Blank), over |-> 0]
Wiped(c) == [mbr |-> c, first |-> NoHeader, second |-> NoHeader,
             entries1 |-> NoEntries(c), entries2 |-> NoEntries(c)]

\* The table found on each LUN at the start.
OldEntries == [table |-> "old", grown |-> 1]
OldHeader(lba) == [HeaderSz |-> GPT_HEADER_SIZE, crc |-> TRUE, CurrentLba |-> lba,
                   MaxPtCnt |-> 1, entries |-> OldEntries, over |-> 1]
OldLun == [mbr |-> "old", first |-> OldHeader(GPT_LBA), second |-> OldHeader(2),
           entries1 |-> OldEntries, entries2 |-> OldEntries]
BadHeader == [form |-> FALSE, HeaderSz |-> 0, crc |-> FALSE, CurrentLba |-> 0,
              ranges |-> FALSE, MaxPtCnt |-> 0]
NoImage == [protective |-> FALSE, blocks |-> 0, first |-> BadHeader,
            second |-> BadHeader, used |-> 1, table |-> Blank]
NoWork == [lun |-> NoLun, img |-> NoImage]

-----------------------------------------------------------------------------
(***************************************************************************)
(* Reading a table back (external: the partition driver; the rules are     *)
(* those of ParseGptHeader, and the CRC of the entries).                   *)
(***************************************************************************)
Sound(d, h) ==
  /\ d[h].crc
  /\ h = "first" => d[h].CurrentLba = GPT_LBA
  /\ d[EntriesOf(h)] = d[h].entries /\ d[h].over = d[h].MaxPtCnt

Table(d) == IF Sound(d, "first") THEN d["entries1"].table
            ELSE IF Sound(d, "second") THEN d["entries2"].table ELSE Blank

Init ==
  /\ disk = [l \in Luns |-> OldLun] /\ ptn = [l \in Luns |-> Table(OldLun)]
  /\ Lun = NoLun /\ ParseSecondaryGpt = FALSE
  /\ pc = "idle" /\ answer = "none" /\ asked = {} /\ faults = 0
  /\ w = NoWork

-----------------------------------------------------------------------------
\* Variant: the LUN of a command without a number is the first one.
TargetLunDefault(arg) == IF arg = NoLun /\ Lun = NoLun THEN CHOOSE l \in Luns : TRUE
                         ELSE IF arg = NoLun THEN Lun ELSE arg

\* CmdFlash assigns Lun only when the name has a ":".
TargetLun(arg) == IF arg = NoLun THEN Lun ELSE arg

\* CmdFlash refuses a number that is too large, and has assigned it by then: the
\* next command without a number looks up the GUID of that LUN, past the end of
\* LunGuids, and finds no such LUN.
TooLarge(arg) == arg # NoLun /\ arg >= MAX_LUNS

\* UpdatePartitionTable takes GPT images only.
IsGpt(i) == i.blocks > 0 /\ i.protective

\* Variant: the CRC of the header is not looked at.
ParsesNoCrc(h, secondary) ==
  h.form /\ (secondary \/ h.CurrentLba = GPT_LBA) /\ h.ranges

\* ParseGptHeader.  CurrentLba is not looked at once ParseSecondaryGpt is set.
Parses(h, secondary) ==
  /\ h.form /\ h.crc
  /\ secondary \/ h.CurrentLba = GPT_LBA
  /\ h.ranges

FirstParses(i) ==
  i.blocks > HDR_BLOCKS /\ Parses(i.first, ParseSecondaryGpt)
ReachesSecond(i) == FirstParses(i) /\ i.blocks >= GPT_BLOCKS
Accepted(i) == IsGpt(i) /\ ReachesSecond(i) /\ Parses(i.second, TRUE)

(***************************************************************************)
(* PatchGpt works with the MaxPtCnt of the second header, which has been   *)
(* parsed over the first: the last entry is looked for, and the CRCs of    *)
(* both arrays are taken, over that many.  The CRC of a header is taken    *)
(* over GPT_HEADER_SIZE bytes.  The second header's CurrentLba becomes 1.  *)
(* Without a used entry the place of the last one is computed below zero   *)
(* in 32 bits, and the store goes 4 GB past the image: no entry is         *)
(* extended, and the device may stop there (a Reset before the erase).     *)
(***************************************************************************)
PatchedEntries(i) ==
  [table |-> i.table, grown |-> IF i.used < i.second.MaxPtCnt THEN i.used
                                ELSE i.second.MaxPtCnt]

\* Variant: the CRC of the entries is that of the image.
PatchedStale(i, h, lba) ==
  [HeaderSz |-> h.HeaderSz, crc |-> h.HeaderSz = GPT_HEADER_SIZE, CurrentLba |-> lba,
   MaxPtCnt |-> h.MaxPtCnt, over |-> i.second.MaxPtCnt,
   entries |-> [PatchedEntries(i) EXCEPT !.grown = 0]]

Patched(i, h, lba) ==
  [HeaderSz |-> h.HeaderSz, crc |-> h.HeaderSz = GPT_HEADER_SIZE, CurrentLba |-> lba,
   MaxPtCnt |-> h.MaxPtCnt, over |-> i.second.MaxPtCnt,
   entries |-> PatchedEntries(i)]

\* Variant: the last entry is extended in the first array only.
ContentFirstOnly(r) ==
  CASE r = "mbr" -> w.img.table
    [] r = "first" -> Patched(w.img, w.img.first, w.img.first.CurrentLba)
    [] r = "second" -> PatchedStale(w.img, w.img.second, GPT_LBA)
    [] r = "entries1" -> PatchedEntries(w.img)
    [] OTHER -> [PatchedEntries(w.img) EXCEPT !.grown = 0]

\* What is written to each region.
Content(r) ==
  CASE r = "mbr" -> w.img.table
    [] r = "first" -> Patched(w.img, w.img.first, w.img.first.CurrentLba)
    [] r = "second" -> Patched(w.img, w.img.second, GPT_LBA)
    [] OTHER -> PatchedEntries(w.img)

-----------------------------------------------------------------------------
\* WriteGpt up to the erase.  GetBlkIOHandles finds no handle for a LUN that is
\* not configured and says EFI_SUCCESS: WriteGpt returns that, having done nothing.
Flash(arg, i) ==
  LET l == TargetLun(arg) IN
  /\ pc = "idle" /\ Lun' = l
  /\ asked' = asked \cup ({arg} \cap Luns)
  /\ ParseSecondaryGpt' =
       (ParseSecondaryGpt \/ (IsGpt(i) /\ l \in Luns /\ ReachesSecond(i)))
  /\ \/ /\ TooLarge(arg) \/ ~IsGpt(i) \/ (l \in Luns /\ ~Accepted(i))
        /\ pc' = "idle" /\ answer' = "FAIL" /\ w' = NoWork
     \/ /\ ~TooLarge(arg) /\ IsGpt(i) /\ l \notin Luns
        /\ pc' = "reenumerate" /\ answer' = "none"
        /\ w' = [lun |-> l, img |-> NoImage]
     \/ /\ l \in Luns /\ Accepted(i)
        /\ pc' = "erase" /\ answer' = "none" /\ w' = [lun |-> l, img |-> i]
  /\ UNCHANGED <<disk, ptn, faults>>

\* What is left of a LUN of which S has been erased.
Without(d, S) == [r \in Regions |-> IF r \in S THEN Wiped(Blank)[r] ELSE d[r]]

\* ErasePartition waits for the erase to complete.
Erased(d) == Without(d, Regions)

\* A step goes wrong: the command is answered FAIL, or power is lost.
Fault == faults < MaxFaults /\ faults' = faults + 1
Failed == Fault /\ pc' = "idle" /\ answer' = "FAIL" /\ w' = NoWork

\* A failed or interrupted erase has erased some of the regions.
PartErased(l) == \E S \in SUBSET Regions : disk' = [disk EXCEPT ![l] = Without(@, S)]

\* A failed or interrupted write leaves the region as it was, or torn.
PartWritten(l, r) ==
  \E c \in {disk[l][r], Wiped(Torn)[r]} : disk' = [disk EXCEPT ![l][r] = c]

Erase ==
  /\ pc = "erase"
  /\ \/ /\ disk' = [disk EXCEPT ![w.lun] = Erased(@)]
        /\ pc' = "mbr" /\ UNCHANGED <<answer, w, faults>>
     \/ PartErased(w.lun) /\ Failed
  /\ UNCHANGED <<ptn, Lun, ParseSecondaryGpt, asked>>

After(r) ==
  CASE r = "mbr" -> "first" [] r = "first" -> "second"
    [] r = "second" -> "entries1" [] r = "entries1" -> "entries2"
    [] OTHER -> "reenumerate"

\* One WriteBlocks.
Write ==
  /\ pc \in Regions
  /\ \/ /\ disk' = [disk EXCEPT ![w.lun][pc] = Content(pc)]
        /\ pc' = After(pc) /\ UNCHANGED <<answer, w, faults>>
     \/ PartWritten(w.lun, pc) /\ Failed
  /\ UNCHANGED <<ptn, Lun, ParseSecondaryGpt, asked>>

\* Variant: only the LUN just written is read again.
EnumeratedOne == [l \in Luns |-> IF l = w.lun THEN Table(disk[l]) ELSE ptn[l]]

\* EnumeratePartitions and UpdatePartitionEntries look at every LUN.
Enumerated == [l \in Luns |-> Table(disk[l])]

\* ReenumeratePartTable: its events may not be created.
ReenumeratePartTable ==
  /\ pc = "reenumerate" /\ pc' = "idle"
  /\ \/ ptn' = Enumerated /\ answer' = "OKAY" /\ UNCHANGED <<w, faults>>
     \/ UNCHANGED ptn /\ Failed
  /\ UNCHANGED <<disk, Lun, ParseSecondaryGpt, asked>>

\* Power is lost; a write under way may be torn.  The next start reads the tables.
Reset ==
  /\ Fault
  /\ \/ pc \notin Regions \cup {"erase"} /\ UNCHANGED disk
     \/ pc \in Regions /\ PartWritten(w.lun, pc)
     \/ pc = "erase" /\ PartErased(w.lun)
  /\ ptn' = [l \in Luns |-> Table(disk'[l])]
  /\ Lun' = NoLun /\ ParseSecondaryGpt' = FALSE
  /\ pc' = "idle" /\ answer' = "none"
  /\ w' = NoWork
  /\ UNCHANGED asked

Next ==
  \/ \E arg \in Args, i \in Images : Flash(arg, i)
  \/ Erase \/ Write \/ ReenumeratePartTable \/ Reset

Spec == Init /\ [][Next]_vars

-----------------------------------------------------------------------------
TypeOK ==
  /\ disk \in [Luns -> OneLun] /\ ptn \in [Luns -> STRING]
  /\ Lun \in Args \cup {NoLun} /\ ParseSecondaryGpt \in BOOLEAN
  /\ pc \in Regions \cup {"idle", "erase", "reenumerate"}
  /\ w \in [lun : Args \cup {NoLun}, img : Images \cup {NoImage}]
  /\ answer \in {"none", "OKAY", "FAIL"} /\ asked \subseteq Luns /\ faults \in 0..MaxFaults

\* Wherever a write fails or power is lost, the two copies of the table on a
\* LUN never disagree: if both verify, they are the same table (WriteGpt erases
\* the LUN before the first write, and takes the CRCs from what it writes).
CopiesAgree ==
  \A l \in Luns :
    Sound(disk[l], "first") /\ Sound(disk[l], "second")
    => disk[l]["entries1"] = disk[l]["entries2"]

\* A LUN whose number the host never gave keeps its table, whatever Lun is left
\* at by the commands before.
OnlyNamedLuns == \A l \in Luns \ asked : disk[l] = OldLun

\* The image is one for which the CRCs PatchGpt takes are those a reader takes.
Plain(i) ==
  /\ i.first.HeaderSz = GPT_HEADER_SIZE /\ i.second.HeaderSz = GPT_HEADER_SIZE
  /\ i.first.MaxPtCnt = i.second.MaxPtCnt /\ i.first.CurrentLba = GPT_LBA

\* After OKAY both copies on the LUN verify and hold the image that was sent with
\* its last used entry extended, if it has one, whatever an earlier attempt had left
\* there.
FlashedWhole ==
  (answer = "OKAY" /\ w.lun \in Luns /\ Plain(w.img)) =>
    LET d == disk[w.lun] IN
    /\ Sound(d, "first") /\ Sound(d, "second")
    /\ d["entries1"] = PatchedEntries(w.img) /\ d["entries2"] = PatchedEntries(w.img)

\* After OKAY the tables in PtnEntries are those on the medium, on every LUN:
\* the ones an earlier, failed command has damaged too.
EnumeratedAfterOkay == answer = "OKAY" => \A l \in Luns : ptn[l] = Table(disk[l])

\* A table that was not sent is never found: a LUN reads as the table it had, as
\* one of an image accepted whole (both headers of which verified), or as none.
NoInventedTable ==
  \A l \in Luns :
    Table(disk[l]) \in {"old", Blank}
                      \cup {i.table : i \in {j \in Images : j.first.crc /\ j.second.crc}}

\* The tables a LUN can be read with, after any failure: the two copies never
\* contradict each other, and what is found was there before or was sent.
TablesSound == CopiesAgree /\ NoInventedTable

\* OKAY is said of a table that is on the medium whole, and that PtnEntries shows.
OkayMeansFlashed == FlashedWhole /\ EnumeratedAfterOkay

\* What WriteGpt's own message says ("Failed to get the BlockIo for the device"):
\* a table that could not be written is reported as a failure.
OkayWritten == answer = "OKAY" => w.lun \in Luns
=============================================================================
