---------------------------- MODULE EarlyStorage ----------------------------
(***************************************************************************)
(* The store of early hardware errors (MsWheaEarlyStorageLib.c): a header  *)
(* with a checksum and an append-only array of records, in the first bytes *)
(* of the log buffer, which survives a reset.  Every byte is written by    *)
(* itself, so a reset may fall between any two of them.                    *)
(*                                                                         *)
(* Only a read looks the log buffer up in the platform's memory map.  Until *)
(* one has, and for ever on a platform whose map has none, LogBuffer.Address *)
(* is 0: a read fails, while a write or a clear goes to low memory.        *)
(*                                                                         *)
(* A byte is narrowed to 0..MAX_UINT8 and a 16-bit word to two of them.    *)
(* The header keeps the fields the library changes, ActiveRange and        *)
(* Checksum; the signature adds a constant to the sum.                     *)
(***************************************************************************)
EXTENDS Integers, Sequences, Sums

CONSTANTS
  MAX_UINT8,
  OFFSET,         \* MS_WHEA_EARLY_STORAGE_OFFSET
  Capacities,     \* the values of PcdMsWheaReportEarlyStorageCapacity tried
  Records,        \* the records added, as sequences of bytes
  DefaultValue,   \* PcdMsWheaEarlyStorageDefaultValue
  EntrySize,      \* sizeof (MS_WHEA_EARLY_STORAGE_ENTRY_V0)
  MaxAdds         \* records added in a behaviour

VARIABLES
  Capacity,
  mapped,      \* the platform's memory map has a log buffer
  known,       \* LogBuffer.Address is not 0
  mem,         \* the log buffer
  pc,
  job,         \* the bytes still to be written, as <<address, byte>>
  rec,         \* the record under way
  added,       \* history: the records whose addition has begun, and
  done,        \* those whose addition has succeeded, since the last format
  adds,        \* history: the number of additions begun
  torn,        \* history: a reset cut the writing of a header
  low,         \* history: the bytes outside the store that were written
  stray        \* history: the operations that wrote with LogBuffer.Address = 0

vars ==
  <<Capacity, mapped, known, mem, pc, job, rec, added, done, adds, torn, low, stray>>

UINT8 == 0..MAX_UINT8
B == MAX_UINT8 + 1
W == B * B
HEADER_SIZE == 4
DATA_OFFSET == HEADER_SIZE
RANGE == 0      \* offsetof (ActiveRange)
CHECKSUM == 2   \* offsetof (Checksum)

ASSUME StorageAssumption ==
  /\ {MAX_UINT8, OFFSET, EntrySize, MaxAdds} \cup Capacities \subseteq Nat
  /\ OFFSET >= HEADER_SIZE /\ OFFSET + HEADER_SIZE <= MAX_UINT8
  /\ EntrySize > 0 /\ EntrySize % 2 = 0 /\ DefaultValue \in UINT8
  /\ Records \subseteq [1..EntrySize -> UINT8]

U8(n) == n % B

-----------------------------------------------------------------------------
\* MsWheaEarlyStorageGetMaxSize, MsWheaESGetMaxDataCount.
GetMaxSize == IF Capacity < OFFSET THEN 0 ELSE U8(Capacity - OFFSET)
GetMaxDataCount == IF GetMaxSize < DATA_OFFSET THEN 0 ELSE GetMaxSize - DATA_OFFSET

\* Variant: the offset alone is compared.
InRangeStart(size, offset) == size # 0 /\ U8(Capacity) >= offset

\* The check of RawRead, RawWrite and RawClear.
InRange(size, offset) == size # 0 /\ U8(Capacity - size) >= offset

\* MsWheaEarlyStorageRead, Write and Clear accept a request for size bytes.
Accepted(size, offset) == offset < GetMaxSize /\ InRange(size, U8(OFFSET + offset))

Index(offset, i) == U8(U8(OFFSET + offset) + i)
ReadByte(offset) == mem[Index(offset, 0)]
ReadWord(offset) == ReadByte(offset) + B * ReadByte(offset + 1)
Word(n) == <<n % B, n \div B>>

\* Variant: the loop ends a byte early.
BytesShort(data, offset) ==
  [i \in 1..(Len(data) - 1) |-> <<Index(offset, i - 1), data[i]>>]

\* The loop of RawWrite and RawClear.
Bytes(data, offset) ==
  [i \in 1..Len(data) |-> <<Index(offset, i - 1), data[i]>>]

Words(first, n) == [j \in 1..n |-> ReadWord(first + 2 * (j - 1))]

\* Variant: the last record is left out.
DataSumOthers(range) ==
  LET n == (range - EntrySize) \div 2 IN SumTo(Words(DATA_OFFSET, n), n)

\* The loop over the data, word by word.
DataSum(range) ==
  LET n == range \div 2 IN SumTo(Words(DATA_OFFSET, n), n)

\* MsWheaESCalculateChecksum16 of the data and a header with this ActiveRange,
\* and when it succeeds.
ChecksumOf(range) == (W - ((range + DataSum(range)) % W)) % W

Summed(range) ==
  /\ range <= GetMaxSize /\ range % 2 = 0
  /\ \A i \in 0..(range - 1) : i % 2 = 0 => Accepted(2, U8(DATA_OFFSET + i))

Header(range) == Word(range) \o Word(ChecksumOf(range))
ActiveRange == ReadWord(RANGE)

Init ==
  /\ Capacity \in Capacities /\ mapped \in BOOLEAN /\ known = FALSE
  /\ mem = [a \in UINT8 |-> 0]
  /\ pc = "idle" /\ job = <<>> /\ rec = <<>>
  /\ added = <<>> /\ done = <<>> /\ adds = 0
  /\ torn = FALSE /\ low = {} /\ stray = {}

Idle == pc' = "idle" /\ job' = <<>> /\ rec' = <<>>

-----------------------------------------------------------------------------
\* Variant: the first record is replaced.
SlotFirst(range) == [found |-> range + EntrySize <= GetMaxDataCount, at |-> 0]

\* What MsWheaESFindSlot finds from the ActiveRange in its copy of the header.
Slot(range) == [found |-> range + EntrySize <= GetMaxDataCount, at |-> U8(range)]

\* The read of the header succeeds: RawRead accepts it and has found the log buffer.
HeaderRead == Accepted(HEADER_SIZE, 0) /\ mapped

\* The values that MsWheaESFindSlot may take for ActiveRange: it ignores the status
\* of the read, and its copy of the header is not initialised.
RangesRead == IF HeaderRead THEN {ActiveRange} ELSE 0..(W - 1)

\* MsWheaESAddRecordV0 up to the first byte written.
AddRecord(r) ==
  /\ pc = "idle" /\ adds < MaxAdds /\ adds' = adds + 1
  /\ known' = (known \/ HeaderRead)
  /\ \E range \in RangesRead :
       LET at == U8(DATA_OFFSET + Slot(range).at)
           room == Slot(range).found /\ Accepted(EntrySize, at)
       IN
       \/ /\ room
          /\ pc' = "record" /\ job' = Bytes(r, at)
          /\ rec' = r /\ added' = Append(added, r)
       \/ ~room /\ UNCHANGED <<pc, job, rec, added>>
  /\ UNCHANGED <<Capacity, mapped, mem, done, torn, low, stray>>

\* One MmioWrite8, at LogBuffer.Address and the index.
WriteByte ==
  /\ job # <<>> /\ job' = Tail(job)
  /\ \/ /\ known
        /\ mem' = [mem EXCEPT ![Head(job)[1]] = Head(job)[2]]
        /\ low' = low \cup ({Head(job)[1]} \ OFFSET..(Capacity - 1))
        /\ UNCHANGED stray
     \/ ~known /\ stray' = stray \cup {pc} /\ UNCHANGED <<mem, low>>
  /\ UNCHANGED <<Capacity, mapped, known, pc, rec, added, done, adds, torn>>

\* The header is read again and written with the new range and checksum.
UpdateHeader ==
  LET range == ActiveRange + EntrySize IN
  /\ pc = "record" /\ job = <<>>
  /\ known' = (known \/ HeaderRead)
  /\ IF HeaderRead /\ Summed(range)
     THEN pc' = "header" /\ job' = Bytes(Header(range), 0) /\ UNCHANGED rec
     ELSE Idle
  /\ UNCHANGED <<Capacity, mapped, mem, added, done, adds, torn, low, stray>>

\* The header is read back; a checksum that differs is only logged.
AddDone ==
  /\ pc = "header" /\ job = <<>>
  /\ done' = Append(done, rec) /\ torn' = FALSE
  /\ Idle
  /\ UNCHANGED <<Capacity, mapped, known, mem, added, adds, low, stray>>

\* MsWheaEarlyStorageRead by the user of the store, of anything that is accepted.
UserRead ==
  /\ pc = "idle" /\ ~known /\ mapped
  /\ \E size, offset \in UINT8 : Accepted(size, offset)
  /\ known' = TRUE
  /\ UNCHANGED <<Capacity, mapped, mem, pc, job, rec, added, done, adds, torn, low>>
  /\ UNCHANGED stray

\* The user of the store empties it: MsWheaEarlyStorageClear of the whole, then
\* MsWheaEarlyStorageWrite of a header.  Neither looks the log buffer up.
Format ==
  LET cleared == [i \in 1..GetMaxSize |-> DefaultValue] IN
  /\ pc = "idle" /\ added # <<>>
  /\ Accepted(GetMaxSize, 0) /\ Accepted(HEADER_SIZE, 0)
  /\ pc' = "clear" /\ job' = Bytes(cleared, 0) \o Bytes(Word(0) \o Word(0), 0)
  /\ done' = IF known THEN <<>> ELSE done
  /\ UNCHANGED <<Capacity, mapped, known, mem, rec, added, adds, torn, low, stray>>

FormatDone ==
  /\ pc = "clear" /\ job = <<>>
  /\ added' = IF known THEN <<>> ELSE added
  /\ torn' = (torn /\ ~known)
  /\ Idle
  /\ UNCHANGED <<Capacity, mapped, known, mem, done, adds, low, stray>>

\* A reset keeps the log buffer; its address is forgotten.
Reset ==
  /\ pc # "idle" \/ known
  /\ torn' = (torn \/ (known /\ pc \in {"header", "clear"}))
  /\ known' = FALSE /\ Idle
  /\ UNCHANGED <<Capacity, mapped, mem, added, done, adds, low, stray>>

Next ==
  \/ (\E r \in Records : AddRecord(r)) \/ WriteByte \/ UpdateHeader \/ AddDone
  \/ UserRead \/ Format \/ FormatDone \/ Reset

Spec == Init /\ [][Next]_vars

-----------------------------------------------------------------------------
\* The test of the store's user, the sum of all words is 0, and what it then
\* takes from the store.
Valid ==
  LET n == (HEADER_SIZE + ActiveRange) \div 2 IN
  Summed(ActiveRange) /\ SumTo(Words(RANGE, n), n) % W = 0

Stored ==
  [k \in 1..(ActiveRange \div EntrySize) |->
     [i \in 1..EntrySize |-> ReadByte(DATA_OFFSET + (k - 1) * EntrySize + i - 1)]]

\* t is s without some of its members.
Thinned(s, t) ==
  \E at \in [DOMAIN t -> DOMAIN s] :
    /\ \A i, j \in DOMAIN t : i < j => at[i] < at[j]
    /\ \A i \in DOMAIN t : t[i] = s[at[i]]

TypeOK ==
  /\ Capacity \in Capacities /\ mem \in [UINT8 -> UINT8]
  /\ mapped \in BOOLEAN /\ known \in {FALSE, mapped}
  /\ pc \in {"idle", "record", "header", "clear"}
  /\ job \in Seq(UINT8 \X UINT8)
  /\ rec \in Records \cup {<<>>} /\ (pc \in {"record", "header"}) = (rec # <<>>)
  /\ added \in Seq(Records) /\ done \in Seq(Records) /\ adds \in 0..MaxAdds
  /\ torn \in BOOLEAN /\ low \subseteq UINT8
  /\ stray \subseteq {"record", "header", "clear"}

\* In a store that 8 bits can address every byte written in the log buffer lies
\* in the store, and so does every request that is accepted, of whatever size and
\* offset, although sizes and offsets are added in 8 bits.  On a platform that has
\* a log buffer no addition of a record writes low memory, whatever FindSlot's
\* ignored read left behind: only an emptying that no read has gone before does.
WritesInside ==
  Capacity <= B =>
    /\ low = {}
    /\ \A size \in 1..(Capacity - 1), offset \in UINT8 :
         Accepted(size, offset) => OFFSET + offset + size <= Capacity
    /\ mapped => stray \subseteq {"clear"}

\* Whenever the checksum verifies, resets at any byte included, the store holds
\* whole records only, in the order in which they were added.
ValidWhole == Valid => Thinned(added, Stored)

\* A record whose addition succeeded stays in the store, in order, also in one
\* whose header was cut by a reset, until the store is emptied.
DoneKept == done # <<>> => Thinned(Stored, done)

\* Only a reset in the middle of a header leaves a store that does not verify,
\* and the next record that is added repairs it.
ValidUnlessTorn == ~Valid => torn \/ pc \in {"header", "clear"}

\* The checksum tells a whole store from a torn one, both ways.
ChecksumTells == ValidWhole /\ ValidUnlessTorn
=============================================================================
