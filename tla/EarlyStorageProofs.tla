------------------------- MODULE EarlyStorageProofs -------------------------
(***************************************************************************)
(* Proofs about EarlyStorage, for every capacity that 8 bits can address,  *)
(* every size of record and width of a byte.  Every byte written and every *)
(* request accepted lies inside the store.  The records whose addition     *)
(* succeeded stay in it, whole and in order, across resets between any two *)
(* bytes, and the checksum tells a header that a reset tore.               *)
(***************************************************************************)
EXTENDS EarlyStorage, SequenceTheorems, WellFoundedInduction, TLAPS

\* The store ends where an 8-bit address can reach.
Addressable == Capacity <= B

\* A byte to be written lies in the store, and what goes to the two bytes of
\* ActiveRange is a byte.
Inside(e) ==
  /\ e[1] \in OFFSET..(Capacity - 1)
  /\ e[1] \in {OFFSET, OFFSET + 1} => e[2] \in UINT8

\* The bytes to be written; what the checksum's bytes are does not matter here.
JobInv ==
  /\ \E S : job \in Seq(UINT8 \X S)
  /\ \A k \in 1..Len(job) : Inside(job[k])

\* ActiveRange, which decides where the next record goes, is a word.
MemInv ==
  /\ mem = [a \in UINT8 |-> mem[a]]
  /\ mem[OFFSET] \in UINT8 /\ mem[OFFSET + 1] \in UINT8

\* A record is written after a read that has looked the log buffer up, if there is
\* one, and a header after one that has found it.
BufferInv ==
  /\ pc = "record" => OFFSET + HEADER_SIZE <= Capacity /\ (mapped => known)
  /\ pc = "header" => known
  /\ mapped => stray \subseteq {"clear"}

Inv ==
  /\ Capacity \in Nat /\ (known => mapped)
  /\ pc \in {"idle", "record", "header", "clear"} /\ (pc = "idle" => job = <<>>)
  /\ Addressable => MemInv /\ JobInv /\ low = {} /\ BufferInv

-----------------------------------------------------------------------------
(* Arithmetic in 8 bits                                                    *)

LEMMA ConstantFacts ==
  /\ MAX_UINT8 \in Nat /\ OFFSET \in Nat /\ EntrySize \in Nat \ {0}
  /\ B \in Nat /\ B = MAX_UINT8 + 1 /\ OFFSET >= 4 /\ OFFSET + 4 < B
  /\ UINT8 = 0..(B - 1) /\ DefaultValue \in UINT8
  /\ Capacities \subseteq Nat
<1>1. {MAX_UINT8, OFFSET, EntrySize, MaxAdds} \cup Capacities \subseteq Nat
  BY StorageAssumption
<1>2. /\ OFFSET >= 4 /\ OFFSET + 4 <= MAX_UINT8
      /\ EntrySize > 0 /\ DefaultValue \in UINT8
  BY StorageAssumption DEF HEADER_SIZE
<1>3. MAX_UINT8 \in Nat /\ OFFSET \in Nat /\ EntrySize \in Nat /\ Capacities \subseteq Nat
  BY <1>1
<1> QED
  BY <1>2, <1>3 DEF B, UINT8

LEMMA NoWrap ==
  ASSUME NEW n \in Nat, n < B
  PROVE  U8(n) = n
BY ConstantFacts DEF U8

LEMMA MaxSizeFacts ==
  ASSUME Capacity \in Nat, Addressable
  PROVE  /\ GetMaxSize \in Nat /\ GetMaxSize < B
         /\ GetMaxSize > 0 => GetMaxSize = Capacity - OFFSET
         /\ GetMaxDataCount \in Nat
         /\ GetMaxDataCount > 0 => GetMaxDataCount = GetMaxSize - 4
<1>1. CASE Capacity < OFFSET
  BY <1>1, ConstantFacts DEF GetMaxSize, GetMaxDataCount, DATA_OFFSET, HEADER_SIZE
<1>2. CASE Capacity >= OFFSET
  <2>1. Capacity - OFFSET \in Nat /\ Capacity - OFFSET < B
    BY <1>2, ConstantFacts DEF Addressable
  <2>2. GetMaxSize = Capacity - OFFSET
    BY <1>2, <2>1, NoWrap, ConstantFacts DEF GetMaxSize
  <2> QED
    BY <2>1, <2>2, ConstantFacts DEF GetMaxDataCount, DATA_OFFSET, HEADER_SIZE
<1> QED
  BY <1>1, <1>2, ConstantFacts

\* A request that RawRead, RawWrite and RawClear accept lies in the store.
LEMMA AcceptedInside ==
  ASSUME Capacity \in Nat, Addressable, NEW size \in 1..Capacity, NEW offset \in UINT8,
         Accepted(size, offset)
  PROVE  OFFSET + offset + size <= Capacity
<1>1. offset \in Nat /\ GetMaxSize = Capacity - OFFSET /\ offset < Capacity - OFFSET
  BY MaxSizeFacts, ConstantFacts DEF Accepted
<1>2. U8(OFFSET + offset) = OFFSET + offset
  BY <1>1, NoWrap, ConstantFacts DEF Addressable
<1>3. U8(Capacity - size) >= OFFSET + offset
  BY <1>2 DEF Accepted, InRange
<1>4. Capacity - size \in Nat /\ Capacity - size < B
  BY <1>1, ConstantFacts DEF Addressable
<1> QED
  BY <1>1, <1>3, <1>4, NoWrap, ConstantFacts

\* The addresses of a loop that starts and ends in the store.
LEMMA IndexInside ==
  ASSUME Capacity \in Nat, Addressable, NEW offset \in Nat, NEW i \in Nat,
         OFFSET + offset + i < Capacity
  PROVE  Index(offset, i) = OFFSET + offset + i /\ Index(offset, i) \in UINT8
<1>1. U8(OFFSET + offset) = OFFSET + offset
  BY NoWrap, ConstantFacts DEF Addressable
<1>2. U8(OFFSET + offset + i) = OFFSET + offset + i
  BY NoWrap, ConstantFacts DEF Addressable
<1> QED
  BY <1>1, <1>2, ConstantFacts DEF Index, Addressable

LEMMA RangeTyped ==
  ASSUME MemInv
  PROVE  ActiveRange \in Nat
<1>1. Index(0, 0) = OFFSET /\ Index(1, 0) = OFFSET + 1
  <2>1. /\ U8(OFFSET) = OFFSET /\ U8(OFFSET + 1) = OFFSET + 1
    BY NoWrap, ConstantFacts
  <2> QED
    BY <2>1, ConstantFacts DEF Index
<1>2. ReadByte(0) \in Nat /\ ReadByte(1) \in Nat
  BY <1>1, ConstantFacts DEF ReadByte, MemInv
<1>3. B * ReadByte(1) \in Nat
  BY <1>2, ConstantFacts
<1> QED
  BY <1>2, <1>3 DEF ActiveRange, ReadWord, RANGE

-----------------------------------------------------------------------------
(* Sequences of bytes                                                      *)

\* The bytes of data written from an offset on, when all of them fit.
LEMMA BytesInside ==
  ASSUME Capacity \in Nat, Addressable, NEW T, NEW data \in Seq(T), NEW offset \in Nat,
         OFFSET + offset + Len(data) <= Capacity,
         \A i \in 1..Len(data) : offset + i - 1 < 2 => data[i] \in UINT8
  PROVE  /\ Bytes(data, offset) \in Seq(UINT8 \X T)
         /\ Len(Bytes(data, offset)) = Len(data)
         /\ \A k \in 1..Len(data) : Inside(Bytes(data, offset)[k])
<1>1. \A k \in 1..Len(data) : /\ Index(offset, k - 1) = OFFSET + offset + (k - 1)
                              /\ Index(offset, k - 1) \in UINT8
  BY IndexInside, ConstantFacts
<1>2. \A k \in 1..Len(data) : Bytes(data, offset)[k] = <<Index(offset, k - 1), data[k]>>
  BY DEF Bytes
<1>3. \A k \in 1..Len(data) : <<Index(offset, k - 1), data[k]>> \in UINT8 \X T
  BY <1>1
<1>4. Bytes(data, offset) \in Seq(UINT8 \X T) /\ Len(Bytes(data, offset)) = Len(data)
  BY <1>3 DEF Bytes
<1>5. \A k \in 1..Len(data) : Inside(Bytes(data, offset)[k])
  <2> SUFFICES ASSUME NEW k \in 1..Len(data)
               PROVE  Inside(<<Index(offset, k - 1), data[k]>>)
    BY <1>2
  <2>1. Index(offset, k - 1) \in OFFSET..(Capacity - 1)
    BY <1>1, ConstantFacts
  <2>2. Index(offset, k - 1) \in {OFFSET, OFFSET + 1} => data[k] \in UINT8
    BY <1>1, ConstantFacts
  <2> QED
    BY <2>1, <2>2 DEF Inside
<1> QED
  BY <1>4, <1>5

\* A header is four bytes; the first two are those of its range.
LEMMA HeaderBytes ==
  ASSUME NEW x, NEW y
  PROVE  \E T : /\ Word(x) \o Word(y) \in Seq(T) /\ Len(Word(x) \o Word(y)) = 4
                /\ (Word(x) \o Word(y))[1] = x % B
                /\ (Word(x) \o Word(y))[2] = x \div B
<1> DEFINE T == {x % B, x \div B, y % B, y \div B}
<1>1. Word(x) \in Seq(T) /\ Word(y) \in Seq(T) /\ Len(Word(x)) = 2 /\ Len(Word(y)) = 2
      /\ Word(x)[1] = x % B /\ Word(x)[2] = x \div B
  BY DEF Word
<1> HIDE DEF T
<1>2. /\ Word(x) \o Word(y) \in Seq(T) /\ Len(Word(x) \o Word(y)) = 4
      /\ (Word(x) \o Word(y))[1] = x % B
      /\ (Word(x) \o Word(y))[2] = x \div B
  <2>1. /\ Word(x) \o Word(y) \in Seq(T)
        /\ Len(Word(x) \o Word(y)) = Len(Word(x)) + Len(Word(y))
        /\ \A i \in 1..Len(Word(x)) + Len(Word(y)) : (Word(x) \o Word(y))[i] =
             IF i <= Len(Word(x)) THEN Word(x)[i] ELSE Word(y)[i - Len(Word(x))]
    BY <1>1, ConcatProperties, Zenon
  <2>2. 1 \in 1..2 + 2 /\ 2 \in 1..2 + 2 /\ 1 <= 2 /\ 2 <= 2 /\ 2 + 2 = 4
    OBVIOUS
  <2> QED
    BY <1>1, <2>1, <2>2, Zenon
<1> QED
  BY <1>2

-----------------------------------------------------------------------------
(* The actions                                                             *)

LEMMA InitInv ==
  ASSUME Init
  PROVE  Inv
<1>1. /\ Capacity \in Nat /\ mem = [a \in UINT8 |-> 0] /\ job = <<>> /\ pc = "idle"
      /\ low = {} /\ stray = {} /\ ~known
  BY ConstantFacts DEF Init
<1>2. MemInv
  <2>1. OFFSET \in UINT8 /\ OFFSET + 1 \in UINT8 /\ 0 \in UINT8
    BY ConstantFacts
  <2> QED
    BY <1>1, <2>1 DEF MemInv
<1>3. JobInv
  <2>1. job \in Seq(UINT8 \X UINT8) /\ Len(job) = 0
    BY <1>1
  <2> QED
    BY <2>1 DEF JobInv
<1> QED
  BY <1>1, <1>2, <1>3 DEF Inv, BufferInv

LEMMA EmptyJob ==
  ASSUME job' = <<>>
  PROVE  JobInv'
<1>1. job' \in Seq(UINT8 \X UINT8) /\ Len(job') = 0
  OBVIOUS
<1> QED
  BY <1>1 DEF JobInv

\* The place that FindSlot finds, from the header or from what its copy happens to
\* hold, and that the header's place is then accepted as well.
LEMMA RoomIs ==
  ASSUME Capacity \in Nat, Addressable, NEW range \in Nat, Slot(range).found
  PROVE  /\ U8(DATA_OFFSET + Slot(range).at) = 4 + range
         /\ OFFSET + 4 + range + EntrySize <= Capacity
         /\ Accepted(HEADER_SIZE, 0)
<1> DEFINE at == U8(DATA_OFFSET + Slot(range).at)
<1>1. range + EntrySize <= GetMaxDataCount /\ Slot(range).at = U8(range)
  BY DEF Slot
<1>2. range + EntrySize <= GetMaxSize - 4 /\ GetMaxSize = Capacity - OFFSET
  BY <1>1, MaxSizeFacts, ConstantFacts
<1>3. Slot(range).at = range
  BY <1>1, <1>2, NoWrap, ConstantFacts DEF Addressable
<1>4. at = 4 + range
  BY <1>2, <1>3, NoWrap, ConstantFacts DEF Addressable, DATA_OFFSET, HEADER_SIZE
<1> HIDE DEF at
<1>5. Accepted(HEADER_SIZE, 0)
  <2>1. U8(Capacity - 4) = Capacity - 4 /\ U8(OFFSET + 0) = OFFSET
    BY <1>2, NoWrap, ConstantFacts DEF Addressable
  <2> QED
    BY <1>2, <2>1, ConstantFacts DEF Accepted, InRange, HEADER_SIZE
<1> QED BY <1>2, <1>4, <1>5, ConstantFacts DEF at

LEMMA RangesTyped ==
  ASSUME MemInv
  PROVE  RangesRead \subseteq Nat
BY RangeTyped DEF RangesRead

LEMMA AddRecordInv ==
  ASSUME Inv, NEW r \in Records, AddRecord(r)
  PROVE  Inv'
<1>1. /\ UNCHANGED <<Capacity, mapped, mem, low, stray>> /\ known' = (known \/ HeaderRead)
      /\ pc = "idle" /\ job = <<>> /\ Capacity \in Nat
  BY DEF AddRecord, Inv
<1>2. known' => mapped'
  BY <1>1 DEF Inv, HeaderRead
<1>3. CASE UNCHANGED <<pc, job>>
  BY <1>1, <1>2, <1>3, EmptyJob DEF Inv, Addressable, MemInv, BufferInv
<1>4. ASSUME NEW range \in RangesRead, Slot(range).found, pc' = "record",
             job' = Bytes(r, U8(DATA_OFFSET + Slot(range).at))
      PROVE  Inv'
  <2> SUFFICES ASSUME Addressable
               PROVE  MemInv' /\ JobInv' /\ low' = {} /\ BufferInv'
    BY <1>1, <1>2, <1>4 DEF Inv, Addressable
  <2>1. MemInv' /\ low' = {}
    BY <1>1 DEF Inv, MemInv
  <2>2. range \in Nat
    BY <1>4, RangesTyped DEF Inv
  <2> DEFINE at == U8(DATA_OFFSET + Slot(range).at)
  <2>3. at = 4 + range /\ OFFSET + 4 + range + EntrySize <= Capacity
        /\ Accepted(HEADER_SIZE, 0)
    BY <1>1, <1>4, <2>2, RoomIs
  <2>4. job' = Bytes(r, at)
    BY <1>4
  <2> HIDE DEF at
  <2>5. r \in Seq(UINT8) /\ Len(r) = EntrySize
    <3>1. r \in [1..EntrySize -> UINT8]
      BY StorageAssumption
    <3> QED
      BY <3>1, ConstantFacts
  <2>6. /\ job' \in Seq(UINT8 \X UINT8) /\ Len(job') = Len(r)
        /\ \A k \in 1..Len(r) : Inside(job'[k])
    <3>1. at \in Nat /\ OFFSET + at + Len(r) <= Capacity
      BY <2>2, <2>3, <2>5, ConstantFacts
    <3>2. \A i \in 1..Len(r) : at + i - 1 < 2 => r[i] \in UINT8
      BY <2>5
    <3> QED
      BY <1>1, <2>4, <2>5, <3>1, <3>2, BytesInside
  <2>7. JobInv'
    BY <1>1, <2>6 DEF JobInv, Inside
  <2>8. OFFSET + HEADER_SIZE <= Capacity'
    BY <1>1, <2>2, <2>3, ConstantFacts DEF HEADER_SIZE
  <2>9. mapped' => known'
    BY <1>1, <2>3 DEF HeaderRead
  <2> QED
    BY <1>1, <1>4, <2>1, <2>7, <2>8, <2>9 DEF BufferInv, Inv
<1> QED
  BY <1>3, <1>4 DEF AddRecord

LEMMA WriteByteInv ==
  ASSUME Inv, WriteByte
  PROVE  Inv'
<1>1. /\ job # <<>> /\ job' = Tail(job) /\ UNCHANGED <<Capacity, mapped, known, pc>>
      /\ pc # "idle"
  BY DEF WriteByte, Inv
<1> SUFFICES ASSUME Addressable
             PROVE  MemInv' /\ JobInv' /\ low' = {} /\ BufferInv'
  BY <1>1 DEF Inv, Addressable
<1>2. PICK S : job \in Seq(UINT8 \X S)
  BY DEF Inv, JobInv
<1>3. /\ Tail(job) \in Seq(UINT8 \X S) /\ Len(Tail(job)) = Len(job) - 1
      /\ \A i \in 1..Len(Tail(job)) : Tail(job)[i] = job[i + 1]
      /\ Head(job) = job[1] /\ Len(job) \in Nat \ {0}
  BY <1>1, <1>2, HeadTailProperties, LenProperties, EmptySeq
<1>4. Inside(Head(job))
  BY <1>3 DEF Inv, JobInv
<1>5. JobInv'
  <2>1. \A k \in 1..Len(job') : Inside(job[k + 1])
    BY <1>1, <1>3 DEF Inv, JobInv
  <2> QED
    BY <1>1, <1>3, <2>1 DEF JobInv, Inside
<1>6. CASE /\ mem' = [mem EXCEPT ![Head(job)[1]] = Head(job)[2]]
           /\ low' = low \cup ({Head(job)[1]} \ OFFSET..(Capacity - 1))
           /\ UNCHANGED stray
  <2>1. low' = {}
    BY <1>4, <1>6 DEF Inside, Inv
  <2>2. MemInv'
    <3>1. mem' = [a \in UINT8 |-> mem'[a]]
      BY <1>6 DEF Inv, MemInv
    <3>2. OFFSET \in UINT8 /\ OFFSET + 1 \in UINT8
      BY ConstantFacts
    <3>3. \A a \in UINT8 : mem'[a] = IF a = Head(job)[1] THEN Head(job)[2] ELSE mem[a]
      BY <1>6 DEF Inv, MemInv
    <3> QED
      BY <1>4, <3>1, <3>2, <3>3 DEF Inside, MemInv, Inv
  <2> QED
    BY <1>1, <1>5, <1>6, <2>1, <2>2 DEF BufferInv, Inv
<1>7. CASE ~known /\ stray' = stray \cup {pc} /\ UNCHANGED <<mem, low>>
  <2>1. MemInv' /\ low' = {}
    BY <1>7 DEF Inv, MemInv
  <2>2. mapped => pc = "clear"
    BY <1>1, <1>7 DEF Inv, BufferInv
  <2>3. mapped' => stray' \subseteq {"clear"}
    BY <1>1, <1>7, <2>2 DEF Inv, BufferInv
  <2> QED
    BY <1>1, <1>5, <1>7, <2>1, <2>3 DEF BufferInv, Inv
<1> QED
  BY <1>6, <1>7 DEF WriteByte

LEMMA UpdateHeaderInv ==
  ASSUME Inv, UpdateHeader
  PROVE  Inv'
<1> DEFINE range == ActiveRange + EntrySize
<1>1. /\ UNCHANGED <<Capacity, mapped, mem, low, stray>> /\ pc = "record"
      /\ known' = (known \/ HeaderRead)
  BY DEF UpdateHeader
<1>2. known' => mapped'
  BY <1>1 DEF Inv, HeaderRead
<1>3. CASE pc' = "idle" /\ job' = <<>>
  BY <1>1, <1>2, <1>3, EmptyJob DEF Inv, Addressable, MemInv, BufferInv
<1>4. CASE HeaderRead /\ Summed(range) /\ pc' = "header" /\ job' = Bytes(Header(range), 0)
  <2> SUFFICES ASSUME Addressable
               PROVE  MemInv' /\ JobInv' /\ low' = {} /\ BufferInv'
    BY <1>1, <1>2, <1>4 DEF Inv, Addressable
  <2>0. MemInv' /\ low' = {} /\ OFFSET + HEADER_SIZE <= Capacity
    BY <1>1 DEF Inv, MemInv, BufferInv
  <2>1. ActiveRange \in Nat /\ Capacity \in Nat
    BY RangeTyped DEF Inv
  <2>2. range \in Nat /\ range < B
    BY <1>4, <2>1, MaxSizeFacts, ConstantFacts DEF Summed
  <2> HIDE DEF range
  <2>3. range % B \in UINT8 /\ range \div B \in UINT8
    <3>1. range % B = range
      BY <2>2, NoWrap DEF U8
    <3>2. range \div B = 0
      BY <2>2, ConstantFacts
    <3> QED
      BY <2>2, <3>1, <3>2, ConstantFacts
  <2>4. PICK T : /\ Header(range) \in Seq(T) /\ Len(Header(range)) = 4
                 /\ Header(range)[1] = range % B /\ Header(range)[2] = range \div B
    BY HeaderBytes DEF Header
  <2>5. \A i \in 1..Len(Header(range)) : 0 + i - 1 < 2 => Header(range)[i] \in UINT8
    BY <2>3, <2>4
  <2>6. OFFSET + 0 + Len(Header(range)) <= Capacity
    BY <2>0, <2>4, ConstantFacts DEF HEADER_SIZE
  <2>7. /\ job' \in Seq(UINT8 \X T) /\ Len(job') = 4
        /\ \A k \in 1..4 : Inside(job'[k])
    BY <1>4, <2>1, <2>4, <2>5, <2>6, BytesInside
  <2>8. JobInv'
    BY <1>1, <2>7 DEF JobInv, Inside
  <2> QED
    BY <1>1, <1>4, <2>0, <2>8 DEF BufferInv, Inv
<1> QED
  BY <1>3, <1>4 DEF UpdateHeader, Idle

LEMMA FormatInv ==
  ASSUME Inv, Format
  PROVE  Inv'
<1> DEFINE cleared == [i \in 1..GetMaxSize |-> DefaultValue]
           header == Word(0) \o Word(0)
<1>1. /\ UNCHANGED <<Capacity, mapped, known, mem, low, stray>> /\ pc' = "clear"
      /\ Accepted(GetMaxSize, 0) /\ Accepted(HEADER_SIZE, 0)
      /\ job' = Bytes(cleared, 0) \o Bytes(header, 0)
  BY DEF Format
<1> SUFFICES ASSUME Addressable
             PROVE  MemInv' /\ JobInv' /\ low' = {}
  BY <1>1 DEF Inv, Addressable, BufferInv
<1>2. MemInv' /\ low' = {} /\ Capacity \in Nat
  BY <1>1 DEF Inv, MemInv
<1>3. GetMaxSize \in Nat /\ GetMaxSize = Capacity - OFFSET /\ 0 < GetMaxSize
  BY <1>1, <1>2, MaxSizeFacts DEF Accepted
<1>4. cleared \in Seq(UINT8) /\ Len(cleared) = GetMaxSize
      /\ \A i \in 1..Len(cleared) : cleared[i] \in UINT8
  BY <1>3, ConstantFacts
<1> HIDE DEF cleared
<1>5. PICK T : /\ header \in Seq(T) /\ Len(header) = 4
               /\ header[1] = 0 % B /\ header[2] = 0 \div B
  BY HeaderBytes
<1> HIDE DEF header
<1>6. header[1] \in UINT8 /\ header[2] \in UINT8
  <2>1. 0 % B = 0 /\ 0 \div B = 0
    BY ConstantFacts
  <2> QED
    BY <1>5, <2>1, ConstantFacts
<1>7. /\ Bytes(cleared, 0) \in Seq(UINT8 \X UINT8) /\ Len(Bytes(cleared, 0)) = Len(cleared)
      /\ \A k \in 1..Len(cleared) : Inside(Bytes(cleared, 0)[k])
  <2>1. OFFSET + 0 + Len(cleared) <= Capacity
    BY <1>2, <1>3, <1>4, ConstantFacts
  <2> QED
    BY <1>2, <1>4, <2>1, BytesInside
<1>8. /\ Bytes(header, 0) \in Seq(UINT8 \X T) /\ Len(Bytes(header, 0)) = 4
      /\ \A k \in 1..4 : Inside(Bytes(header, 0)[k])
  <2>1. HEADER_SIZE \in 1..Capacity /\ 0 \in UINT8
    <3>1. CASE Capacity >= 4
      BY <1>2, <3>1, ConstantFacts DEF HEADER_SIZE
    <3>2. CASE Capacity < 4
      BY <1>2, <1>3, <3>2, ConstantFacts
    <3> QED
      BY <1>2, <3>1, <3>2
  <2>2. OFFSET + 0 + Len(header) <= Capacity
    BY <1>1, <1>2, <1>5, <2>1, AcceptedInside, ConstantFacts DEF HEADER_SIZE
  <2>3. \A i \in 1..Len(header) : 0 + i - 1 < 2 => header[i] \in UINT8
    BY <1>5, <1>6
  <2> QED
    BY <1>2, <1>5, <2>2, <2>3, BytesInside
<1>9. JobInv'
  <2> DEFINE S == UINT8 \X (UINT8 \cup T)
             a == Bytes(cleared, 0)
             b == Bytes(header, 0)
  <2>1. a \in Seq(S) /\ b \in Seq(S)
    BY <1>7, <1>8
  <2>2. Len(a) \in Nat /\ Len(b) = 4
    BY <1>3, <1>4, <1>7, <1>8
  <2>3. \A k \in 1..Len(a) : Inside(a[k])
    BY <1>7
  <2>4. \A k \in 1..4 : Inside(b[k])
    BY <1>8
  <2>5. job' = a \o b
    BY <1>1
  <2> HIDE DEF S, a, b
  <2>6. /\ job' \in Seq(S) /\ Len(job') = Len(a) + 4
        /\ \A i \in 1..Len(a) + 4 : job'[i] = IF i <= Len(a) THEN a[i] ELSE b[i - Len(a)]
    <3>1. /\ a \o b \in Seq(S) /\ Len(a \o b) = Len(a) + Len(b)
          /\ \A i \in 1..Len(a) + Len(b) :
               (a \o b)[i] = IF i <= Len(a) THEN a[i] ELSE b[i - Len(a)]
      BY <2>1, ConcatProperties, Zenon
    <3> QED
      BY <2>2, <2>5, <3>1, Zenon
  <2>7. \A k \in 1..Len(job') : Inside(job'[k])
    <3> SUFFICES ASSUME NEW k \in 1..Len(job')
                 PROVE  Inside(job'[k])
      OBVIOUS
    <3>1. CASE k <= Len(a)
      <4>1. k \in 1..Len(a) /\ job'[k] = a[k]
        BY <2>2, <2>6, <3>1
      <4> QED
        BY <2>3, <4>1
    <3>2. CASE ~(k <= Len(a))
      <4>1. k - Len(a) \in 1..4 /\ job'[k] = b[k - Len(a)]
        BY <2>2, <2>6, <3>2
      <4> QED
        BY <2>4, <4>1
    <3> QED
      BY <3>1, <3>2
  <2> QED
    BY <1>1, <2>6, <2>7 DEF S, JobInv, Inside
<1> QED
  BY <1>2, <1>9

\* The steps that leave nothing to write.
LEMMA IdleInv ==
  ASSUME Inv, AddDone \/ FormatDone \/ Reset
  PROVE  Inv'
<1>1. /\ UNCHANGED <<Capacity, mapped, mem, low, stray>> /\ job' = <<>> /\ pc' = "idle"
      /\ known' => known
  BY DEF AddDone, FormatDone, Reset, Idle
<1> QED
  BY <1>1, EmptyJob DEF Inv, MemInv, Addressable, BufferInv

LEMMA UserReadInv ==
  ASSUME Inv, UserRead
  PROVE  Inv'
<1>1. /\ UNCHANGED <<Capacity, mapped, mem, low, stray>> /\ job' = <<>> /\ pc' = "idle"
      /\ mapped
  BY DEF UserRead, Inv
<1> QED
  BY <1>1, EmptyJob DEF Inv, MemInv, Addressable, BufferInv

LEMMA NextInv ==
  ASSUME Inv, [Next]_vars
  PROVE  Inv'
<1>1. CASE UNCHANGED vars
  BY <1>1 DEF vars, Inv, Addressable, MemInv, JobInv, Inside, BufferInv
<1> QED
  BY <1>1, AddRecordInv, WriteByteInv, UpdateHeaderInv, UserReadInv, FormatInv, IdleInv
     DEF Next

\* RawRead, RawWrite, RawClear and what calls them: in a store of at most 256
\* bytes, of whatever capacity and size of record, nothing of the log buffer
\* outside the store is written, resets between any two bytes included, and no
\* request is accepted that reaches outside it.  On a platform with a log buffer
\* an addition never writes through an address that was not looked up, although
\* FindSlot ignores whether its read succeeded.
THEOREM StoreKept == Spec => []WritesInside
<1>1. Init => Inv
  BY InitInv
<1>2. Inv /\ [Next]_vars => Inv'
  BY NextInv
<1>3. Inv => WritesInside
  <2> SUFFICES ASSUME Inv, Capacity <= B, NEW size \in 1..(Capacity - 1),
                      NEW offset \in UINT8, Accepted(size, offset)
               PROVE  OFFSET + offset + size <= Capacity
    BY DEF WritesInside, Inv, Addressable, BufferInv
  <2>1. size \in 1..Capacity /\ Capacity \in Nat
    BY DEF Inv
  <2> QED
    BY <2>1, AcceptedInside DEF Addressable
<1> QED
  BY <1>1, <1>2, <1>3, PTL DEF Spec

-----------------------------------------------------------------------------
(***************************************************************************)
(* Induction, and what it shows of sums.  That a set of naturals has a     *)
(* least member gives induction for membership in a set, and with it the   *)
(* recursion that defines SumTo.                                           *)
(***************************************************************************)
\* A set of naturals has a least member.
LEMMA LeastNat == ASSUME NEW T \in SUBSET Nat, T # {} PROVE \E n \in T : \A m \in T : n <= m
<1> DEFINE R == OpToRel(<, Nat)
<1>1. IsWellFoundedOn(R, Nat) BY NatLessThanWellFounded
<1>2. \A m, n \in Nat : m < n => <<m, n>> \in R BY DEF OpToRel
<1> HIDE DEF R
<1>3. PICK n \in T : \A m \in T : ~(<<m, n>> \in R) BY <1>1, WFMin
<1>4. \A m \in T : ~(m < n) BY <1>2, <1>3
<1> QED BY <1>4

LEMMA SetInduction ==
  ASSUME NEW S, 0 \in S, \A n \in Nat : n \in S => n + 1 \in S
  PROVE  Nat \subseteq S
<1> SUFFICES ASSUME Nat \ S # {} PROVE FALSE OBVIOUS
<1>1. PICK n \in Nat \ S : \A m \in Nat \ S : n <= m BY LeastNat
<1>2. n # 0 BY <1>1
<1>3. n - 1 \in Nat /\ n - 1 \notin Nat \ S BY <1>1, <1>2
<1> QED BY <1>1, <1>3

\* f holds the first n + 1 values of the recursion of SumTo.
Steps(g, f, n) == f = [k \in 0..n |-> IF k = 0 THEN 0 ELSE f[k - 1] + g[k]]

LEMMA StepsExist == ASSUME NEW g, NEW n \in Nat PROVE \E f : Steps(g, f, n)
<1> DEFINE S == {m \in Nat : \E f : Steps(g, f, m)}
<1>1. 0 \in S
  <2> DEFINE f == [k \in 0..0 |-> 0]
  <2>1. Steps(g, f, 0) BY DEF Steps
  <2> QED BY <2>1
<1>2. ASSUME NEW m \in Nat, m \in S PROVE m + 1 \in S
  <2>1. PICK f : Steps(g, f, m) BY <1>2
  <2> DEFINE e == [k \in 0..(m + 1) |-> IF k = m + 1 THEN f[m] + g[m + 1] ELSE f[k]]
  <2>2. \A k \in 0..(m + 1) : e[k] = IF k = 0 THEN 0 ELSE e[k - 1] + g[k]
    <3> SUFFICES ASSUME NEW k \in 0..(m + 1) PROVE e[k] = IF k = 0 THEN 0 ELSE e[k - 1] + g[k]
      OBVIOUS
    <3>1. CASE k = m + 1
      <4>1. e[k - 1] = f[m] BY <3>1
      <4> QED BY <3>1, <4>1
    <3>2. CASE k # m + 1
      <4>1. k \in 0..m BY <3>2
      <4>2. f[k] = IF k = 0 THEN 0 ELSE f[k - 1] + g[k] BY <2>1, <4>1 DEF Steps
      <4>3. e[k] = f[k] BY <3>2
      <4>4. k # 0 => e[k - 1] = f[k - 1] BY <4>1
      <4> QED BY <4>2, <4>3, <4>4
    <3> QED BY <3>1, <3>2
  <2>3. Steps(g, e, m + 1) BY <2>2 DEF Steps
  <2> QED BY <2>3
<1> HIDE DEF S
<1>3. Nat \subseteq S BY <1>1, <1>2, SetInduction
<1> QED BY <1>3 DEF S

LEMMA StepsSame ==
  ASSUME NEW g, NEW m \in Nat, NEW n \in Nat, NEW e, NEW f, Steps(g, e, m), Steps(g, f, n),
         NEW k \in Nat, k <= m, k <= n
  PROVE  e[k] = f[k]
<1> DEFINE S == {j \in Nat : j <= m /\ j <= n => e[j] = f[j]}
<1>1. 0 \in S BY DEF Steps
<1>2. ASSUME NEW j \in Nat, j \in S PROVE j + 1 \in S
  <2> SUFFICES ASSUME j + 1 <= m, j + 1 <= n PROVE e[j + 1] = f[j + 1] OBVIOUS
  <2>1. e[j + 1] = e[j] + g[j + 1] /\ f[j + 1] = f[j] + g[j + 1] BY DEF Steps
  <2> QED BY <1>2, <2>1
<1> HIDE DEF S
<1>3. Nat \subseteq S BY <1>1, <1>2, SetInduction
<1> QED BY <1>3 DEF S

\* The recursive definition of SumTo defines it.
LEMMA SumToIs ==
  ASSUME NEW g
  PROVE  /\ SumTo(g, 0) = 0
         /\ \A n \in Nat : SumTo(g, n + 1) = SumTo(g, n) + g[n + 1]
<1> DEFINE a(n) == CHOOSE f : Steps(g, f, n)
           b == [k \in Nat |-> a(k)[k]]
           s == CHOOSE s : s = [k \in Nat |-> IF k = 0 THEN 0 ELSE s[k - 1] + g[k]]
<1>1. \A n \in Nat : Steps(g, a(n), n) BY StepsExist
<1>2. \A n \in Nat : b[n] = IF n = 0 THEN 0 ELSE b[n - 1] + g[n]
  <2> SUFFICES ASSUME NEW n \in Nat PROVE b[n] = IF n = 0 THEN 0 ELSE b[n - 1] + g[n]
    OBVIOUS
  <2>1. a(n)[n] = IF n = 0 THEN 0 ELSE a(n)[n - 1] + g[n]
    <3>1. Steps(g, a(n), n) BY <1>1
    <3> HIDE DEF a
    <3> QED BY <3>1 DEF Steps
  <2>2. n # 0 => a(n)[n - 1] = a(n - 1)[n - 1]
    <3> SUFFICES ASSUME n # 0 PROVE a(n)[n - 1] = a(n - 1)[n - 1] OBVIOUS
    <3>1. n - 1 \in Nat /\ n - 1 <= n OBVIOUS
    <3>2. Steps(g, a(n), n) /\ Steps(g, a(n - 1), n - 1) BY <1>1, <3>1
    <3> HIDE DEF a
    <3> QED BY <3>1, <3>2, StepsSame
  <2> QED BY <2>1, <2>2
<1>3. b = [k \in Nat |-> IF k = 0 THEN 0 ELSE b[k - 1] + g[k]]
  <2> HIDE DEF a
  <2>1. b = [k \in Nat |-> b[k]] OBVIOUS
  <2> HIDE DEF b
  <2> QED BY <1>2, <2>1
<1> HIDE DEF b
<1>4. s = [k \in Nat |-> IF k = 0 THEN 0 ELSE s[k - 1] + g[k]] BY <1>3
<1>5. \A n : SumTo(g, n) = s[n] BY DEF SumTo
<1> HIDE DEF s
<1>6. s[0] = 0 BY <1>4
<1>7. \A n \in Nat : s[n + 1] = s[n] + g[n + 1]
  <2> TAKE n \in Nat
  <2>1. n + 1 \in Nat /\ n + 1 # 0 /\ (n + 1) - 1 = n OBVIOUS
  <2> QED BY <1>4, <2>1
<1> QED BY <1>5, <1>6, <1>7

LEMMA SumSame ==
  ASSUME NEW g, NEW h, NEW n \in Nat, \A j \in 1..n : g[j] = h[j]
  PROVE  SumTo(g, n) = SumTo(h, n)
<1> DEFINE S == {k \in Nat : k <= n => SumTo(g, k) = SumTo(h, k)}
<1>1. 0 \in S BY SumToIs
<1>2. ASSUME NEW k \in Nat, k \in S PROVE k + 1 \in S
  <2> SUFFICES ASSUME k + 1 <= n PROVE SumTo(g, k + 1) = SumTo(h, k + 1)
    OBVIOUS
  <2>1. k <= n /\ k + 1 \in 1..n OBVIOUS
  <2>2. SumTo(g, k) = SumTo(h, k) BY <1>2, <2>1
  <2>3. g[k + 1] = h[k + 1] BY <2>1
  <2> QED BY <2>2, <2>3, SumToIs
<1> HIDE DEF S
<1>3. Nat \subseteq S BY <1>1, <1>2, SetInduction
<1> QED BY <1>3 DEF S

LEMMA SumNat ==
  ASSUME NEW g, NEW n \in Nat, \A j \in 1..n : g[j] \in Nat
  PROVE  SumTo(g, n) \in Nat
<1> DEFINE S == {k \in Nat : k <= n => SumTo(g, k) \in Nat}
<1>1. 0 \in S BY SumToIs
<1>2. ASSUME NEW k \in Nat, k \in S PROVE k + 1 \in S
  <2> SUFFICES ASSUME k + 1 <= n PROVE SumTo(g, k + 1) \in Nat
    OBVIOUS
  <2>1. k <= n /\ k + 1 \in 1..n OBVIOUS
  <2>2. SumTo(g, k) \in Nat BY <1>2, <2>1
  <2>3. g[k + 1] \in Nat BY <2>1
  <2> QED BY <2>2, <2>3, SumToIs
<1> HIDE DEF S
<1>3. Nat \subseteq S BY <1>1, <1>2, SetInduction
<1> QED BY <1>3 DEF S

\* The two words of the header come first.
LEMMA SumShift ==
  ASSUME NEW g, NEW h, NEW n \in Nat, \A j \in 1..(n + 2) : g[j] \in Nat,
         \A j \in 1..n : h[j] = g[j + 2]
  PROVE  SumTo(g, n + 2) = g[1] + g[2] + SumTo(h, n)
<1> DEFINE S == {k \in Nat : k <= n => SumTo(g, k + 2) = g[1] + g[2] + SumTo(h, k)}
<1>0. \A k \in Nat : k <= n => SumTo(h, k) \in Nat
  <2> SUFFICES ASSUME NEW k \in Nat, k <= n PROVE SumTo(h, k) \in Nat
    OBVIOUS
  <2>1. \A j \in 1..k : h[j] \in Nat OBVIOUS
  <2> QED BY <2>1, SumNat
<1>00. g[1] \in Nat /\ g[2] \in Nat OBVIOUS
<1>1. 0 \in S
  <2>1. SumTo(g, 0 + 1) = SumTo(g, 0) + g[0 + 1] /\ SumTo(g, 1 + 1) = SumTo(g, 1) + g[1 + 1]
    BY SumToIs
  <2>2. 0 + 1 = 1 /\ 1 + 1 = 2 /\ 0 + 2 = 2 OBVIOUS
  <2>3. SumTo(g, 0) = 0 /\ SumTo(h, 0) = 0 BY SumToIs
  <2>4. SumTo(g, 2) = g[1] + g[2] BY <1>00, <2>1, <2>2, <2>3
  <2>5. SumTo(g, 0 + 2) = g[1] + g[2] + SumTo(h, 0) BY <1>00, <2>2, <2>3, <2>4
  <2> QED BY <2>5
<1>2. ASSUME NEW k \in Nat, k \in S PROVE k + 1 \in S
  <2> SUFFICES ASSUME k + 1 <= n
               PROVE  SumTo(g, (k + 1) + 2) = g[1] + g[2] + SumTo(h, k + 1)
    OBVIOUS
  <2>1. k <= n /\ k + 1 \in 1..n /\ (k + 1) + 2 = (k + 2) + 1 /\ k + 2 \in Nat
        /\ (k + 2) + 1 \in 1..(n + 2)
    OBVIOUS
  <2>2. SumTo(g, k + 2) = g[1] + g[2] + SumTo(h, k) /\ SumTo(h, k) \in Nat
    BY <1>0, <1>2, <2>1
  <2>3. h[k + 1] = g[(k + 2) + 1] /\ g[(k + 2) + 1] \in Nat BY <2>1
  <2>4. SumTo(g, (k + 2) + 1) = SumTo(g, k + 2) + g[(k + 2) + 1] BY <2>1, SumToIs
  <2>5. SumTo(h, k + 1) = SumTo(h, k) + h[k + 1] BY SumToIs
  <2> QED BY <1>00, <2>1, <2>2, <2>3, <2>4, <2>5
<1> HIDE DEF S
<1>3. Nat \subseteq S BY <1>1, <1>2, SetInduction
<1> QED BY <1>3 DEF S

-----------------------------------------------------------------------------
(* Products, quotients and remainders                                      *)

LEMMA MulStep ==
  ASSUME NEW n \in Nat, NEW e \in Nat
  PROVE  (n + 1) * e = n * e + e /\ n * e \in Nat
OBVIOUS

LEMMA MulMono ==
  ASSUME NEW n \in Nat, NEW k \in Nat, k <= n, NEW e \in Nat
  PROVE  k * e <= n * e
OBVIOUS

LEMMA MulDiv ==
  ASSUME NEW n \in Nat, NEW e \in Nat, e > 0
  PROVE  (n * e) \div e = n
OBVIOUS

LEMMA MulEven ==
  ASSUME NEW n \in Nat, NEW e \in Nat, e % 2 = 0
  PROVE  (n * e) % 2 = 0
<1>1. PICK h \in Nat : e = 2 * h
  OBVIOUS
<1> DEFINE m == n * h
<1>2. n * e = 2 * m /\ m \in Nat
  BY <1>1
<1> HIDE DEF m
<1> QED
  BY <1>2

LEMMA DivMod ==
  ASSUME NEW x \in Nat, NEW b \in Nat, b > 0
  PROVE  (x % b) + b * (x \div b) = x /\ x % b \in 0..(b - 1) /\ x \div b \in Nat
OBVIOUS

LEMMA DivSmall ==
  ASSUME NEW x \in Nat, NEW b \in Nat, b > 0, x < b * b
  PROVE  x \div b < b
<1> DEFINE q == x \div b
<1>1. b * q <= x /\ q \in Nat
  BY DivMod
<1> HIDE DEF q
<1>2. q >= b => q * b >= b * b
  BY <1>1, MulMono
<1>3. ~(q >= b)
  BY <1>1, <1>2
<1> QED
  BY <1>1, <1>3 DEF q

\* The checksum makes the sum 0.
LEMMA Cancels ==
  ASSUME NEW x \in Nat, NEW w \in Nat, w > 0
  PROVE  (x + ((w - (x % w)) % w)) % w = 0 /\ (w - (x % w)) % w \in 0..(w - 1)
<1> DEFINE r == x % w
           q == x \div w
<1>1. x = r + w * q /\ r \in 0..(w - 1) /\ q \in Nat
  BY DivMod
<1>0. (w - (x % w)) % w = (w - r) % w OBVIOUS
<1> HIDE DEF r, q
<1>2. CASE r = 0
  <2>1. (w - r) % w = 0 BY <1>2
  <2>2. x + 0 = q * w BY <1>1, <1>2
  <2>3. (q * w) % w = 0 BY <1>1
  <2> QED BY <1>0, <1>1, <2>1, <2>2, <2>3
<1>3. CASE r # 0
  <2>1. (w - r) % w = w - r BY <1>3, <1>1
  <2>2. x + (w - r) = (q + 1) * w BY <1>1, <1>3
  <2>3. ((q + 1) * w) % w = 0 BY <1>1
  <2> QED BY <1>0, <1>1, <2>1, <2>2, <2>3
<1> QED BY <1>2, <1>3

-----------------------------------------------------------------------------
(* Sequences of records                                                    *)

LEMMA ThinnedNone ==
  ASSUME NEW s
  PROVE  Thinned(s, <<>>)
<1> DEFINE at == [i \in DOMAIN <<>> |-> 0]
<1>1. DOMAIN <<>> = {} OBVIOUS
<1>2. at \in [DOMAIN <<>> -> DOMAIN s] BY <1>1
<1> QED BY <1>1, <1>2 DEF Thinned

LEMMA ThinnedMore ==
  ASSUME NEW R, NEW s \in Seq(R), NEW t \in Seq(R), NEW r \in R, Thinned(s, t)
  PROVE  Thinned(Append(s, r), t)
<1>1. PICK at \in [DOMAIN t -> DOMAIN s] :
        /\ \A i, j \in DOMAIN t : i < j => at[i] < at[j]
        /\ \A i \in DOMAIN t : t[i] = s[at[i]]
  BY DEF Thinned
<1> DEFINE u == Append(s, r)
<1>2. DOMAIN s \subseteq DOMAIN u /\ \A i \in DOMAIN s : u[i] = s[i] OBVIOUS
<1> HIDE DEF u
<1>3. at \in [DOMAIN t -> DOMAIN u] BY <1>2
<1>4. \A i \in DOMAIN t : t[i] = u[at[i]] BY <1>1, <1>2
<1>5. Thinned(u, t) BY <1>1, <1>3, <1>4 DEF Thinned
<1> QED BY <1>5 DEF u

LEMMA ThinnedBoth ==
  ASSUME NEW R, NEW s \in Seq(R), NEW t \in Seq(R), NEW r \in R, Thinned(s, t)
  PROVE  Thinned(Append(s, r), Append(t, r))
<1>1. PICK at \in [DOMAIN t -> DOMAIN s] :
        /\ \A i, j \in DOMAIN t : i < j => at[i] < at[j]
        /\ \A i \in DOMAIN t : t[i] = s[at[i]]
  BY DEF Thinned
<1> DEFINE u == Append(s, r)
           v == Append(t, r)
           m == Len(s) + 1
           n == Len(t) + 1
           to == [i \in DOMAIN v |-> IF i = n THEN m ELSE at[i]]
<1>2. /\ DOMAIN u = 1..m /\ DOMAIN s = 1..Len(s) /\ \A i \in DOMAIN s : u[i] = s[i]
      /\ u[m] = r /\ Len(s) \in Nat
  OBVIOUS
<1>3. /\ DOMAIN v = 1..n /\ DOMAIN t = 1..Len(t) /\ \A i \in DOMAIN t : v[i] = t[i]
      /\ v[n] = r /\ Len(t) \in Nat
  OBVIOUS
<1> HIDE DEF u, v
<1>4. \A i \in DOMAIN v : i # n => i \in DOMAIN t BY <1>3
<1>5. \A i \in DOMAIN t : at[i] \in DOMAIN s /\ at[i] \in DOMAIN u /\ at[i] < m /\ i < n /\ i # n
  BY <1>2, <1>3
<1>6. m \in DOMAIN u BY <1>2
<1>7. to \in [DOMAIN v -> DOMAIN u] BY <1>4, <1>5, <1>6
<1>8. to[n] = m /\ \A i \in DOMAIN t : to[i] = at[i] /\ i \in DOMAIN v
  <2>1. n \in DOMAIN v /\ DOMAIN t \subseteq DOMAIN v BY <1>3
  <2> QED BY <2>1, <1>5
<1>10. \A i \in DOMAIN v : ~(n < i) /\ ~(i < i) BY <1>3
<1> HIDE DEF to, n, m
<1>11. ASSUME NEW i \in DOMAIN v, NEW j \in DOMAIN v, i < j PROVE to[i] < to[j]
  <2>1. i # n BY <1>11, <1>10
  <2>2. i \in DOMAIN t BY <2>1, <1>4
  <2>3. CASE j = n BY <2>2, <2>3, <1>5, <1>8
  <2>4. CASE j # n
    <3>1. j \in DOMAIN t BY <2>4, <1>4
    <3> QED BY <2>2, <3>1, <1>1, <1>8, <1>11
  <2> QED BY <2>3, <2>4
<1>12. \A i \in DOMAIN v : v[i] = u[to[i]]
  <2> TAKE i \in DOMAIN v
  <2>1. CASE i = n BY <2>1, <1>2, <1>3, <1>8
  <2>2. CASE i # n
    <3>1. i \in DOMAIN t BY <2>2, <1>4
    <3> QED BY <3>1, <1>1, <1>2, <1>3, <1>5, <1>8
  <2> QED BY <2>1, <2>2
<1>13. Thinned(u, v) BY <1>7, <1>11, <1>12 DEF Thinned
<1> QED BY <1>13 DEF u, v

-----------------------------------------------------------------------------
(***************************************************************************)
(* What a memory holds, with no sum that could wrap: the words of the      *)
(* header, the sum of the data and the records.                            *)
(***************************************************************************)
Mem == [UINT8 -> UINT8]
WordIn(m, o) == m[OFFSET + o] + B * m[OFFSET + o + 1]
WordsIn(m, n) == [j \in 1..n |-> WordIn(m, 4 + 2 * (j - 1))]
SumIn(m, n) == SumTo(WordsIn(m, n), n)
RecordIn(m, o) == [i \in 1..EntrySize |-> m[OFFSET + 4 + o + i - 1]]
StoredIn(m, n) == [k \in 1..n |-> RecordIn(m, (k - 1) * EntrySize)]

\* n records have room.
Fit(n) == n = 0 \/ OFFSET + 4 + n * EntrySize <= Capacity

LEMMA EntryFacts ==
  /\ EntrySize \in Nat /\ EntrySize > 0 /\ EntrySize % 2 = 0 /\ W = B * B /\ W \in Nat /\ W > 0
  /\ \A r \in Records : r \in [1..EntrySize -> UINT8]
<1>1. EntrySize \in Nat /\ EntrySize > 0 /\ EntrySize % 2 = 0
  BY ConstantFacts, StorageAssumption
<1>2. B \in Nat /\ B > 0 BY ConstantFacts
<1>3. B * B \in Nat /\ B * B > 0 BY <1>2
<1> QED BY <1>1, <1>3, StorageAssumption DEF W

LEMMA ByteIn ==
  ASSUME NEW m \in Mem, NEW a \in Nat, a < B
  PROVE  m[a] \in Nat /\ m[a] < B /\ m[a] \in UINT8 /\ a \in UINT8
BY ConstantFacts DEF Mem

LEMMA WordNat ==
  ASSUME NEW m \in Mem, NEW o \in Nat, OFFSET + o + 1 < B
  PROVE  WordIn(m, o) \in Nat
<1>1. m[OFFSET + o] \in Nat /\ m[OFFSET + o + 1] \in Nat BY ByteIn, ConstantFacts
<1> DEFINE x == m[OFFSET + o]
           y == m[OFFSET + o + 1]
<1> HIDE DEF x, y
<1>2. B * y \in Nat BY <1>1, ConstantFacts DEF y
<1>3. x + B * y \in Nat BY <1>1, <1>2 DEF x
<1> QED BY <1>3 DEF WordIn, x, y

LEMMA ReadWordIs ==
  ASSUME NEW o \in Nat, OFFSET + o + 1 < B
  PROVE  ReadWord(o) = WordIn(mem, o)
<1>1. U8(OFFSET + o) = OFFSET + o /\ U8(OFFSET + (o + 1)) = OFFSET + o + 1
  BY NoWrap, ConstantFacts
<1>2. Index(o, 0) = OFFSET + o /\ Index(o + 1, 0) = OFFSET + o + 1
  BY <1>1, NoWrap, ConstantFacts DEF Index
<1> QED BY <1>2 DEF ReadWord, ReadByte, WordIn

LEMMA ActiveRangeIs == ActiveRange = WordIn(mem, 0)
<1>1. OFFSET + 0 + 1 < B BY ConstantFacts
<1> QED BY <1>1, ReadWordIs DEF ActiveRange, RANGE

\* A range inside the store, and the words in it.
LEMMA HalfFacts ==
  ASSUME Capacity \in Nat, Addressable, NEW r \in Nat, r % 2 = 0,
         r = 0 \/ OFFSET + 4 + r <= Capacity
  PROVE  /\ r \div 2 \in Nat /\ r = 2 * (r \div 2)
         /\ \A j \in 1..(r \div 2) : /\ 4 + 2 * (j - 1) \in Nat /\ 2 * (j - 1) + 2 <= r
                                     /\ OFFSET + 4 + 2 * (j - 1) + 1 < B
                                     /\ OFFSET + (4 + 2 * (j - 1)) + 1 < Capacity
<1> DEFINE h == r \div 2
<1>1. h \in Nat /\ r = 2 * h OBVIOUS
<1> HIDE DEF h
<1>2. ASSUME NEW j \in 1..h
      PROVE  /\ 4 + 2 * (j - 1) \in Nat /\ 2 * (j - 1) + 2 <= r
             /\ OFFSET + (4 + 2 * (j - 1)) + 1 < Capacity
  <2>1. r # 0 BY <1>1, <1>2
  <2> QED BY <1>1, <1>2, <2>1, ConstantFacts
<1>3. \A j \in 1..h : OFFSET + 4 + 2 * (j - 1) + 1 < B BY <1>2, ConstantFacts DEF Addressable
<1> QED BY <1>1, <1>2, <1>3 DEF h

LEMMA SumInNat ==
  ASSUME Capacity \in Nat, Addressable, NEW m \in Mem, NEW r \in Nat, r % 2 = 0,
         r = 0 \/ OFFSET + 4 + r <= Capacity
  PROVE  /\ SumIn(m, r \div 2) \in Nat
         /\ \A j \in 1..(r \div 2) : WordsIn(m, r \div 2)[j] \in Nat
<1> DEFINE h == r \div 2
<1>1. h \in Nat /\ \A j \in 1..h : 4 + 2 * (j - 1) \in Nat /\ OFFSET + (4 + 2 * (j - 1)) + 1 < B
  <2>1. \A j \in 1..h : OFFSET + (4 + 2 * (j - 1)) + 1 < Capacity BY HalfFacts
  <2> QED BY <2>1, HalfFacts, ConstantFacts DEF Addressable
<1> HIDE DEF h
<1>2. \A j \in 1..h : WordsIn(m, h)[j] \in Nat BY <1>1, WordNat DEF WordsIn
<1> QED BY <1>1, <1>2, SumNat DEF h, SumIn

LEMMA DataSumIs ==
  ASSUME Capacity \in Nat, Addressable, NEW r \in Nat, r % 2 = 0,
         r = 0 \/ OFFSET + 4 + r <= Capacity
  PROVE  DataSum(r) = SumIn(mem, r \div 2)
<1> DEFINE h == r \div 2
<1>1. h \in Nat /\ \A j \in 1..h : 4 + 2 * (j - 1) \in Nat /\ OFFSET + (4 + 2 * (j - 1)) + 1 < B
  <2>1. \A j \in 1..h : OFFSET + (4 + 2 * (j - 1)) + 1 < Capacity BY HalfFacts
  <2> QED BY <2>1, HalfFacts, ConstantFacts DEF Addressable
<1>2. DataSum(r) = SumTo(Words(DATA_OFFSET, h), h) BY DEF DataSum
<1> HIDE DEF h
<1>3. \A j \in 1..h : Words(DATA_OFFSET, h)[j] = WordsIn(mem, h)[j]
  BY <1>1, ReadWordIs DEF Words, WordsIn, DATA_OFFSET, HEADER_SIZE
<1> QED BY <1>1, <1>2, <1>3, SumSame DEF h, SumIn

\* MsWheaESCalculateChecksum16 succeeds for such a range.
LEMMA SummedIs ==
  ASSUME Capacity \in Nat, Addressable, NEW r \in Nat, r % 2 = 0,
         r = 0 \/ OFFSET + 4 + r <= Capacity
  PROVE  Summed(r)
<1>1. r <= GetMaxSize
  <2>1. CASE r = 0 BY <2>1, MaxSizeFacts
  <2>2. CASE OFFSET + 4 + r <= Capacity
    <3>1. GetMaxSize = U8(Capacity - OFFSET) BY <2>2, ConstantFacts DEF GetMaxSize
    <3>2. U8(Capacity - OFFSET) = Capacity - OFFSET
      BY <2>2, NoWrap, ConstantFacts DEF Addressable
    <3> QED BY <2>2, <3>1, <3>2, ConstantFacts
  <2> QED BY <2>1, <2>2
<1>2. ASSUME NEW i \in 0..(r - 1), i % 2 = 0 PROVE Accepted(2, U8(DATA_OFFSET + i))
  <2>1. OFFSET + 4 + r <= Capacity /\ i + 2 <= r BY <1>2
  <2>2. U8(DATA_OFFSET + i) = 4 + i
    BY <2>1, NoWrap, ConstantFacts DEF Addressable, DATA_OFFSET, HEADER_SIZE
  <2>3. U8(OFFSET + (4 + i)) = OFFSET + (4 + i)
    BY <2>1, NoWrap, ConstantFacts DEF Addressable
  <2>4. U8(Capacity - 2) = Capacity - 2 BY <2>1, NoWrap, ConstantFacts DEF Addressable
  <2>5. GetMaxSize = Capacity - OFFSET
    <3>1. GetMaxSize = U8(Capacity - OFFSET) BY <2>1, ConstantFacts DEF GetMaxSize
    <3> QED BY <2>1, <3>1, NoWrap, ConstantFacts DEF Addressable
  <2> QED BY <2>1, <2>2, <2>3, <2>4, <2>5, ConstantFacts DEF Accepted, InRange
<1> QED BY <1>1, <1>2 DEF Summed

\* The user's sum of all words.
LEMMA UserSumIs ==
  ASSUME Capacity \in Nat, Addressable, mem \in Mem, NEW r \in Nat, r % 2 = 0,
         r = 0 \/ OFFSET + 4 + r <= Capacity
  PROVE  LET n == (HEADER_SIZE + r) \div 2 IN
         SumTo(Words(RANGE, n), n) = WordIn(mem, 0) + WordIn(mem, 2) + SumIn(mem, r \div 2)
<1> DEFINE h == r \div 2
           n == (HEADER_SIZE + r) \div 2
           g == Words(RANGE, n)
<1>1. h \in Nat /\ \A j \in 1..h : 4 + 2 * (j - 1) \in Nat /\ OFFSET + (4 + 2 * (j - 1)) + 1 < B
  <2>1. \A j \in 1..h : OFFSET + (4 + 2 * (j - 1)) + 1 < Capacity BY HalfFacts
  <2> QED BY <2>1, HalfFacts, ConstantFacts DEF Addressable
<1>2. n = h + 2 BY DEF HEADER_SIZE
<1> HIDE DEF h
<1>3. \A j \in 1..n : g[j] = ReadWord(2 * (j - 1)) BY DEF Words, RANGE
<1>4. n \in Nat /\ 1 \in 1..n /\ 2 \in 1..n /\ 2 * (1 - 1) = 0 /\ 2 * (2 - 1) = 2 BY <1>1, <1>2
<1>5. g[1] = WordIn(mem, 0) /\ g[2] = WordIn(mem, 2)
  <2>1. OFFSET + 0 + 1 < B /\ OFFSET + 2 + 1 < B BY ConstantFacts
  <2> QED BY <1>3, <1>4, <2>1, ReadWordIs
<1>6. WordIn(mem, 0) \in Nat /\ WordIn(mem, 2) \in Nat
  <2>1. OFFSET + 0 + 1 < B /\ OFFSET + 2 + 1 < B BY ConstantFacts
  <2> QED BY <2>1, WordNat
<1>7. \A j \in 1..h : WordsIn(mem, h)[j] = g[j + 2] /\ WordsIn(mem, h)[j] \in Nat
  <2> TAKE j \in 1..h
  <2>1. j + 2 \in 1..n /\ 2 * ((j + 2) - 1) = 4 + 2 * (j - 1) BY <1>1, <1>2
  <2>2. g[j + 2] = ReadWord(4 + 2 * (j - 1)) BY <1>3, <2>1
  <2>3. ReadWord(4 + 2 * (j - 1)) = WordIn(mem, 4 + 2 * (j - 1)) BY <1>1, ReadWordIs
  <2>4. WordIn(mem, 4 + 2 * (j - 1)) \in Nat BY <1>1, WordNat
  <2> QED BY <2>2, <2>3, <2>4 DEF WordsIn
<1>8. \A j \in 1..(h + 2) : g[j] \in Nat
  <2> TAKE j \in 1..(h + 2)
  <2>1. j = 1 \/ j = 2 \/ (j - 2 \in 1..h /\ (j - 2) + 2 = j) BY <1>1
  <2> QED BY <2>1, <1>5, <1>6, <1>7
<1> HIDE DEF g, n
<1>9. SumTo(g, h + 2) = g[1] + g[2] + SumTo(WordsIn(mem, h), h)
  BY <1>1, <1>7, <1>8, SumShift
<1> QED BY <1>2, <1>5, <1>9 DEF g, n, h, SumIn

\* What the user takes from a store of n records.
LEMMA StoredIs ==
  ASSUME Capacity \in Nat, Addressable, NEW n \in Nat, ActiveRange = n * EntrySize, Fit(n)
  PROVE  Stored = StoredIn(mem, n)
<1>1. ActiveRange \div EntrySize = n BY MulDiv, EntryFacts
<1>2. ASSUME NEW k \in 1..n, NEW i \in 1..EntrySize
      PROVE  ReadByte(DATA_OFFSET + (k - 1) * EntrySize + i - 1)
               = mem[OFFSET + 4 + (k - 1) * EntrySize + i - 1]
  <2> DEFINE p == (k - 1) * EntrySize
  <2>1. p \in Nat /\ p + EntrySize <= n * EntrySize
    <3>1. k - 1 \in Nat /\ (k - 1) + 1 = k /\ k \in Nat /\ k <= n OBVIOUS
    <3>2. k * EntrySize = p + EntrySize /\ p \in Nat BY <3>1, MulStep, EntryFacts
    <3>3. k * EntrySize <= n * EntrySize BY <3>1, MulMono, EntryFacts
    <3> QED BY <3>2, <3>3
  <2>2. OFFSET + 4 + n * EntrySize <= Capacity BY DEF Fit
  <2>3. n * EntrySize \in Nat BY EntryFacts, MulStep
  <2> DEFINE o == DATA_OFFSET + p + i - 1
             q == n * EntrySize
  <2> HIDE DEF p, q
  <2>4. o \in Nat /\ o = 4 + p + i - 1 /\ OFFSET + o < B
    BY <2>1, <2>2, <2>3, ConstantFacts, EntryFacts
    DEF Addressable, DATA_OFFSET, HEADER_SIZE, q
  <2> HIDE DEF o
  <2>5. Index(o, 0) = OFFSET + o
    <3>1. U8(OFFSET + o) = OFFSET + o BY <2>4, NoWrap, ConstantFacts
    <3> QED BY <2>4, <3>1, ConstantFacts DEF Index
  <2>6. OFFSET + o = OFFSET + 4 + p + i - 1 BY <2>1, <2>4, ConstantFacts
  <2>7. ReadByte(o) = mem[OFFSET + 4 + p + i - 1] BY <2>5, <2>6 DEF ReadByte
  <2> QED BY <2>7 DEF o, p
<1> QED BY <1>1, <1>2 DEF Stored, StoredIn, RecordIn

\* Two memories with the same data.
LEMMA SameData ==
  ASSUME Capacity \in Nat, Addressable, NEW m \in Mem, NEW l \in Mem, NEW n \in Nat, Fit(n),
         \A a \in UINT8 : OFFSET + 4 <= a /\ a < OFFSET + 4 + n * EntrySize => l[a] = m[a]
  PROVE  /\ StoredIn(l, n) = StoredIn(m, n)
         /\ SumIn(l, (n * EntrySize) \div 2) = SumIn(m, (n * EntrySize) \div 2)
<1> DEFINE q == n * EntrySize
<1>1. q \in Nat /\ q % 2 = 0 BY EntryFacts, MulStep, MulEven
<1>2. q = 0 \/ OFFSET + 4 + q <= Capacity
  <2>1. n = 0 => q = 0 BY EntryFacts
  <2> QED BY <2>1 DEF Fit
<1>3. ASSUME NEW k \in 1..n, NEW i \in 1..EntrySize
      PROVE  l[OFFSET + 4 + (k - 1) * EntrySize + i - 1] = m[OFFSET + 4 + (k - 1) * EntrySize + i - 1]
  <2> DEFINE p == (k - 1) * EntrySize
  <2>1. p \in Nat /\ p + EntrySize <= q
    <3>1. k - 1 \in Nat /\ (k - 1) + 1 = k /\ k \in Nat /\ k <= n OBVIOUS
    <3>2. k * EntrySize = p + EntrySize /\ p \in Nat BY <3>1, MulStep, EntryFacts
    <3>3. k * EntrySize <= q BY <3>1, MulMono, EntryFacts
    <3> QED BY <3>2, <3>3
  <2> HIDE DEF p
  <2>2. \A a \in UINT8 : OFFSET + 4 <= a /\ a < OFFSET + 4 + q => l[a] = m[a] OBVIOUS
  <2> HIDE DEF q
  <2>3. q # 0 BY <2>1, <1>1, EntryFacts
  <2>4. OFFSET + 4 + p + i - 1 \in UINT8 /\ OFFSET + 4 <= OFFSET + 4 + p + i - 1
        /\ OFFSET + 4 + p + i - 1 < OFFSET + 4 + q
    BY <1>1, <1>2, <2>1, <2>3, ConstantFacts, EntryFacts DEF Addressable
  <2>5. l[OFFSET + 4 + p + i - 1] = m[OFFSET + 4 + p + i - 1] BY <2>2, <2>4
  <2> QED BY <2>5 DEF p
<1>4. StoredIn(l, n) = StoredIn(m, n) BY <1>3 DEF StoredIn, RecordIn
<1>5. SumIn(l, q \div 2) = SumIn(m, q \div 2)
  <2>0. \A a \in UINT8 : OFFSET + 4 <= a /\ a < OFFSET + 4 + q => l[a] = m[a] OBVIOUS
  <2> DEFINE h == q \div 2
  <2> HIDE DEF q
  <2>1. h \in Nat /\ \A j \in 1..h : 4 + 2 * (j - 1) \in Nat /\ 2 * (j - 1) + 2 <= q
                                     /\ OFFSET + (4 + 2 * (j - 1)) + 1 < Capacity
    BY <1>1, <1>2, HalfFacts
  <2> HIDE DEF h
  <2>2. ASSUME NEW j \in 1..h PROVE WordsIn(l, h)[j] = WordsIn(m, h)[j]
    <3> DEFINE o == 4 + 2 * (j - 1)
    <3>1. o \in Nat /\ 4 <= o /\ o + 2 <= q + 4 /\ OFFSET + o + 1 < Capacity BY <2>1, <1>1
    <3> HIDE DEF o
    <3>2. /\ OFFSET + o \in UINT8 /\ OFFSET + 4 <= OFFSET + o /\ OFFSET + o < OFFSET + 4 + q
          /\ OFFSET + o + 1 \in UINT8 /\ OFFSET + 4 <= OFFSET + o + 1
          /\ OFFSET + o + 1 < OFFSET + 4 + q
      BY <3>1, <1>1, ConstantFacts DEF Addressable
    <3>3. l[OFFSET + o] = m[OFFSET + o] /\ l[OFFSET + o + 1] = m[OFFSET + o + 1]
      BY <2>0, <3>2
    <3>4. WordIn(l, o) = WordIn(m, o) BY <3>3 DEF WordIn
    <3> QED BY <3>4 DEF WordsIn, o
  <2>3. SumTo(WordsIn(l, h), h) = SumTo(WordsIn(m, h), h) BY <2>1, <2>2, SumSame
  <2> QED BY <2>3 DEF SumIn, h
<1> QED BY <1>4, <1>5

\* One record more.
LEMMA StoredAppend ==
  ASSUME NEW m, NEW n \in Nat, NEW S, StoredIn(m, n) \in Seq(S), NEW r \in S,
         RecordIn(m, n * EntrySize) = r
  PROVE  StoredIn(m, n + 1) = Append(StoredIn(m, n), r)
<1> DEFINE s == StoredIn(m, n)
           t == StoredIn(m, n + 1)
<1>1. Len(s) = n /\ \A k \in 1..n : s[k] = RecordIn(m, (k - 1) * EntrySize)
  <2>1. DOMAIN s = 1..n BY DEF StoredIn
  <2> QED BY <2>1 DEF StoredIn
<1>2. /\ t = [k \in 1..(n + 1) |-> RecordIn(m, (k - 1) * EntrySize)]
  BY DEF StoredIn
<1> HIDE DEF s, t
<1>3. s \in Seq(S) BY DEF s
<1>4. /\ Append(s, r) = [k \in 1..(n + 1) |-> Append(s, r)[k]]
      /\ Append(s, r)[n + 1] = r
      /\ \A k \in 1..n : Append(s, r)[k] = s[k]
  <2> DEFINE u == Append(s, r)
  <2>1. u \in Seq(S) /\ Len(u) = n + 1 /\ u[n + 1] = r /\ \A k \in 1..n : u[k] = s[k]
    BY <1>1, <1>3
  <2> HIDE DEF u
  <2>2. u \in [1..(n + 1) -> S]
    <3>1. DOMAIN u = 1..(n + 1) /\ \A k \in 1..(n + 1) : u[k] \in S BY <2>1
    <3>2. u = [k \in 1..Len(u) |-> u[k]] BY <2>1, LenProperties
    <3> QED BY <2>1, <3>1, <3>2
  <2>3. u = [k \in 1..(n + 1) |-> u[k]] BY <2>2
  <2> QED BY <2>1, <2>3 DEF u
<1>5. \A k \in 1..(n + 1) : Append(s, r)[k] = RecordIn(m, (k - 1) * EntrySize)
  <2> TAKE k \in 1..(n + 1)
  <2>1. CASE k = n + 1
    <3>1. k - 1 = n BY <2>1
    <3> QED BY <2>1, <3>1, <1>4
  <2>2. CASE k # n + 1
    <3>1. k \in 1..n BY <2>2
    <3> QED BY <3>1, <1>1, <1>4
  <2> QED BY <2>1, <2>2
<1>6. t = Append(s, r) BY <1>2, <1>4, <1>5
<1> QED BY <1>6 DEF s, t

-----------------------------------------------------------------------------
(***************************************************************************)
(* The records.  The range in the header is one byte that changes, so it   *)
(* is the old or the new one at any time, and a new record is whole before *)
(* it is counted.  What a reset may leave behind is a wrong checksum, or,  *)
(* while the store is emptied, a range that no store has: it then refuses  *)
(* every record until it is emptied again.                                 *)
(***************************************************************************)
\* The header of m counts n records.
Counts(m, n) == m[OFFSET] = n * EntrySize /\ m[OFFSET + 1] = 0

\* The n records in m were added, and those that are done are among them.
Kept(m, n, a, d) ==
  /\ StoredIn(m, n) \in Seq(Records)
  /\ Thinned(a, StoredIn(m, n)) /\ Thinned(StoredIn(m, n), d)

\* The sum of all words is 0.
SumsUp(m, n) == (WordIn(m, 0) + WordIn(m, 2) + SumIn(m, (n * EntrySize) \div 2)) % W = 0

Dead(m) == WordIn(m, 0) >= MAX_UINT8

Sound ==
  \/ Dead(mem) /\ done = <<>>
  \/ \E n \in Nat : Counts(mem, n) /\ Fit(n) /\ Kept(mem, n, added, done)

Whole == \E n \in Nat : /\ Counts(mem, n) /\ Fit(n) /\ Kept(mem, n, added, done)
                        /\ ~torn => SumsUp(mem, n)

\* Nothing in the store is under way.
AtRest == (Dead(mem) /\ done = <<>> /\ torn) \/ Whole

IdleOK == job = <<>> /\ AtRest

\* The record under way, after Len(rec) - Len(job) of its bytes.
RecordOK ==
  \E n \in Nat, a \in Seq(Records) :
    /\ Counts(mem, n) /\ Fit(n + 1) /\ added = Append(a, rec) /\ rec \in Records
    /\ Kept(mem, n, a, done) /\ (~torn => SumsUp(mem, n))
    /\ Len(job) <= EntrySize
    /\ \A k \in 1..Len(job) :
         job[k] = <<OFFSET + 4 + n * EntrySize + EntrySize - Len(job) + k - 1,
                    rec[EntrySize - Len(job) + k]>>
    /\ \A i \in 1..(EntrySize - Len(job)) : mem[OFFSET + 4 + n * EntrySize + i - 1] = rec[i]

CheckFor(m, n) == (W - ((n * EntrySize + SumIn(m, (n * EntrySize) \div 2)) % W)) % W
HeadByte(m, n, i) ==
  IF i = 1 THEN n * EntrySize ELSE IF i = 2 THEN 0
  ELSE IF i = 3 THEN CheckFor(m, n) % B ELSE CheckFor(m, n) \div B

\* The header of n + 1 records, after 4 - Len(job) of its bytes.
HeaderOK ==
  \E n \in Nat, a \in Seq(Records) :
    /\ Fit(n + 1) /\ added = Append(a, rec) /\ rec \in Records /\ Kept(mem, n, a, done)
    /\ RecordIn(mem, n * EntrySize) = rec
    /\ mem[OFFSET] = (IF Len(job) = 4 THEN n * EntrySize ELSE (n + 1) * EntrySize)
    /\ mem[OFFSET + 1] = 0
    /\ Len(job) <= 4
    /\ \A k \in 1..Len(job) :
         job[k] = <<OFFSET + 4 - Len(job) + k - 1, HeadByte(mem, n + 1, 4 - Len(job) + k)>>
    /\ Len(job) <= 1 => mem[OFFSET + 2] = HeadByte(mem, n + 1, 3)
    /\ Len(job) = 0 => mem[OFFSET + 3] = HeadByte(mem, n + 1, 4)

\* The bytes cleared and written so far.
Wiped == (Capacity - OFFSET) + 4 - Len(job)

ClearOK ==
  /\ Capacity >= OFFSET + 4 /\ done = <<>> /\ Len(job) <= (Capacity - OFFSET) + 4
  /\ \A k \in 1..Len(job) :
       job[k] = IF Wiped + k <= Capacity - OFFSET THEN <<OFFSET + Wiped + k - 1, DefaultValue>>
                ELSE <<OFFSET + Wiped + k - (Capacity - OFFSET) - 1, 0>>
  /\ Wiped = 0 => Sound
  /\ Wiped >= 1 => mem[OFFSET] = IF Wiped <= Capacity - OFFSET THEN DefaultValue ELSE 0
  /\ Wiped >= 2 => mem[OFFSET + 1] = IF Wiped <= Capacity - OFFSET + 1 THEN DefaultValue ELSE 0
  /\ Wiped >= Capacity - OFFSET + 3 => mem[OFFSET + 2] = 0
  /\ Wiped >= Capacity - OFFSET + 4 => mem[OFFSET + 3] = 0

KeptInv ==
  /\ mem \in Mem /\ added \in Seq(Records) /\ done \in Seq(Records) /\ torn \in BOOLEAN
  /\ pc \in {"idle", "record", "header", "clear"}
  /\ pc = "idle" => IdleOK
  /\ ~known => AtRest
  /\ pc = "record" /\ known => RecordOK
  /\ pc = "header" => HeaderOK
  /\ pc = "clear" /\ known => ClearOK

\* What the store is emptied with: 0xFF (PcdMsWheaEarlyStorageDefaultValue) or 0.
DefaultKnown == DefaultValue \in {0, MAX_UINT8}

LEMMA HeaderAddresses ==
  /\ OFFSET \in UINT8 /\ OFFSET + 1 \in UINT8 /\ OFFSET + 2 \in UINT8 /\ OFFSET + 3 \in UINT8
BY ConstantFacts

LEMMA WordIs ==
  ASSUME NEW m
  PROVE  /\ WordIn(m, 0) = m[OFFSET] + B * m[OFFSET + 1]
         /\ WordIn(m, 2) = m[OFFSET + 2] + B * m[OFFSET + 3]
<1>1. OFFSET + 0 = OFFSET /\ OFFSET + 0 + 1 = OFFSET + 1 /\ OFFSET + 2 + 1 = OFFSET + 3
  BY ConstantFacts
<1> QED BY <1>1 DEF WordIn

LEMMA CountsIs ==
  ASSUME NEW m \in Mem, NEW n \in Nat, Counts(m, n)
  PROVE  WordIn(m, 0) = n * EntrySize /\ n * EntrySize < B /\ n * EntrySize \in Nat
<1>1. n * EntrySize \in Nat /\ n * EntrySize < B
  BY ByteIn, HeaderAddresses, ConstantFacts DEF Counts
<1>2. B * 0 = 0 BY ConstantFacts
<1> QED BY <1>1, <1>2, WordIs DEF Counts

\* The range of n records that have room.
LEMMA FitIs ==
  ASSUME NEW n \in Nat, Fit(n)
  PROVE  /\ n * EntrySize \in Nat /\ (n * EntrySize) % 2 = 0
         /\ n * EntrySize = 0 \/ OFFSET + 4 + n * EntrySize <= Capacity
<1>1. n * EntrySize \in Nat /\ (n * EntrySize) % 2 = 0 BY EntryFacts, MulStep, MulEven
<1>2. n = 0 => n * EntrySize = 0 BY EntryFacts
<1> QED BY <1>1, <1>2 DEF Fit

LEMMA FitLess ==
  ASSUME NEW n \in Nat, Fit(n + 1), Capacity \in Nat
  PROVE  /\ Fit(n) /\ OFFSET + 4 + n * EntrySize + EntrySize <= Capacity
         /\ n * EntrySize \in Nat /\ (n + 1) * EntrySize = n * EntrySize + EntrySize
<1>1. (n + 1) * EntrySize = n * EntrySize + EntrySize /\ n * EntrySize \in Nat
  BY EntryFacts, MulStep
<1>2. n + 1 # 0 OBVIOUS
<1>3. OFFSET + 4 + (n + 1) * EntrySize <= Capacity BY <1>2 DEF Fit
<1> DEFINE q == n * EntrySize
<1> HIDE DEF q
<1>4. OFFSET + 4 + q + EntrySize <= Capacity BY <1>1, <1>3, ConstantFacts DEF q
<1>5. OFFSET + 4 + q <= Capacity BY <1>1, <1>4, ConstantFacts DEF q
<1> QED BY <1>1, <1>4, <1>5 DEF q, Fit

LEMMA NothingStored == ASSUME NEW m PROVE StoredIn(m, 0) = <<>>
BY DEF StoredIn

LEMMA KeptNothing ==
  ASSUME NEW m, NEW a, Thinned(<<>>, <<>>)
  PROVE  Kept(m, 0, a, <<>>)
<1>1. <<>> \in Seq(Records) OBVIOUS
<1> QED BY <1>1, NothingStored, ThinnedNone DEF Kept

\* A store whose range is 0 holds nothing.
LEMMA EmptySound ==
  ASSUME mem[OFFSET] = 0, mem[OFFSET + 1] = 0, done = <<>>
  PROVE  Counts(mem, 0) /\ Fit(0) /\ Kept(mem, 0, added, done)
<1>1. 0 * EntrySize = 0 BY EntryFacts
<1>2. Thinned(<<>>, <<>>) BY ThinnedNone
<1> QED BY <1>1, <1>2, KeptNothing DEF Counts, Fit

LEMMA DeadIs ==
  ASSUME Capacity \in Nat, Addressable, mem \in Mem, Dead(mem)
  PROVE  ~Summed(ActiveRange) /\ ~Slot(ActiveRange).found
<1>1. ActiveRange \in Nat /\ ActiveRange >= MAX_UINT8
  <2>1. OFFSET + 0 + 1 < B BY ConstantFacts
  <2>2. WordIn(mem, 0) \in Nat BY <2>1, WordNat
  <2> QED BY <2>2, ActiveRangeIs DEF Dead
<1>2. GetMaxSize <= MAX_UINT8 - 1 /\ GetMaxDataCount <= MAX_UINT8 - 1 /\ GetMaxSize \in Nat
      /\ GetMaxDataCount \in Nat
  BY MaxSizeFacts, ConstantFacts DEF Addressable
<1>3. ~(ActiveRange <= GetMaxSize) BY <1>1, <1>2, ConstantFacts
<1>4. ~(ActiveRange + EntrySize <= GetMaxDataCount) BY <1>1, <1>2, ConstantFacts
<1> QED BY <1>3, <1>4 DEF Summed, Slot

\* A byte of the range that is cleared gives an empty store or a dead one.
LEMMA WipedSound ==
  ASSUME Capacity \in Nat, Addressable, mem \in Mem, DefaultKnown, ClearOK, Wiped >= 1,
         Len(job) \in Nat
  PROVE  Sound
<1> DEFINE x == mem[OFFSET]
           y == mem[OFFSET + 1]
<1>1. x \in Nat /\ y \in Nat BY ByteIn, ConstantFacts
<1>2. WordIn(mem, 0) = x + B * y BY WordIs
<1>3. Wiped \in Int /\ Capacity - OFFSET >= 4 BY ConstantFacts DEF Wiped, ClearOK
<1>4. x \in {0, MAX_UINT8} BY DEF ClearOK, DefaultKnown
<1>5. Wiped >= 2 => y \in {0, MAX_UINT8} BY DEF ClearOK, DefaultKnown
<1> HIDE DEF x, y
<1>6. y > 0 => B * y >= B BY <1>1, ConstantFacts
<1>8. y = 0 => B * y = 0 BY ConstantFacts
<1> DEFINE z == B * y
<1>9. z \in Nat BY <1>1, ConstantFacts
<1> HIDE DEF z
<1>7. CASE y = 0 /\ x = 0 BY <1>7, EmptySound DEF x, y, ClearOK, Sound
<1>10. CASE y = 0 /\ x = MAX_UINT8
  <2>1. WordIn(mem, 0) >= MAX_UINT8 BY <1>2, <1>8, <1>10, ConstantFacts
  <2> QED BY <2>1 DEF Dead, Sound, ClearOK
<1>11. CASE y > 0
  <2>1. WordIn(mem, 0) >= MAX_UINT8 BY <1>1, <1>2, <1>6, <1>9, <1>11, ConstantFacts DEF z
  <2> QED BY <2>1 DEF Dead, Sound, ClearOK
<1> QED BY <1>1, <1>4, <1>7, <1>10, <1>11

\* Wherever the writing stands, the records in the store are whole and in order.
LEMMA AlwaysSound ==
  ASSUME Capacity \in Nat, Addressable, KeptInv, DefaultKnown, Len(job) \in Nat
  PROVE  Sound
<1>0. mem \in Mem BY DEF KeptInv
<1>1. CASE pc = "idle" \/ ~known BY <1>1 DEF KeptInv, IdleOK, AtRest, Whole, Sound
<1>2. CASE pc = "record" /\ known
  <2>1. PICK n \in Nat, a \in Seq(Records) :
          /\ Counts(mem, n) /\ Fit(n + 1) /\ added = Append(a, rec) /\ rec \in Records
          /\ Kept(mem, n, a, done)
    BY <1>2 DEF KeptInv, RecordOK
  <2>2. Thinned(added, StoredIn(mem, n)) BY <2>1, ThinnedMore DEF Kept
  <2>3. Fit(n) BY <2>1, FitLess
  <2> QED BY <2>1, <2>2, <2>3 DEF Sound, Kept
<1>3. CASE pc = "header"
  <2>1. PICK n \in Nat, a \in Seq(Records) :
          /\ Fit(n + 1) /\ added = Append(a, rec) /\ rec \in Records /\ Kept(mem, n, a, done)
          /\ RecordIn(mem, n * EntrySize) = rec
          /\ mem[OFFSET] = (IF Len(job) = 4 THEN n * EntrySize ELSE (n + 1) * EntrySize)
          /\ mem[OFFSET + 1] = 0
    BY <1>3 DEF KeptInv, HeaderOK
  <2>2. CASE Len(job) = 4
    <3>1. Thinned(added, StoredIn(mem, n)) BY <2>1, ThinnedMore DEF Kept
    <3>2. Fit(n) BY <2>1, FitLess
    <3>3. Counts(mem, n) BY <2>1, <2>2 DEF Counts
    <3> QED BY <2>1, <3>1, <3>2, <3>3 DEF Sound, Kept
  <2>3. CASE Len(job) # 4
    <3>1. StoredIn(mem, n + 1) = Append(StoredIn(mem, n), rec)
      <4>1. StoredIn(mem, n) \in Seq(Records) BY <2>1 DEF Kept
      <4> QED BY <2>1, <4>1, StoredAppend
    <3>2. Counts(mem, n + 1) BY <2>1, <2>3 DEF Counts
    <3>3. Thinned(added, StoredIn(mem, n + 1)) BY <2>1, <3>1, ThinnedBoth DEF Kept
    <3>4. Thinned(StoredIn(mem, n + 1), done)
      <4>1. done \in Seq(Records) BY DEF KeptInv
      <4> QED BY <2>1, <3>1, <4>1, ThinnedMore DEF Kept
    <3>5. StoredIn(mem, n + 1) \in Seq(Records)
      <4>1. StoredIn(mem, n) \in Seq(Records) BY <2>1 DEF Kept
      <4> QED BY <2>1, <3>1, <4>1, AppendProperties
    <3>6. n + 1 \in Nat OBVIOUS
    <3>7. Kept(mem, n + 1, added, done) BY <3>3, <3>4, <3>5 DEF Kept
    <3> QED BY <2>1, <3>2, <3>6, <3>7 DEF Sound
  <2> QED BY <2>2, <2>3
<1>4. CASE pc = "clear" /\ known
  <2>1. ClearOK BY <1>4 DEF KeptInv
  <2>2. CASE Wiped >= 1 BY <1>0, <2>1, <2>2, WipedSound
  <2>3. CASE ~(Wiped >= 1)
    <3>1. Wiped = 0 BY <2>1, <2>3, ConstantFacts DEF ClearOK, Wiped
    <3> QED BY <2>1, <3>1 DEF ClearOK
  <2> QED BY <2>2, <2>3
<1> QED BY <1>1, <1>2, <1>3, <1>4 DEF KeptInv

-----------------------------------------------------------------------------
(* The steps                                                               *)

LEMMA KeptInit ==
  ASSUME Init
  PROVE  KeptInv
<1>1. /\ mem = [a \in UINT8 |-> 0] /\ pc = "idle" /\ job = <<>> /\ added = <<>> /\ done = <<>>
      /\ torn = FALSE
  BY DEF Init
<1>2. mem \in Mem /\ \A a \in UINT8 : mem[a] = 0
  BY <1>1, ConstantFacts DEF Mem
<1>3. /\ mem[OFFSET] = 0 /\ mem[OFFSET + 1] = 0 /\ mem[OFFSET + 2] = 0 /\ mem[OFFSET + 3] = 0
  BY <1>2, HeaderAddresses
<1>4. Counts(mem, 0) /\ Fit(0) /\ Kept(mem, 0, added, done)
  BY <1>1, <1>3, EmptySound
<1>5. SumsUp(mem, 0)
  <2>1. 0 * EntrySize = 0 /\ B * 0 = 0 /\ 0 \div 2 = 0 BY EntryFacts, ConstantFacts
  <2>2. SumIn(mem, 0) = 0 BY SumToIs DEF SumIn
  <2>3. WordIn(mem, 0) = 0 /\ WordIn(mem, 2) = 0 BY <1>3, <2>1, WordIs
  <2>4. 0 % W = 0 BY EntryFacts
  <2> QED BY <2>1, <2>2, <2>3, <2>4 DEF SumsUp
<1>6. Whole BY <1>4, <1>5 DEF Whole
<1>7. added \in Seq(Records) /\ done \in Seq(Records) BY <1>1
<1> QED BY <1>1, <1>2, <1>6, <1>7 DEF KeptInv, IdleOK, AtRest

\* Steps that do not touch the store.
LEMMA RestSame ==
  ASSUME AtRest, UNCHANGED <<Capacity, mem, added, done, torn>>
  PROVE  AtRest'
BY DEF AtRest, Whole, Fit

LEMMA RestMore ==
  ASSUME AtRest, added \in Seq(Records), NEW r \in Records, added' = Append(added, r),
         UNCHANGED <<Capacity, mem, done, torn>>
  PROVE  AtRest'
<1>1. CASE Dead(mem) /\ done = <<>> /\ torn BY <1>1 DEF AtRest
<1>2. CASE Whole
  <2>1. PICK n \in Nat : /\ Counts(mem, n) /\ Fit(n) /\ Kept(mem, n, added, done)
                         /\ ~torn => SumsUp(mem, n)
    BY <1>2 DEF Whole
  <2>2. Thinned(added', StoredIn(mem, n)) BY <2>1, ThinnedMore DEF Kept
  <2>3. Kept(mem', n, added', done') BY <2>1, <2>2 DEF Kept
  <2>4. Whole' BY <2>1, <2>3 DEF Whole, Fit
  <2> QED BY <2>4 DEF AtRest
<1> QED BY <1>1, <1>2 DEF AtRest

LEMMA IndexIs ==
  ASSUME Capacity \in Nat, Addressable, NEW o \in Nat, NEW i \in Nat, OFFSET + o + i < Capacity
  PROVE  Index(o, i) = OFFSET + o + i
BY IndexInside

LEMMA AddRecordKept ==
  ASSUME Inv, Addressable, KeptInv, NEW r \in Records, AddRecord(r)
  PROVE  KeptInv'
<1>0. /\ Capacity \in Nat /\ mem \in Mem /\ pc = "idle" /\ AtRest
      /\ UNCHANGED <<Capacity, mapped, mem, done, torn>>
      /\ added \in Seq(Records) /\ done \in Seq(Records) /\ torn \in BOOLEAN
      /\ known' = (known \/ HeaderRead) /\ (known => mapped)
  BY DEF Inv, KeptInv, IdleOK, AddRecord
<1>1. CASE UNCHANGED <<pc, job, rec, added>>
  <2>1. AtRest' BY <1>0, <1>1, RestSame
  <2> QED BY <1>0, <1>1, <2>1 DEF KeptInv, IdleOK
<1>2. ASSUME NEW range \in RangesRead, Slot(range).found, pc' = "record",
             job' = Bytes(r, U8(DATA_OFFSET + Slot(range).at)),
             rec' = r, added' = Append(added, r)
      PROVE  KeptInv'
  <2>a. added' \in Seq(Records) BY <1>0, <1>2, AppendProperties
  <2>b. AtRest' BY <1>0, <1>2, RestMore
  <2> SUFFICES ASSUME known' PROVE RecordOK'
    BY <1>0, <1>2, <2>a, <2>b DEF KeptInv
  <2>c. range \in Nat BY <1>2, RangesTyped DEF Inv
  <2>d. HeaderRead BY <1>0, <1>2, <2>c, RoomIs DEF HeaderRead
  <2>e. range = ActiveRange BY <1>2, <2>d DEF RangesRead
  <2>f. Slot(ActiveRange).found BY <1>2, <2>e
  <2>1. Whole BY <1>0, <2>f, DeadIs DEF AtRest
  <2>2. PICK n \in Nat : /\ Counts(mem, n) /\ Fit(n) /\ Kept(mem, n, added, done)
                         /\ ~torn => SumsUp(mem, n)
    BY <2>1 DEF Whole
  <2> DEFINE q == n * EntrySize
  <2>3. ActiveRange = q /\ q \in Nat BY <1>0, <2>2, CountsIs, ActiveRangeIs
  <2>4. U8(DATA_OFFSET + Slot(range).at) = 4 + q /\ OFFSET + 4 + q + EntrySize <= Capacity
    BY <1>0, <1>2, <2>c, <2>e, <2>3, RoomIs
  <2>5. (n + 1) * EntrySize = q + EntrySize BY MulStep, EntryFacts
  <2>6. Fit(n + 1)'
    <3>1. OFFSET + 4 + (n + 1) * EntrySize <= Capacity' BY <1>0, <2>3, <2>4, <2>5, ConstantFacts
    <3> QED BY <3>1 DEF Fit
  <2> HIDE DEF q
  <2>7. r \in Seq(UINT8) /\ Len(r) = EntrySize
    <3>1. r \in [1..EntrySize -> UINT8] BY EntryFacts
    <3> QED BY <3>1, EntryFacts
  <2>8. /\ job' = [i \in 1..EntrySize |-> <<Index(4 + q, i - 1), r[i]>>]
        /\ Len(job') = EntrySize
    <3>1. job' = [i \in 1..EntrySize |-> <<Index(4 + q, i - 1), r[i]>>]
      BY <1>2, <2>4, <2>7 DEF Bytes
    <3> QED BY <3>1, EntryFacts
  <2>9. ASSUME NEW k \in 1..Len(job')
        PROVE  job'[k] = <<OFFSET + 4 + q + EntrySize - Len(job') + k - 1,
                           rec'[EntrySize - Len(job') + k]>>
    <3>1. k \in 1..EntrySize /\ EntrySize - Len(job') + k = k /\ k - 1 \in Nat
          /\ OFFSET + 4 + q + EntrySize - Len(job') + k - 1 = OFFSET + (4 + q) + (k - 1)
          /\ OFFSET + (4 + q) + (k - 1) < Capacity /\ 4 + q \in Nat
      BY <1>0, <2>3, <2>4, <2>8, EntryFacts, ConstantFacts
    <3>2. Index(4 + q, k - 1) = OFFSET + (4 + q) + (k - 1) BY <1>0, <3>1, IndexIs
    <3> QED BY <1>2, <2>8, <3>1, <3>2
  <2>10. \A i \in 1..(EntrySize - Len(job')) : mem'[OFFSET + 4 + q + i - 1] = rec'[i]
    BY <2>8, EntryFacts
  <2>12. Counts(mem', n) /\ Kept(mem', n, added, done') /\ (~torn' => SumsUp(mem', n))
    BY <1>0, <2>2
  <2>13. Len(job') <= EntrySize BY <2>8, EntryFacts
  <2>14. added' = Append(added, rec') /\ rec' \in Records BY <1>2
  <2> QED
    BY <1>0, <2>6, <2>9, <2>10, <2>12, <2>13, <2>14 DEF RecordOK, q
<1> QED BY <1>1, <1>2 DEF AddRecord

LEMMA Written ==
  ASSUME Inv, Addressable, mem \in Mem, WriteByte, known, Head(job)[2] \in UINT8
  PROVE  /\ mem' \in Mem /\ Capacity' = Capacity /\ Len(job) \in Nat /\ Len(job) > 0
         /\ Len(job') = Len(job) - 1 /\ \A k \in 1..Len(job') : job'[k] = job[k + 1]
         /\ \A a \in UINT8 : mem'[a] = IF a = job[1][1] THEN job[1][2] ELSE mem[a]
         /\ known' /\ UNCHANGED <<pc, rec, added, done, torn>>
         /\ Head(job) = job[1]
<1>1. /\ job # <<>> /\ job' = Tail(job)
      /\ mem' = [mem EXCEPT ![Head(job)[1]] = Head(job)[2]]
      /\ known' /\ UNCHANGED <<Capacity, pc, rec, added, done, torn>>
  BY DEF WriteByte
<1>2. PICK S : job \in Seq(UINT8 \X S) BY DEF Inv, JobInv
<1>3. /\ Len(Tail(job)) = Len(job) - 1
      /\ \A i \in 1..Len(Tail(job)) : Tail(job)[i] = job[i + 1]
      /\ Head(job) = job[1] /\ Len(job) \in Nat \ {0}
  BY <1>1, <1>2, HeadTailProperties, LenProperties, EmptySeq
<1>4. mem' \in Mem BY <1>1 DEF Mem
<1>5. \A a \in UINT8 : mem'[a] = IF a = job[1][1] THEN job[1][2] ELSE mem[a]
  BY <1>1, <1>3 DEF Mem
<1> QED BY <1>1, <1>3, <1>4, <1>5

\* A byte of a record: behind the records there are.
LEMMA WriteRecordKept ==
  ASSUME Inv, Addressable, KeptInv, WriteByte, known, pc = "record"
  PROVE  KeptInv'
<1>0. Capacity \in Nat /\ mem \in Mem BY DEF Inv, KeptInv
<1> DEFINE L == Len(job)
<1>1. PICK n \in Nat, a \in Seq(Records) :
        /\ Counts(mem, n) /\ Fit(n + 1) /\ added = Append(a, rec) /\ rec \in Records
        /\ Kept(mem, n, a, done) /\ (~torn => SumsUp(mem, n))
        /\ L <= EntrySize
        /\ \A k \in 1..L : job[k] = <<OFFSET + 4 + n * EntrySize + EntrySize - L + k - 1,
                                      rec[EntrySize - L + k]>>
        /\ \A i \in 1..(EntrySize - L) : mem[OFFSET + 4 + n * EntrySize + i - 1] = rec[i]
  BY DEF KeptInv, RecordOK
<1> DEFINE q == n * EntrySize
           at == OFFSET + 4 + q + EntrySize - L
           i0 == EntrySize - L + 1
<1>2. Fit(n) /\ OFFSET + 4 + q + EntrySize <= Capacity /\ q \in Nat BY <1>0, <1>1, FitLess
<1>q. q = n * EntrySize OBVIOUS
<1> HIDE DEF q
<1>3. L \in Nat /\ L > 0 /\ Head(job) = job[1]
  <2>1. job # <<>> BY DEF WriteByte
  <2>2. PICK S : job \in Seq(UINT8 \X S) BY DEF Inv, JobInv
  <2> QED BY <2>1, <2>2, HeadTailProperties, LenProperties, EmptySeq
<1>4. job[1] = <<at, rec[i0]>> /\ i0 \in 1..EntrySize
  <2>1. 1 \in 1..L /\ OFFSET + 4 + q + EntrySize - L + 1 - 1 = at /\ i0 \in 1..EntrySize
    BY <1>1, <1>2, <1>3, EntryFacts, ConstantFacts
  <2> HIDE DEF L
  <2> QED BY <1>1, <1>q, <2>1
<1>5. rec[i0] \in UINT8
  <2>1. rec \in [1..EntrySize -> UINT8] BY <1>1, EntryFacts
  <2> QED BY <2>1, <1>4
<1>6. /\ mem' \in Mem /\ Capacity' = Capacity /\ Len(job') = L - 1
      /\ \A k \in 1..Len(job') : job'[k] = job[k + 1]
      /\ \A b \in UINT8 : mem'[b] = IF b = at THEN rec[i0] ELSE mem[b]
      /\ known' /\ UNCHANGED <<pc, rec, added, done, torn>>
  <2>1. Head(job)[2] \in UINT8 BY <1>3, <1>4, <1>5
  <2> QED BY <1>0, <1>4, <2>1, Written
<1>7. at \in Nat /\ at >= OFFSET + 4 + q /\ at < Capacity /\ at \in UINT8
  BY <1>0, <1>1, <1>2, <1>3, EntryFacts, ConstantFacts DEF Addressable
<1> HIDE DEF L
<1>8. \A b \in UINT8 : b < OFFSET + 4 + q => mem'[b] = mem[b]
  BY <1>6, <1>7, <1>2, ConstantFacts
<1>9. /\ mem'[OFFSET] = mem[OFFSET] /\ mem'[OFFSET + 1] = mem[OFFSET + 1]
      /\ mem'[OFFSET + 2] = mem[OFFSET + 2] /\ mem'[OFFSET + 3] = mem[OFFSET + 3]
  <2>1. /\ OFFSET < OFFSET + 4 + q /\ OFFSET + 1 < OFFSET + 4 + q
        /\ OFFSET + 2 < OFFSET + 4 + q /\ OFFSET + 3 < OFFSET + 4 + q
    BY <1>2, ConstantFacts
  <2> QED BY <1>8, <2>1, HeaderAddresses
<1>10. Counts(mem', n) BY <1>1, <1>9 DEF Counts
<1>11. /\ StoredIn(mem', n) = StoredIn(mem, n)
       /\ SumIn(mem', (n * EntrySize) \div 2) = SumIn(mem, (n * EntrySize) \div 2)
  BY <1>0, <1>2, <1>6, <1>8, <1>q, SameData
<1>12. Kept(mem', n, a, done') BY <1>1, <1>6, <1>11 DEF Kept
<1>13. ~torn' => SumsUp(mem', n)
  <2>1. WordIn(mem', 0) = WordIn(mem, 0) /\ WordIn(mem', 2) = WordIn(mem, 2)
    BY <1>9, WordIs
  <2> QED BY <1>1, <1>6, <1>11, <2>1 DEF SumsUp
<1>14. Fit(n + 1)' BY <1>1, <1>6 DEF Fit
<1>15. ASSUME NEW k \in 1..Len(job')
       PROVE  job'[k] = <<OFFSET + 4 + q + EntrySize - Len(job') + k - 1,
                          rec'[EntrySize - Len(job') + k]>>
  <2>1. /\ k + 1 \in 1..L /\ EntrySize - L + (k + 1) = EntrySize - Len(job') + k
        /\ OFFSET + 4 + q + EntrySize - L + (k + 1) - 1
             = OFFSET + 4 + q + EntrySize - Len(job') + k - 1
    BY <1>2, <1>3, <1>6, EntryFacts, ConstantFacts
  <2>2. job[k + 1] = <<OFFSET + 4 + q + EntrySize - L + (k + 1) - 1,
                       rec[EntrySize - L + (k + 1)]>>
    BY <1>1, <1>q, <2>1
  <2> QED BY <1>6, <2>1, <2>2
<1>16. ASSUME NEW i \in 1..(EntrySize - Len(job'))
       PROVE  mem'[OFFSET + 4 + q + i - 1] = rec'[i]
  <2>1. i \in 1..EntrySize /\ (i = i0 \/ i \in 1..(EntrySize - L))
    BY <1>1, <1>3, <1>6, EntryFacts
  <2>2. OFFSET + 4 + q + i - 1 \in UINT8
    BY <1>0, <1>2, <1>3, <2>1, EntryFacts, ConstantFacts DEF Addressable
  <2>5. i = i0 <=> OFFSET + 4 + q + i - 1 = at
    BY <1>2, <1>3, <2>1, EntryFacts, ConstantFacts
  <2> HIDE DEF at, i0
  <2>3. CASE i = i0 BY <1>6, <2>2, <2>3, <2>5
  <2>4. CASE i # i0
    <3>1. mem[OFFSET + 4 + q + i - 1] = rec[i] BY <1>1, <1>q, <2>1, <2>4
    <3> QED BY <1>6, <2>2, <2>4, <2>5, <3>1
  <2> QED BY <2>3, <2>4
<1>17. Len(job') <= EntrySize BY <1>1, <1>3, <1>6, EntryFacts
<1>18. added' = Append(a, rec') /\ rec' \in Records BY <1>1, <1>6
<1>19. RecordOK'
  BY <1>10, <1>12, <1>13, <1>14, <1>15, <1>16, <1>17, <1>18, <1>q DEF RecordOK
<1> QED BY <1>6, <1>19 DEF KeptInv

\* The bytes of a header are bytes.
LEMMA HeadBytes ==
  ASSUME Capacity \in Nat, Addressable, NEW m \in Mem, NEW n \in Nat, Fit(n)
  PROVE  /\ \A i \in 1..4 : HeadByte(m, n, i) \in UINT8
         /\ CheckFor(m, n) \in 0..(W - 1)
         /\ n * EntrySize + SumIn(m, (n * EntrySize) \div 2) \in Nat
<1> DEFINE q == n * EntrySize
           c == CheckFor(m, n)
<1>1. q \in Nat /\ q % 2 = 0 /\ (q = 0 \/ OFFSET + 4 + q <= Capacity) BY FitIs
<1>2. SumIn(m, q \div 2) \in Nat BY <1>1, SumInNat
<1>3. q \in UINT8 BY <1>1, ConstantFacts DEF Addressable
<1>4. q + SumIn(m, q \div 2) \in Nat BY <1>1, <1>2
<1>5. c \in 0..(W - 1) BY <1>4, Cancels, EntryFacts DEF CheckFor
<1> HIDE DEF c
<1>6. c % B \in UINT8 BY <1>5, DivMod, ConstantFacts, EntryFacts
<1>7. c \div B \in UINT8
  <2>1. c \in Nat /\ c < B * B BY <1>5, EntryFacts
  <2>2. c \div B < B /\ c \div B \in Nat BY <2>1, DivSmall, DivMod, ConstantFacts
  <2> QED BY <2>2, ConstantFacts
<1>8. 0 \in UINT8 BY ConstantFacts
<1> QED BY <1>3, <1>4, <1>5, <1>6, <1>7, <1>8 DEF HeadByte, c

\* A byte of a header leaves the data as it is.
LEMMA DataAside ==
  ASSUME Capacity \in Nat, Addressable, NEW m \in Mem, NEW l \in Mem, NEW n \in Nat, Fit(n + 1),
         \A b \in UINT8 : OFFSET + 4 <= b => l[b] = m[b]
  PROVE  /\ StoredIn(l, n) = StoredIn(m, n)
         /\ RecordIn(l, n * EntrySize) = RecordIn(m, n * EntrySize)
         /\ \A i \in 1..4 : HeadByte(l, n + 1, i) = HeadByte(m, n + 1, i)
<1>1. Fit(n) /\ n + 1 \in Nat BY FitLess
<1>2. StoredIn(l, n) = StoredIn(m, n) BY <1>1, SameData
<1>3. /\ StoredIn(l, n + 1) = StoredIn(m, n + 1)
      /\ SumIn(l, ((n + 1) * EntrySize) \div 2) = SumIn(m, ((n + 1) * EntrySize) \div 2)
  BY <1>1, SameData
<1>4. \A x : StoredIn(x, n + 1)[n + 1] = RecordIn(x, n * EntrySize)
  <2>1. n + 1 \in 1..(n + 1) /\ (n + 1) - 1 = n OBVIOUS
  <2> QED BY <2>1 DEF StoredIn
<1>5. CheckFor(l, n + 1) = CheckFor(m, n + 1) BY <1>3 DEF CheckFor
<1> QED BY <1>2, <1>3, <1>4, <1>5 DEF HeadByte

LEMMA WriteHeaderKept ==
  ASSUME Inv, Addressable, KeptInv, WriteByte, known, pc = "header"
  PROVE  KeptInv'
<1>0. Capacity \in Nat /\ mem \in Mem BY DEF Inv, KeptInv
<1> DEFINE L == Len(job)
<1>1. PICK n \in Nat, a \in Seq(Records) :
        /\ Fit(n + 1) /\ added = Append(a, rec) /\ rec \in Records /\ Kept(mem, n, a, done)
        /\ RecordIn(mem, n * EntrySize) = rec
        /\ mem[OFFSET] = (IF L = 4 THEN n * EntrySize ELSE (n + 1) * EntrySize)
        /\ mem[OFFSET + 1] = 0
        /\ L <= 4
        /\ \A k \in 1..L : job[k] = <<OFFSET + 4 - L + k - 1, HeadByte(mem, n + 1, 4 - L + k)>>
        /\ L <= 1 => mem[OFFSET + 2] = HeadByte(mem, n + 1, 3)
        /\ L = 0 => mem[OFFSET + 3] = HeadByte(mem, n + 1, 4)
  BY DEF KeptInv, HeaderOK
<1>3. L \in Nat /\ L > 0 /\ Head(job) = job[1]
  <2>1. job # <<>> BY DEF WriteByte
  <2>2. PICK S : job \in Seq(UINT8 \X S) BY DEF Inv, JobInv
  <2> QED BY <2>1, <2>2, HeadTailProperties, LenProperties, EmptySeq
<1> HIDE DEF L
<1> DEFINE at == OFFSET + 4 - L
           x == HeadByte(mem, n + 1, 5 - L)
<1>4. job[1] = <<at, x>>
  <2>1. 1 \in 1..L /\ OFFSET + 4 - L + 1 - 1 = at /\ 4 - L + 1 = 5 - L
    BY <1>3, ConstantFacts
  <2> QED BY <1>1, <2>1
<1>5. x \in UINT8
  <2>1. 5 - L \in 1..4 /\ n + 1 \in Nat BY <1>1, <1>3
  <2> QED BY <1>0, <1>1, <2>1, HeadBytes
<1>6. /\ mem' \in Mem /\ Capacity' = Capacity /\ Len(job') = L - 1
      /\ \A k \in 1..Len(job') : job'[k] = job[k + 1]
      /\ \A b \in UINT8 : mem'[b] = IF b = at THEN x ELSE mem[b]
      /\ known' /\ UNCHANGED <<pc, rec, added, done, torn>>
  <2>1. Head(job)[2] \in UINT8 BY <1>3, <1>4, <1>5
  <2> QED BY <1>0, <1>4, <2>1, Written DEF L
<1>7. L \in {1, 2, 3, 4} BY <1>1, <1>3
<1> HIDE DEF x
<1>8. \A b \in UINT8 : OFFSET + 4 <= b => mem'[b] = mem[b]
  BY <1>3, <1>6, <1>7, ConstantFacts
<1>9. /\ StoredIn(mem', n) = StoredIn(mem, n)
      /\ RecordIn(mem', n * EntrySize) = RecordIn(mem, n * EntrySize)
      /\ \A i \in 1..4 : HeadByte(mem', n + 1, i) = HeadByte(mem, n + 1, i)
  BY <1>0, <1>1, <1>6, <1>8, DataAside
<1>10. /\ mem'[OFFSET] = IF L = 4 THEN x ELSE mem[OFFSET]
       /\ mem'[OFFSET + 1] = IF L = 3 THEN x ELSE mem[OFFSET + 1]
       /\ mem'[OFFSET + 2] = IF L = 2 THEN x ELSE mem[OFFSET + 2]
       /\ mem'[OFFSET + 3] = IF L = 1 THEN x ELSE mem[OFFSET + 3]
  <2>1. /\ OFFSET = at <=> L = 4
        /\ OFFSET + 1 = at <=> L = 3
        /\ OFFSET + 2 = at <=> L = 2
        /\ OFFSET + 3 = at <=> L = 1
    BY <1>3, ConstantFacts
  <2> QED BY <1>6, <2>1, HeaderAddresses
<1>11. mem'[OFFSET] = (IF Len(job') = 4 THEN n * EntrySize ELSE (n + 1) * EntrySize)
  <2>1. L = 4 => x = (n + 1) * EntrySize
    <3>1. 5 - 4 = 1 OBVIOUS
    <3> QED BY <3>1 DEF x, HeadByte
  <2>2. Len(job') # 4 BY <1>6, <1>7
  <2> QED BY <1>1, <1>10, <2>1, <2>2
<1>12. mem'[OFFSET + 1] = 0
  <2>1. L = 3 => x = 0
    <3>1. 5 - 3 = 2 OBVIOUS
    <3> QED BY <3>1 DEF x, HeadByte
  <2> QED BY <1>1, <1>10, <2>1
<1>13. Len(job') <= 1 => mem'[OFFSET + 2] = HeadByte(mem', n + 1, 3)
  <2> SUFFICES ASSUME Len(job') <= 1 PROVE mem'[OFFSET + 2] = HeadByte(mem, n + 1, 3)
    BY <1>9
  <2>1. L = 2 => x = HeadByte(mem, n + 1, 3)
    <3>1. 5 - 2 = 3 OBVIOUS
    <3> QED BY <3>1 DEF x
  <2>2. L = 2 \/ L = 1 BY <1>6, <1>7
  <2>3. L = 1 => mem[OFFSET + 2] = HeadByte(mem, n + 1, 3) BY <1>1
  <2> QED BY <1>10, <2>1, <2>2, <2>3
<1>14. Len(job') = 0 => mem'[OFFSET + 3] = HeadByte(mem', n + 1, 4)
  <2> SUFFICES ASSUME Len(job') = 0 PROVE mem'[OFFSET + 3] = HeadByte(mem, n + 1, 4)
    BY <1>9
  <2>1. L = 1 BY <1>6, <1>7
  <2>2. x = HeadByte(mem, n + 1, 4)
    <3>1. 5 - L = 4 BY <2>1
    <3> QED BY <3>1 DEF x
  <2> QED BY <1>10, <2>1, <2>2
<1>15. ASSUME NEW k \in 1..Len(job')
       PROVE  job'[k] = <<OFFSET + 4 - Len(job') + k - 1, HeadByte(mem', n + 1, 4 - Len(job') + k)>>
  <2>1. /\ k + 1 \in 1..L /\ 4 - L + (k + 1) = 4 - Len(job') + k
        /\ 4 - L + (k + 1) \in 1..4
        /\ OFFSET + 4 - L + (k + 1) - 1 = OFFSET + 4 - Len(job') + k - 1
    <3>1. L \in 1..4 /\ Len(job') = L - 1 /\ OFFSET \in Nat
      BY <1>1, <1>3, <1>6, ConstantFacts
    <3>2. k \in 1..(L - 1) BY <3>1
    <3> QED BY <3>1, <3>2
  <2>2. job[k + 1] = <<OFFSET + 4 - L + (k + 1) - 1, HeadByte(mem, n + 1, 4 - L + (k + 1))>>
    BY <1>1, <2>1
  <2>3. HeadByte(mem', n + 1, 4 - L + (k + 1)) = HeadByte(mem, n + 1, 4 - L + (k + 1))
    BY <1>9, <2>1
  <2> QED BY <1>6, <2>1, <2>2, <2>3
<1>16. Fit(n + 1)' BY <1>1, <1>6 DEF Fit
<1>17. /\ Kept(mem', n, a, done') /\ RecordIn(mem', n * EntrySize) = rec'
       /\ added' = Append(a, rec') /\ rec' \in Records /\ Len(job') <= 4
  BY <1>1, <1>6, <1>7, <1>9 DEF Kept
<1>18. HeaderOK'
  BY <1>11, <1>12, <1>13, <1>14, <1>15, <1>16, <1>17 DEF HeaderOK
<1> QED BY <1>6, <1>18 DEF KeptInv

LEMMA WriteClearKept ==
  ASSUME Inv, Addressable, KeptInv, WriteByte, known, pc = "clear"
  PROVE  KeptInv'
<1>0. Capacity \in Nat /\ mem \in Mem BY DEF Inv, KeptInv
<1> DEFINE G == Capacity - OFFSET
           w == Wiped
<1>1. /\ G >= 4 /\ done = <<>> /\ Len(job) <= G + 4
      /\ \A k \in 1..Len(job) : job[k] = IF w + k <= G THEN <<OFFSET + w + k - 1, DefaultValue>>
                                         ELSE <<OFFSET + w + k - G - 1, 0>>
      /\ w >= 1 => mem[OFFSET] = IF w <= G THEN DefaultValue ELSE 0
      /\ w >= 2 => mem[OFFSET + 1] = IF w <= G + 1 THEN DefaultValue ELSE 0
      /\ w >= G + 3 => mem[OFFSET + 2] = 0
      /\ w >= G + 4 => mem[OFFSET + 3] = 0
  BY <1>0, ConstantFacts DEF KeptInv, ClearOK
<1>2. Len(job) \in Nat /\ Len(job) > 0 /\ Head(job) = job[1]
  <2>1. job # <<>> BY DEF WriteByte
  <2>2. PICK S : job \in Seq(UINT8 \X S) BY DEF Inv, JobInv
  <2> QED BY <2>1, <2>2, HeadTailProperties, LenProperties, EmptySeq
<1>3. w = G + 4 - Len(job) /\ w \in Nat /\ w < G + 4 /\ G \in Nat
  BY <1>0, <1>1, <1>2, ConstantFacts DEF Wiped
<1> DEFINE at == IF w + 1 <= G THEN OFFSET + w ELSE OFFSET + w - G
           x == IF w + 1 <= G THEN DefaultValue ELSE 0
<1> HIDE DEF w
<1>4. job[1] = <<at, x>>
  <2>1. 1 \in 1..Len(job) /\ OFFSET + w + 1 - 1 = OFFSET + w
        /\ OFFSET + w + 1 - G - 1 = OFFSET + w - G
    BY <1>2, <1>3, ConstantFacts
  <2> QED BY <1>1, <2>1
<1>5. x \in UINT8 BY ConstantFacts
<1>6. /\ mem' \in Mem /\ Capacity' = Capacity /\ Len(job') = Len(job) - 1
      /\ \A k \in 1..Len(job') : job'[k] = job[k + 1]
      /\ \A b \in UINT8 : mem'[b] = IF b = at THEN x ELSE mem[b]
      /\ known' /\ UNCHANGED <<pc, rec, added, done, torn>>
  <2>1. Head(job)[2] \in UINT8 BY <1>2, <1>4, <1>5
  <2> QED BY <1>0, <1>4, <2>1, Written
<1>7. Wiped' = w + 1 /\ Capacity' - OFFSET = G
  BY <1>0, <1>2, <1>3, <1>6, ConstantFacts DEF Wiped
<1>8. /\ OFFSET = at <=> w = 0 \/ w = G
      /\ OFFSET + 1 = at <=> w = 1 \/ w = G + 1
      /\ OFFSET + 2 = at <=> w = 2 \/ w = G + 2
      /\ OFFSET + 3 = at <=> w = 3 \/ w = G + 3
  <2>1. G >= 4 /\ G \in Nat /\ w \in Nat /\ w < G + 4 /\ OFFSET \in Nat
    BY <1>1, <1>3, ConstantFacts
  <2> HIDE DEF G
  <2>2. CASE w + 1 <= G BY <2>1, <2>2
  <2>3. CASE ~(w + 1 <= G) BY <2>1, <2>3
  <2> QED BY <2>2, <2>3
<1>9. /\ mem'[OFFSET] = IF w = 0 \/ w = G THEN x ELSE mem[OFFSET]
      /\ mem'[OFFSET + 1] = IF w = 1 \/ w = G + 1 THEN x ELSE mem[OFFSET + 1]
      /\ mem'[OFFSET + 2] = IF w = 2 \/ w = G + 2 THEN x ELSE mem[OFFSET + 2]
      /\ mem'[OFFSET + 3] = IF w = 3 \/ w = G + 3 THEN x ELSE mem[OFFSET + 3]
  BY <1>6, <1>8, HeaderAddresses
<1> HIDE DEF G
<1>10. mem'[OFFSET] = IF w + 1 <= G THEN DefaultValue ELSE 0
  BY <1>1, <1>3, <1>9
<1>11. w + 1 >= 2 => mem'[OFFSET + 1] = IF w + 1 <= G + 1 THEN DefaultValue ELSE 0
  <2>1. CASE w = 1 BY <1>1, <1>3, <1>9, <2>1
  <2>2. CASE w = G + 1 BY <1>1, <1>3, <1>9, <2>2
  <2>3. CASE w > 1 /\ w # G + 1 BY <1>1, <1>3, <1>9, <2>3
  <2> QED BY <1>3, <2>1, <2>2, <2>3
<1>12. w + 1 >= G + 3 => mem'[OFFSET + 2] = 0
  BY <1>1, <1>3, <1>9
<1>13. w + 1 >= G + 4 => mem'[OFFSET + 3] = 0
  BY <1>1, <1>3, <1>9
<1>14. ASSUME NEW k \in 1..Len(job')
       PROVE  job'[k] = IF (w + 1) + k <= G THEN <<OFFSET + (w + 1) + k - 1, DefaultValue>>
                        ELSE <<OFFSET + (w + 1) + k - G - 1, 0>>
  <2>1. k + 1 \in 1..Len(job) /\ w + (k + 1) = (w + 1) + k
        /\ OFFSET + w + (k + 1) - 1 = OFFSET + (w + 1) + k - 1
        /\ OFFSET + w + (k + 1) - G - 1 = OFFSET + (w + 1) + k - G - 1
    <3>1. k \in Nat /\ k >= 1 /\ k <= Len(job) - 1 BY <1>2, <1>6
    <3>2. w \in Nat /\ G \in Nat /\ OFFSET \in Nat /\ Len(job) \in Nat
      BY <1>2, <1>3, ConstantFacts
    <3> QED BY <3>1, <3>2
  <2>2. job[k + 1] = IF w + (k + 1) <= G THEN <<OFFSET + w + (k + 1) - 1, DefaultValue>>
                     ELSE <<OFFSET + w + (k + 1) - G - 1, 0>>
    BY <1>1, <2>1
  <2> QED BY <1>6, <2>1, <2>2
<1>15. w + 1 # 0 /\ w + 1 >= 1 BY <1>3
<1>16. Capacity' >= OFFSET + 4 /\ done' = <<>> /\ Len(job') <= G + 4
  BY <1>0, <1>1, <1>2, <1>3, <1>6, ConstantFacts DEF G
<1>17. ClearOK'
  <2> DEFINE v == Wiped'
             C == Capacity'
  <2>1. v = w + 1 /\ C - OFFSET = G BY <1>7
  <2> HIDE DEF v, C
  <2>2. \A k \in 1..Len(job') :
          job'[k] = IF v + k <= C - OFFSET THEN <<OFFSET + v + k - 1, DefaultValue>>
                    ELSE <<OFFSET + v + k - (C - OFFSET) - 1, 0>>
    BY <1>14, <2>1
  <2>3. /\ v >= 1 => mem'[OFFSET] = IF v <= C - OFFSET THEN DefaultValue ELSE 0
        /\ v >= 2 => mem'[OFFSET + 1] = IF v <= C - OFFSET + 1 THEN DefaultValue ELSE 0
        /\ v >= C - OFFSET + 3 => mem'[OFFSET + 2] = 0
        /\ v >= C - OFFSET + 4 => mem'[OFFSET + 3] = 0
    BY <1>10, <1>11, <1>12, <1>13, <2>1
  <2>4. v # 0 /\ C >= OFFSET + 4 /\ done' = <<>> /\ Len(job') <= (C - OFFSET) + 4
    BY <1>15, <1>16, <2>1 DEF C
  <2> QED BY <2>2, <2>3, <2>4, Zenon DEF ClearOK, v, C
<1> QED BY <1>6, <1>17 DEF KeptInv

\* The four bytes of a header.
LEMMA HeaderIs ==
  ASSUME NEW x \in Nat, NEW y \in Nat
  PROVE  \E T : /\ Word(x) \o Word(y) \in Seq(T) /\ Len(Word(x) \o Word(y)) = 4
                /\ (Word(x) \o Word(y))[1] = x % B /\ (Word(x) \o Word(y))[2] = x \div B
                /\ (Word(x) \o Word(y))[3] = y % B /\ (Word(x) \o Word(y))[4] = y \div B
<1> DEFINE T == {x % B, x \div B, y % B, y \div B}
           u == Word(x)
           v == Word(y)
<1>1. u \in Seq(T) /\ v \in Seq(T) /\ Len(u) = 2 /\ Len(v) = 2
      /\ u[1] = x % B /\ u[2] = x \div B /\ v[1] = y % B /\ v[2] = y \div B
  BY DEF Word
<1> HIDE DEF T, u, v
<1>2. /\ u \o v \in Seq(T) /\ Len(u \o v) = Len(u) + Len(v)
      /\ \A i \in 1..Len(u) + Len(v) :
           (u \o v)[i] = IF i <= Len(u) THEN u[i] ELSE v[i - Len(u)]
  BY <1>1, ConcatProperties, Zenon
<1>3. /\ 1 \in 1..2 + 2 /\ 2 \in 1..2 + 2 /\ 3 \in 1..2 + 2 /\ 4 \in 1..2 + 2
      /\ 1 <= 2 /\ 2 <= 2 /\ ~(3 <= 2) /\ ~(4 <= 2) /\ 3 - 2 = 1 /\ 4 - 2 = 2 /\ 2 + 2 = 4
  OBVIOUS
<1>4. /\ u \o v \in Seq(T) /\ Len(u \o v) = 4 /\ (u \o v)[1] = u[1] /\ (u \o v)[2] = u[2]
      /\ (u \o v)[3] = v[1] /\ (u \o v)[4] = v[2]
  BY <1>1, <1>2, <1>3
<1> QED BY <1>1, <1>4 DEF u, v

LEMMA UpdateHeaderKept ==
  ASSUME Inv, Addressable, KeptInv, UpdateHeader
  PROVE  KeptInv'
<1>0. /\ Capacity \in Nat /\ mem \in Mem /\ pc = "record" /\ job = <<>> /\ Len(job) = 0
      /\ UNCHANGED <<Capacity, mem, added, done, torn>> /\ known' = (known \/ HeaderRead)
  BY DEF Inv, KeptInv, UpdateHeader
<1>a. CASE ~known
  <2>1. ~HeaderRead BY <1>0, <1>a DEF Inv, BufferInv, HeaderRead
  <2>2. AtRest BY <1>a DEF KeptInv
  <2>3. AtRest' BY <1>0, <2>2, RestSame
  <2>4. pc' = "idle" /\ job' = <<>> BY <2>1 DEF UpdateHeader, Idle
  <2> QED BY <1>0, <2>3, <2>4 DEF KeptInv, IdleOK
<1>b. SUFFICES ASSUME known PROVE KeptInv'
  BY <1>a
<1>k. known' BY <1>0, <1>b
<1>1. PICK n \in Nat, a \in Seq(Records) :
        /\ Counts(mem, n) /\ Fit(n + 1) /\ added = Append(a, rec) /\ rec \in Records
        /\ Kept(mem, n, a, done) /\ (~torn => SumsUp(mem, n))
        /\ \A i \in 1..(EntrySize - 0) : mem[OFFSET + 4 + n * EntrySize + i - 1] = rec[i]
  BY <1>0, <1>b DEF KeptInv, RecordOK
<1>2. CASE Idle
  <2>1. Thinned(added, StoredIn(mem, n)) BY <1>1, ThinnedMore DEF Kept
  <2>2. Fit(n) BY <1>0, <1>1, FitLess
  <2>3. Kept(mem, n, added, done) BY <1>1, <2>1 DEF Kept
  <2>4. Whole BY <1>1, <2>2, <2>3 DEF Whole
  <2>5. Whole' BY <1>0, <2>4 DEF Whole, Fit
  <2>6. IdleOK' BY <1>2, <2>5 DEF IdleOK, Idle, AtRest
  <2> QED BY <1>0, <1>2, <1>k, <2>6 DEF KeptInv, Idle
<1>3. CASE /\ pc' = "header" /\ UNCHANGED rec
           /\ job' = Bytes(Header(ActiveRange + EntrySize), 0)
  <2> DEFINE q == n * EntrySize
             r == (n + 1) * EntrySize
             c == CheckFor(mem, n + 1)
  <2>1. ActiveRange = q /\ q \in Nat BY <1>0, <1>1, CountsIs, ActiveRangeIs
  <2>2. OFFSET + 4 + r <= Capacity /\ r = q + EntrySize
    <3>1. OFFSET + 4 + q + EntrySize <= Capacity /\ r = q + EntrySize BY <1>0, <1>1, FitLess
    <3> HIDE DEF q, r
    <3> QED BY <3>1, <2>1, EntryFacts, ConstantFacts
  <2>3. r \in Nat /\ r % 2 = 0 /\ n + 1 \in Nat BY <1>1, FitIs
  <2>4. DataSum(r) = SumIn(mem, r \div 2) BY <1>0, <2>2, <2>3, DataSumIs
  <2>5. ChecksumOf(r) = c BY <2>4 DEF ChecksumOf, CheckFor
  <2>6. c \in 0..(W - 1) BY <1>0, <1>1, <2>3, HeadBytes
  <2>7. c \in Nat BY <2>6
  <2>8. PICK T : /\ Header(r) \in Seq(T) /\ Len(Header(r)) = 4
                 /\ Header(r)[1] = r % B /\ Header(r)[2] = r \div B
                 /\ Header(r)[3] = c % B /\ Header(r)[4] = c \div B
    <3>1. Header(r) = Word(r) \o Word(c) BY <2>5 DEF Header
    <3> HIDE DEF r, c
    <3>2. \E T : /\ Word(r) \o Word(c) \in Seq(T) /\ Len(Word(r) \o Word(c)) = 4
                 /\ (Word(r) \o Word(c))[1] = r % B /\ (Word(r) \o Word(c))[2] = r \div B
                 /\ (Word(r) \o Word(c))[3] = c % B /\ (Word(r) \o Word(c))[4] = c \div B
      BY <2>3, <2>7, HeaderIs, Zenon
    <3> QED BY <3>1, <3>2, Zenon
  <2>9. r % B = r /\ r \div B = 0
    <3>1. r \in Nat /\ r < B BY <2>2, <2>3, <1>0, ConstantFacts DEF Addressable
    <3> HIDE DEF r
    <3>2. r % B = r BY <3>1, NoWrap DEF U8
    <3>3. r \div B = 0 BY <3>1, ConstantFacts
    <3> QED BY <3>2, <3>3
  <2>10. \A i \in 1..4 : Header(r)[i] = HeadByte(mem, n + 1, i)
    <3>1. \A i \in 1..4 : i = 1 \/ i = 2 \/ i = 3 \/ i = 4 OBVIOUS
    <3> QED BY <2>8, <2>9, <3>1 DEF HeadByte
  <2>11. job' = [i \in 1..4 |-> <<Index(0, i - 1), Header(r)[i]>>]
    BY <1>3, <2>1, <2>2, <2>8 DEF Bytes
  <2>12. Len(job') = 4 BY <2>11
  <2> HIDE DEF c
  <2>13. ASSUME NEW k \in 1..Len(job')
         PROVE  job'[k] = <<OFFSET + 4 - Len(job') + k - 1,
                            HeadByte(mem', n + 1, 4 - Len(job') + k)>>
    <3>1. k \in 1..4 /\ 4 - Len(job') + k = k BY <2>12
    <3>2. OFFSET + 4 - Len(job') + k - 1 = OFFSET + 0 + (k - 1) /\ k - 1 \in Nat
          /\ OFFSET + 0 + (k - 1) < Capacity
      BY <1>0, <2>2, <2>3, <2>12, <3>1, ConstantFacts
    <3>3. Index(0, k - 1) = OFFSET + 0 + (k - 1) BY <1>0, <3>2, IndexIs
    <3>4. job'[k] = <<Index(0, k - 1), Header(r)[k]>> BY <2>11, <3>1
    <3> QED BY <1>0, <2>10, <3>1, <3>2, <3>3, <3>4
  <2>14. RecordIn(mem, q) = rec
    <3>1. rec \in [1..EntrySize -> UINT8] BY <1>1, EntryFacts
    <3>2. EntrySize - 0 = EntrySize BY EntryFacts
    <3>3. \A i \in 1..EntrySize : mem[OFFSET + 4 + q + i - 1] = rec[i] BY <1>1, <3>2
    <3>4. rec = [i \in 1..EntrySize |-> rec[i]] BY <3>1
    <3>5. RecordIn(mem, q) = [i \in 1..EntrySize |-> mem[OFFSET + 4 + q + i - 1]]
      BY DEF RecordIn
    <3> HIDE DEF q
    <3> QED BY <3>3, <3>4, <3>5
  <2>15. mem[OFFSET] = q /\ mem[OFFSET + 1] = 0 BY <1>1 DEF Counts
  <2>16. Fit(n + 1)' BY <1>0, <1>1 DEF Fit
  <2>17. ~(Len(job') <= 1) /\ Len(job') # 0 /\ Len(job') <= 4 BY <2>12
  <2>18. /\ mem'[OFFSET] = IF Len(job') = 4 THEN n * EntrySize ELSE (n + 1) * EntrySize
         /\ mem'[OFFSET + 1] = 0 /\ RecordIn(mem', n * EntrySize) = rec'
         /\ added' = Append(a, rec') /\ rec' \in Records /\ Kept(mem', n, a, done')
    BY <1>0, <1>1, <1>3, <2>12, <2>14, <2>15
  <2>19. HeaderOK' BY <2>13, <2>16, <2>17, <2>18 DEF HeaderOK
  <2> QED BY <1>0, <1>3, <1>k, <2>19 DEF KeptInv
<1> QED BY <1>2, <1>3 DEF UpdateHeader

\* The header is whole: the record is done, and the sum is 0.
LEMMA AddDoneKept ==
  ASSUME Inv, Addressable, KeptInv, AddDone
  PROVE  KeptInv'
<1>0. /\ Capacity \in Nat /\ mem \in Mem /\ pc = "header" /\ job = <<>> /\ Len(job) = 0
      /\ UNCHANGED <<Capacity, mem, added>> /\ done' = Append(done, rec) /\ torn' = FALSE
      /\ pc' = "idle" /\ job' = <<>> /\ done \in Seq(Records) /\ added \in Seq(Records)
  BY DEF Inv, KeptInv, AddDone, Idle
<1>1. PICK n \in Nat, a \in Seq(Records) :
        /\ Fit(n + 1) /\ added = Append(a, rec) /\ rec \in Records /\ Kept(mem, n, a, done)
        /\ RecordIn(mem, n * EntrySize) = rec
        /\ mem[OFFSET] = (n + 1) * EntrySize /\ mem[OFFSET + 1] = 0
        /\ mem[OFFSET + 2] = HeadByte(mem, n + 1, 3)
        /\ mem[OFFSET + 3] = HeadByte(mem, n + 1, 4)
  BY <1>0 DEF KeptInv, HeaderOK
<1>2. StoredIn(mem, n) \in Seq(Records) BY <1>1 DEF Kept
<1>3. StoredIn(mem, n + 1) = Append(StoredIn(mem, n), rec) BY <1>1, <1>2, StoredAppend
<1>r. rec \in Records BY <1>1
<1>4. StoredIn(mem, n + 1) \in Seq(Records) BY <1>r, <1>2, <1>3, AppendProperties
<1>5. Thinned(added, StoredIn(mem, n + 1)) BY <1>1, <1>2, <1>3, ThinnedBoth DEF Kept
<1>6. Thinned(StoredIn(mem, n + 1), done') BY <1>0, <1>1, <1>2, <1>3, ThinnedBoth DEF Kept
<1>7. Kept(mem', n + 1, added', done') BY <1>0, <1>4, <1>5, <1>6 DEF Kept
<1>8. Counts(mem', n + 1) BY <1>0, <1>1 DEF Counts
<1>9. SumsUp(mem', n + 1)
  <2> DEFINE r == (n + 1) * EntrySize
             s == SumIn(mem, r \div 2)
             c == CheckFor(mem, n + 1)
  <2>1. n + 1 \in Nat OBVIOUS
  <2>2. c \in 0..(W - 1) /\ r + s \in Nat BY <1>0, <1>1, <2>1, HeadBytes
  <2>3. WordIn(mem, 0) = r
    <3>1. Counts(mem, n + 1) BY <1>1 DEF Counts
    <3> QED BY <1>0, <2>1, <3>1, CountsIs
  <2>4. WordIn(mem, 2) = (c % B) + B * (c \div B)
    <3>1. mem[OFFSET + 2] = c % B /\ mem[OFFSET + 3] = c \div B BY <1>1 DEF HeadByte
    <3> QED BY <3>1, WordIs
  <2>5. c = (W - ((r + s) % W)) % W BY DEF CheckFor
  <2>6. r \in Nat /\ s \in Nat
    <3>1. r \in Nat /\ r % 2 = 0 /\ (r = 0 \/ OFFSET + 4 + r <= Capacity) BY <1>1, <2>1, FitIs
    <3> QED BY <1>0, <3>1, SumInNat
  <2>7. WordIn(mem, 0) + WordIn(mem, 2) + SumIn(mem, r \div 2) = r + ((c % B) + B * (c \div B)) + s
    BY <2>3, <2>4
  <2> HIDE DEF r, s, c
  <2>w. W \in Nat /\ W > 0 BY EntryFacts
  <2>c. c \in Nat BY <2>2, <2>w
  <2>b. B \in Nat /\ B > 0 BY ConstantFacts
  <2>8. (c % B) + B * (c \div B) = c BY <2>c, <2>b, DivMod
  <2>9. r + c + s = (r + s) + c BY <2>6, <2>c
  <2> DEFINE x == r + s
  <2>x. x \in Nat /\ c = (W - (x % W)) % W BY <2>2, <2>5
  <2> HIDE DEF x
  <2>y. (x + c) % W = 0 BY <2>x, <2>w, Cancels
  <2>10. ((r + s) + c) % W = 0 BY <2>y DEF x
  <2>11. (WordIn(mem, 0) + WordIn(mem, 2) + SumIn(mem, r \div 2)) % W = 0
    BY <2>7, <2>8, <2>9, <2>10
  <2> QED BY <1>0, <2>11 DEF SumsUp, r
<1>10. Fit(n + 1)' /\ n + 1 \in Nat BY <1>0, <1>1 DEF Fit
<1>11. Whole' BY <1>7, <1>8, <1>9, <1>10 DEF Whole
<1>12. done' \in Seq(Records) BY <1>0, <1>1, AppendProperties
<1> QED BY <1>0, <1>11, <1>12 DEF KeptInv, IdleOK, AtRest

\* A function on 1..n is a sequence of length n.
LEMMA SeqIs ==
  ASSUME NEW n \in Nat, NEW S, NEW f \in [1..n -> S]
  PROVE  f \in Seq(S) /\ Len(f) = n
OBVIOUS

\* Emptying begins.
LEMMA FormatKept ==
  ASSUME Inv, Addressable, KeptInv, DefaultKnown, known, Format
  PROVE  KeptInv'
<1> DEFINE G == Capacity - OFFSET
           cleared == [i \in 1..GetMaxSize |-> DefaultValue]
           header == Word(0) \o Word(0)
<1>0. /\ Capacity \in Nat /\ mem \in Mem /\ pc = "idle" /\ pc' = "clear" /\ done' = <<>>
      /\ UNCHANGED <<Capacity, known, mem, added, torn>>
      /\ Accepted(GetMaxSize, 0) /\ Accepted(HEADER_SIZE, 0)
      /\ job' = Bytes(cleared, 0) \o Bytes(header, 0)
  BY DEF Inv, KeptInv, Format
<1>1. GetMaxSize = G /\ GetMaxSize > 0 BY <1>0, MaxSizeFacts DEF Accepted
<1>2. G \in Nat /\ G >= 4
  <2>1. Capacity >= OFFSET BY <1>0, <1>1, ConstantFacts
  <2>2. 4 \in 1..Capacity /\ 0 \in UINT8 BY <1>0, <2>1, ConstantFacts
  <2>3. OFFSET + 0 + 4 <= Capacity
    BY <1>0, <2>2, AcceptedInside DEF HEADER_SIZE
  <2> QED BY <1>0, <2>3, ConstantFacts
<1>3. cleared \in Seq(UINT8) /\ Len(cleared) = G /\ \A i \in 1..G : cleared[i] = DefaultValue
  BY <1>1, <1>2, ConstantFacts
<1> HIDE DEF cleared
<1>4. PICK T : /\ header \in Seq(T) /\ Len(header) = 4
               /\ header[1] = 0 % B /\ header[2] = 0 \div B
               /\ header[3] = 0 % B /\ header[4] = 0 \div B
  BY HeaderIs
<1> HIDE DEF header
<1>5. \A i \in 1..4 : header[i] = 0
  <2>1. 0 % B = 0 /\ 0 \div B = 0 BY ConstantFacts
  <2>2. \A i \in 1..4 : i = 1 \/ i = 2 \/ i = 3 \/ i = 4 OBVIOUS
  <2> QED BY <1>4, <2>1, <2>2
<1> DEFINE u == Bytes(cleared, 0)
           v == Bytes(header, 0)
           S == UINT8 \X (UINT8 \cup {0})
<1>6. \A i \in 1..G : Index(0, i - 1) = OFFSET + i - 1 /\ Index(0, i - 1) \in UINT8
  <2> TAKE i \in 1..G
  <2>1. i - 1 \in Nat /\ OFFSET + 0 + (i - 1) < Capacity /\ OFFSET + 0 + (i - 1) = OFFSET + i - 1
    BY <1>0, <1>2, ConstantFacts
  <2> QED BY <1>0, <2>1, IndexInside
<1>7. /\ u = [i \in 1..G |-> <<Index(0, i - 1), cleared[i]>>]
      /\ v = [i \in 1..4 |-> <<Index(0, i - 1), header[i]>>]
  BY <1>3, <1>4 DEF Bytes
<1>8. u \in Seq(S) /\ Len(u) = G /\ \A i \in 1..G : u[i] = <<OFFSET + i - 1, DefaultValue>>
  <2>1. \A i \in 1..G : <<Index(0, i - 1), cleared[i]>> \in S BY <1>3, <1>6, ConstantFacts
  <2> HIDE DEF S
  <2>2. u \in Seq(S) /\ Len(u) = G BY <1>2, <1>7, <2>1
  <2>3. \A i \in 1..G : u[i] = <<OFFSET + i - 1, DefaultValue>> BY <1>3, <1>6, <1>7
  <2> QED BY <2>2, <2>3
<1>9. v \in Seq(S) /\ Len(v) = 4 /\ \A i \in 1..4 : v[i] = <<OFFSET + i - 1, 0>>
  <2>0. \A i \in 1..4 : i \in 1..G BY <1>2
  <2>1. \A i \in 1..4 : <<Index(0, i - 1), header[i]>> \in S
    <3>1. \A i \in 1..4 : Index(0, i - 1) \in UINT8 BY <1>6, <2>0, Zenon
    <3> QED BY <1>5, <3>1
  <2> HIDE DEF S
  <2>2. v \in Seq(S) /\ Len(v) = 4
    <3>1. v = [i \in 1..4 |-> <<Index(0, i - 1), header[i]>>] BY <1>7
    <3> HIDE DEF v
    <3>2. v \in [1..4 -> S] BY <2>1, <3>1
    <3> QED BY <3>2, SeqIs
  <2>3. \A i \in 1..4 : v[i] = <<OFFSET + i - 1, 0>> BY <1>5, <1>6, <1>7, <2>0
  <2> QED BY <2>2, <2>3
<1>10. job' = u \o v BY <1>0
<1> HIDE DEF u, v, S
<1>11. /\ Len(job') = G + 4
       /\ \A i \in 1..(G + 4) : job'[i] = IF i <= G THEN u[i] ELSE v[i - G]
  <2>1. /\ Len(u \o v) = Len(u) + Len(v)
        /\ \A i \in 1..Len(u) + Len(v) :
             (u \o v)[i] = IF i <= Len(u) THEN u[i] ELSE v[i - Len(u)]
    BY <1>8, <1>9, ConcatProperties, Zenon
  <2>2. Len(u) = G /\ Len(v) = 4 BY <1>8, <1>9
  <2> HIDE DEF G
  <2> QED BY <1>10, <2>1, <2>2
<1>12. Wiped' = 0 /\ Capacity' - OFFSET = G
  BY <1>0, <1>2, <1>11, ConstantFacts DEF Wiped
<1>13. ASSUME NEW k \in 1..(G + 4)
       PROVE  job'[k] = IF 0 + k <= G THEN <<OFFSET + 0 + k - 1, DefaultValue>>
                        ELSE <<OFFSET + 0 + k - G - 1, 0>>
  <2>1. 0 + k = k /\ OFFSET + 0 + k - 1 = OFFSET + k - 1
        /\ OFFSET + 0 + k - G - 1 = OFFSET + (k - G) - 1
    BY <1>2, ConstantFacts
  <2>2. CASE k <= G
    <3>1. k \in 1..G BY <2>2
    <3> QED BY <1>8, <1>11, <2>1, <2>2, <3>1
  <2>3. CASE ~(k <= G)
    <3>1. k - G \in 1..4 BY <1>2, <2>3
    <3> QED BY <1>9, <1>11, <2>1, <2>3, <3>1
  <2> QED BY <2>2, <2>3
<1>14. Sound'
  <2>1. CASE Dead(mem) BY <1>0, <2>1 DEF Sound
  <2>2. CASE Whole
    <3>1. PICK n \in Nat : Counts(mem, n) /\ Fit(n) /\ Kept(mem, n, added, done)
      BY <2>2 DEF Whole
    <3>2. Kept(mem', n, added', done') BY <1>0, <3>1, ThinnedNone DEF Kept
    <3>3. Counts(mem', n) /\ Fit(n)' BY <1>0, <3>1 DEF Fit
    <3> QED BY <3>2, <3>3 DEF Sound
  <2> QED BY <1>0, <2>1, <2>2 DEF KeptInv, IdleOK, AtRest
<1>15. ClearOK'
  <2> DEFINE w == Wiped'
             C == Capacity'
  <2>1. w = 0 /\ C - OFFSET = G /\ C >= OFFSET + 4 BY <1>0, <1>2, <1>12, ConstantFacts
  <2> HIDE DEF w, C
  <2>2. \A k \in 1..Len(job') :
          job'[k] = IF w + k <= C - OFFSET THEN <<OFFSET + w + k - 1, DefaultValue>>
                    ELSE <<OFFSET + w + k - (C - OFFSET) - 1, 0>>
    BY <1>11, <1>13, <2>1
  <2>3. /\ ~(w >= 1) /\ ~(w >= 2) /\ ~(w >= C - OFFSET + 3) /\ ~(w >= C - OFFSET + 4)
        /\ Len(job') <= (C - OFFSET) + 4
    BY <1>2, <1>11, <2>1
  <2> QED BY <1>0, <1>14, <2>1, <2>2, <2>3, Zenon DEF ClearOK, w, C
<1>16. done' \in Seq(Records) BY <1>0
<1> QED BY <1>0, <1>15, <1>16 DEF KeptInv

LEMMA FormatDoneKept ==
  ASSUME Inv, Addressable, KeptInv, known, FormatDone
  PROVE  KeptInv'
<1>0. /\ Capacity \in Nat /\ mem \in Mem /\ pc = "clear" /\ Len(job) = 0
      /\ UNCHANGED <<Capacity, mem, done>> /\ added' = <<>> /\ torn' = FALSE
      /\ pc' = "idle" /\ job' = <<>> /\ done \in Seq(Records)
  BY DEF Inv, KeptInv, FormatDone, Idle
<1>1. Wiped = Capacity - OFFSET + 4 /\ Capacity - OFFSET >= 4 /\ done = <<>>
  BY <1>0, ConstantFacts DEF KeptInv, ClearOK, Wiped
<1>2. mem[OFFSET] = 0 /\ mem[OFFSET + 1] = 0 /\ mem[OFFSET + 2] = 0 /\ mem[OFFSET + 3] = 0
  <2> DEFINE G == Capacity - OFFSET
             w == Wiped
  <2>1. /\ w >= 1 => mem[OFFSET] = IF w <= G THEN DefaultValue ELSE 0
        /\ w >= 2 => mem[OFFSET + 1] = IF w <= G + 1 THEN DefaultValue ELSE 0
        /\ w >= G + 3 => mem[OFFSET + 2] = 0
        /\ w >= G + 4 => mem[OFFSET + 3] = 0
    BY <1>0 DEF KeptInv, ClearOK
  <2>2. w = G + 4 /\ G \in Nat /\ G >= 4 BY <1>0, <1>1, ConstantFacts
  <2> HIDE DEF w, G
  <2> QED BY <2>1, <2>2
<1>3. Counts(mem, 0) /\ Kept(mem', 0, added', done')
  <2>1. Thinned(<<>>, <<>>) BY ThinnedNone
  <2>2. 0 * EntrySize = 0 BY EntryFacts
  <2> QED BY <1>0, <1>1, <1>2, <2>1, <2>2, KeptNothing DEF Counts
<1>4. SumsUp(mem, 0)
  <2>1. 0 * EntrySize = 0 /\ B * 0 = 0 /\ 0 \div 2 = 0 BY EntryFacts, ConstantFacts
  <2>2. SumIn(mem, 0) = 0 BY SumToIs DEF SumIn
  <2>3. WordIn(mem, 0) = 0 /\ WordIn(mem, 2) = 0 BY <1>2, <2>1, WordIs
  <2>4. 0 % W = 0 BY EntryFacts
  <2> QED BY <2>1, <2>2, <2>3, <2>4 DEF SumsUp
<1>5. Whole' BY <1>0, <1>3, <1>4 DEF Whole, Fit
<1>6. added' \in Seq(Records) BY <1>0
<1> QED BY <1>0, <1>5, <1>6 DEF KeptInv, IdleOK, AtRest

LEMMA JobLen ==
  ASSUME Inv, Addressable
  PROVE  Len(job) \in Nat
BY LenProperties DEF Inv, JobInv

LEMMA ResetKept ==
  ASSUME Inv, Addressable, KeptInv, DefaultKnown, Reset
  PROVE  KeptInv'
<1>0. /\ Capacity \in Nat /\ mem \in Mem
      /\ torn' = (torn \/ (known /\ pc \in {"header", "clear"}))
      /\ UNCHANGED <<Capacity, mem, added, done>> /\ pc' = "idle" /\ job' = <<>>
      /\ torn \in BOOLEAN
  BY DEF Inv, KeptInv, Reset, Idle
<1>1. torn' \in BOOLEAN BY <1>0
<1> SUFFICES AtRest' BY <1>0, <1>1 DEF KeptInv, IdleOK
<1>2. CASE pc = "idle" \/ ~known
  <2>1. torn' = torn BY <1>0, <1>2
  <2>2. AtRest BY <1>2 DEF KeptInv, IdleOK
  <2> QED BY <1>0, <2>1, <2>2, RestSame
<1>3. CASE pc = "record" /\ known
  <2>1. PICK n \in Nat, a \in Seq(Records) :
          /\ Counts(mem, n) /\ Fit(n + 1) /\ added = Append(a, rec) /\ rec \in Records
          /\ Kept(mem, n, a, done) /\ (~torn => SumsUp(mem, n))
    BY <1>3 DEF KeptInv, RecordOK
  <2>2. Thinned(added, StoredIn(mem, n)) BY <2>1, ThinnedMore DEF Kept
  <2>3. Fit(n) BY <1>0, <2>1, FitLess
  <2>4. Kept(mem, n, added, done) BY <2>1, <2>2 DEF Kept
  <2>5. Whole BY <2>1, <2>3, <2>4 DEF Whole
  <2>6. torn' = torn BY <1>0, <1>3
  <2>7. Whole' BY <1>0, <2>5, <2>6 DEF Whole, Fit
  <2> QED BY <2>7 DEF AtRest
<1>4. CASE pc \in {"header", "clear"} /\ known
  <2>1. torn' = TRUE BY <1>0, <1>4
  <2>2. Sound BY <1>0, AlwaysSound, JobLen
  <2>3. CASE Dead(mem) /\ done = <<>> BY <1>0, <2>1, <2>3 DEF AtRest
  <2>4. CASE \E n \in Nat : Counts(mem, n) /\ Fit(n) /\ Kept(mem, n, added, done)
    <3>1. Whole' BY <1>0, <2>1, <2>4 DEF Whole, Fit
    <3> QED BY <3>1 DEF AtRest
  <2> QED BY <2>2, <2>3, <2>4 DEF Sound
<1> QED BY <1>2, <1>3, <1>4 DEF Inv

LEMMA NotIdleWrites ==
  ASSUME Inv, Addressable, KeptInv, WriteByte
  PROVE  pc \in {"record", "header", "clear"} /\ (pc = "header" => known)
BY DEF KeptInv, IdleOK, WriteByte, Inv, BufferInv

\* Without the address of the log buffer the store stays as it is.
LEMMA AsideKept ==
  ASSUME Inv, Addressable, KeptInv, ~known, WriteByte \/ Format \/ FormatDone
  PROVE  KeptInv'
<1>1. /\ UNCHANGED <<Capacity, known, mem, added, done>> /\ (torn' = torn)
      /\ (pc' = "idle" => job' = <<>>) /\ pc' \in {"idle", "record", "header", "clear"}
      /\ pc' # "header"
  <2>1. CASE WriteByte BY <2>1, NotIdleWrites DEF WriteByte
  <2>2. CASE Format BY <2>2 DEF Format
  <2>3. CASE FormatDone
    <3>1. torn' = (torn /\ ~known) /\ torn \in BOOLEAN BY <2>3 DEF FormatDone, KeptInv
    <3>2. torn' = torn BY <3>1
    <3> QED BY <2>3, <3>2 DEF FormatDone, Idle
  <2> QED BY <2>1, <2>2, <2>3
<1>2. AtRest' BY <1>1, RestSame DEF KeptInv
<1> QED BY <1>1, <1>2 DEF KeptInv, IdleOK

LEMMA UserReadKept ==
  ASSUME Inv, KeptInv, UserRead
  PROVE  KeptInv'
<1>1. UNCHANGED <<Capacity, mem, pc, job, rec, added, done, torn>> /\ pc = "idle"
  BY DEF UserRead
<1>2. AtRest' BY <1>1, RestSame DEF KeptInv, IdleOK
<1> QED BY <1>1, <1>2 DEF KeptInv, IdleOK

AllInv == Inv /\ (Addressable => KeptInv)

LEMMA AllInit == Init => AllInv
BY InitInv, KeptInit DEF AllInv

LEMMA AllStep ==
  ASSUME DefaultKnown
  PROVE  AllInv /\ [Next]_vars => AllInv'
<1> SUFFICES ASSUME AllInv, [Next]_vars PROVE AllInv'
  OBVIOUS
<1>1. Inv' BY NextInv DEF AllInv
<1>2. Inv BY DEF AllInv
<1>3. UNCHANGED Capacity
  BY DEF Next, vars, AddRecord, WriteByte, UpdateHeader, AddDone, UserRead, Format,
         FormatDone, Reset
<1> SUFFICES ASSUME Addressable PROVE KeptInv'
  BY <1>1, <1>3 DEF AllInv, Addressable
<1>4. KeptInv BY DEF AllInv
<1>5. CASE UNCHANGED vars
  <2>1. UNCHANGED <<Capacity, known, mem, pc, job, rec, added, done, torn>>
    BY <1>5 DEF vars
  <2>2. (IdleOK => IdleOK') /\ (AtRest => AtRest') BY <2>1, RestSame DEF IdleOK
  <2>3. RecordOK => RecordOK' BY <2>1, Zenon DEF RecordOK, Fit
  <2>4. HeaderOK => HeaderOK' BY <2>1, Zenon DEF HeaderOK, Fit
  <2>5. ClearOK => ClearOK' BY <2>1, Zenon DEF ClearOK, Wiped, Sound, Fit
  <2> QED BY <1>4, <2>1, <2>2, <2>3, <2>4, <2>5 DEF KeptInv
<1>6. ASSUME NEW r \in Records, AddRecord(r) PROVE KeptInv' BY <1>2, <1>4, <1>6, AddRecordKept
<1>7. CASE WriteByte
  <2>1. CASE known
    BY <1>2, <1>4, <1>7, <2>1, NotIdleWrites, WriteRecordKept, WriteHeaderKept, WriteClearKept
  <2>2. CASE ~known BY <1>2, <1>4, <1>7, <2>2, AsideKept
  <2> QED BY <2>1, <2>2
<1>8. CASE UpdateHeader BY <1>2, <1>4, <1>8, UpdateHeaderKept
<1>9. CASE AddDone BY <1>2, <1>4, <1>9, AddDoneKept
<1>10. CASE Format BY <1>2, <1>4, <1>10, FormatKept, AsideKept
<1>11. CASE FormatDone BY <1>2, <1>4, <1>11, FormatDoneKept, AsideKept
<1>12. CASE Reset BY <1>2, <1>4, <1>12, ResetKept
<1>13. CASE UserRead BY <1>2, <1>4, <1>13, UserReadKept
<1> QED BY <1>5, <1>6, <1>7, <1>8, <1>9, <1>10, <1>11, <1>12, <1>13 DEF Next

LEMMA AllDone ==
  ASSUME DefaultKnown, AllInv, Addressable
  PROVE  DoneKept
<1>0. Capacity \in Nat /\ mem \in Mem /\ Inv /\ KeptInv BY DEF AllInv, Inv, KeptInv
<1>1. Sound BY <1>0, AlwaysSound, JobLen
<1>2. ASSUME NEW n \in Nat, Counts(mem, n), Fit(n), Kept(mem, n, added, done)
      PROVE  DoneKept
  <2>1. ActiveRange = n * EntrySize BY <1>0, <1>2, CountsIs, ActiveRangeIs
  <2>2. Stored = StoredIn(mem, n) BY <1>0, <1>2, <2>1, StoredIs
  <2> QED BY <1>2, <2>2 DEF Kept, DoneKept
<1> QED BY <1>1, <1>2 DEF Sound, DoneKept

LEMMA AllWhole ==
  ASSUME DefaultKnown, AllInv, Addressable
  PROVE  ValidWhole
<1>0. Capacity \in Nat /\ mem \in Mem /\ Inv /\ KeptInv BY DEF AllInv, Inv, KeptInv
<1>1. Sound BY <1>0, AlwaysSound, JobLen
<1>2. ASSUME NEW n \in Nat, Counts(mem, n), Fit(n), Kept(mem, n, added, done)
      PROVE  ValidWhole
  <2>1. ActiveRange = n * EntrySize BY <1>0, <1>2, CountsIs, ActiveRangeIs
  <2>2. Stored = StoredIn(mem, n) BY <1>0, <1>2, <2>1, StoredIs
  <2> QED BY <1>2, <2>2 DEF Kept, ValidWhole
<1>3. CASE Dead(mem)
  <2>1. ~Summed(ActiveRange) BY <1>0, <1>3, DeadIs
  <2> QED BY <2>1 DEF Valid, ValidWhole
<1> QED BY <1>1, <1>2, <1>3 DEF Sound

LEMMA AllValid ==
  ASSUME AllInv, Addressable
  PROVE  ValidUnlessTorn
<1>0. Capacity \in Nat /\ mem \in Mem /\ KeptInv BY DEF AllInv, Inv, KeptInv
<1> SUFFICES ASSUME ~torn, pc \notin {"header", "clear"} PROVE Valid
  BY DEF ValidUnlessTorn
<1>1. PICK n \in Nat : Counts(mem, n) /\ Fit(n) /\ SumsUp(mem, n)
  <2>1. CASE pc = "idle" \/ ~known BY <1>0, <2>1 DEF KeptInv, IdleOK, AtRest, Whole
  <2>2. CASE pc = "record" /\ known BY <1>0, <2>2, FitLess DEF KeptInv, RecordOK
  <2> QED BY <1>0, <2>1, <2>2 DEF KeptInv
<1> DEFINE r == n * EntrySize
<1>2. ActiveRange = r BY <1>0, <1>1, CountsIs, ActiveRangeIs
<1>3. r \in Nat /\ r % 2 = 0 /\ (r = 0 \/ OFFSET + 4 + r <= Capacity) BY <1>1, FitIs
<1>4. Summed(r) BY <1>0, <1>3, SummedIs
<1>5. LET k == (HEADER_SIZE + r) \div 2 IN
      SumTo(Words(RANGE, k), k) = WordIn(mem, 0) + WordIn(mem, 2) + SumIn(mem, r \div 2)
  BY <1>0, <1>3, UserSumIs
<1>6. (WordIn(mem, 0) + WordIn(mem, 2) + SumIn(mem, r \div 2)) % W = 0 BY <1>1 DEF SumsUp
<1> HIDE DEF r
<1> QED BY <1>2, <1>4, <1>5, <1>6 DEF Valid

\* MsWheaESAddRecordV0 and the header it writes last: in a store of at most 256
\* bytes that is emptied with 0xFF or 0, for every size of record and any records,
\* a record whose addition succeeded stays in the store, whole and in order, with
\* resets between any two bytes, until the store is emptied.
THEOREM FinishedStay ==
  ASSUME DefaultKnown
  PROVE  Spec => [](Capacity <= B => DoneKept)
<1>1. AllInv => (Capacity <= B => DoneKept) BY AllDone DEF Addressable
<1> QED BY <1>1, AllInit, AllStep, PTL DEF Spec

\* MsWheaESCalculateChecksum16: under the same assumptions a store that verifies
\* holds whole records in the order they were added, and only a reset in the middle
\* of a header leaves one that does not.
THEOREM ChecksumTellsTorn ==
  ASSUME DefaultKnown
  PROVE  Spec => [](Capacity <= B => ChecksumTells)
<1>1. AllInv => (Capacity <= B => ChecksumTells)
  BY AllWhole, AllValid DEF Addressable, ChecksumTells
<1> QED BY <1>1, AllInit, AllStep, PTL DEF Spec

=============================================================================
