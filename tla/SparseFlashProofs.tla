-------------------------- MODULE SparseFlashProofs --------------------------
(***************************************************************************)
(* Proofs about SparseFlash, for every image of whatever size and at       *)
(* whatever address, and every partition: nothing is read past the end of  *)
(* the image and nothing written past the end of the partition, what is    *)
(* written is what the image describes, and an image of the format that    *)
(* fits is not refused.                                                    *)
(***************************************************************************)
EXTENDS SparseFlash, SequenceTheorems, WellFoundedInduction, TLAPS

TypeInv ==
  /\ img \in [h : Headers, sz : Sizes, base : Bases]
  /\ pc \in {"start", "chunk", "raw", "fill", "okay", "refused", "failed"}
  /\ Image \in Nat /\ TotalBlocks \in Nat
  /\ w \in [left : Nat, offset : Nat, div : Nat]
  /\ log \in Seq(Chunks)
  /\ seen \in [read : Nat, written : Nat, copied : Nat]

\* Past the start the header of the image is one that HandleSparseImgFlash takes.
HeaderInv == pc \in {"chunk", "raw", "fill"} => HeaderGood

\* The raw chunk under way: its data lies in the image, and what is left of it,
\* in whole blocks, fits between the next block and the end of the partition.
RawInv ==
  pc = "raw" =>
    /\ log # <<>>
    /\ w.left <= w.div /\ Image + w.div <= ImageEnd
    /\ \E m \in Nat : w.left = m * BlockSize /\ w.offset + m <= LastBlock + 1

Inv == TypeInv /\ HeaderInv /\ RawInv /\ ReadsInside /\ WritesInside

-----------------------------------------------------------------------------
(* Arithmetic                                                              *)

LEMMA Product == ASSUME NEW a \in Nat, NEW b \in Nat PROVE a * b \in Nat
OBVIOUS

LEMMA Monotone ==
  ASSUME NEW a \in Nat, NEW b \in Nat, NEW c \in Nat, a <= b
  PROVE  a * c <= b * c /\ c * a <= c * b
OBVIOUS

LEMMA Cancel ==
  ASSUME NEW b \in Nat \ {0}, NEW m \in Nat, NEW n \in Nat, m * b <= n * b
  PROVE  m <= n
OBVIOUS

LEMMA WholeBlocks ==
  ASSUME NEW b \in Nat \ {0}, NEW n \in Nat, n % b = 0
  PROVE  n \div b \in Nat /\ n = (n \div b) * b
<1>1. n \div b \in Nat
  OBVIOUS
<1>2. n = b * (n \div b)
  OBVIOUS
<1> QED
  BY <1>1, <1>2

LEMMA Divided ==
  ASSUME NEW b \in Nat \ {0}, NEW n \in Nat
  PROVE  (n * b) \div b = n
OBVIOUS

LEMMA Unwrapped ==
  ASSUME NEW b \in Nat, NEW n \in Nat, n < b
  PROVE  n % b = n
OBVIOUS

LEMMA Associative ==
  ASSUME NEW a \in Nat, NEW b \in Nat, NEW c \in Nat
  PROVE  a * (b * c) = (a * b) * c /\ a * (b * c) = (a * c) * b
OBVIOUS

LEMMA ConstantFacts ==
  /\ BlockSize \in Nat \ {0} /\ MAX_UINT32 \in Nat \ {0} /\ LastBlock \in Nat
  /\ WriteUnitSize \in Nat \ {0} /\ WriteUnitSize % BlockSize = 0
  /\ U32 \in Nat /\ U64 \in Nat /\ U32 = MAX_UINT32 + 1 /\ MAX_UINT64 = U64 - 1
  /\ PartitionSize \in Nat /\ PartitionSize = (LastBlock + 1) * BlockSize
<1>1. /\ {BlockSize, MAX_UINT32, WriteUnitSize} \subseteq Nat \ {0} /\ LastBlock \in Nat
      /\ WriteUnitSize % BlockSize = 0
  BY SparseAssumption
<1>2. BlockSize \in Nat \ {0} /\ MAX_UINT32 \in Nat \ {0} /\ WriteUnitSize \in Nat \ {0}
  BY <1>1
<1>3. U32 \in Nat /\ U32 = MAX_UINT32 + 1 /\ LastBlock + 1 \in Nat
  BY <1>1, <1>2 DEF U32
<1>4. U64 \in Nat
  BY <1>3, Product DEF U64
<1>5. PartitionSize \in Nat
  BY <1>2, <1>3, Product DEF PartitionSize
<1> QED
  BY <1>1, <1>2, <1>3, <1>4, <1>5 DEF PartitionSize, MAX_UINT64

\* The fields of the image and of a chunk are integers of their width.
LEMMA ImageFacts ==
  ASSUME TypeInv
  PROVE  /\ h.blk_sz \in Nat /\ h.blk_sz <= MAX_UINT32 /\ h.chunk_hdr_sz \in Nat
         /\ img.base \in Nat /\ img.sz \in Nat /\ ImageEnd \in Nat
         /\ ImageEnd = img.base + img.sz
<1>1. img.h \in Header /\ img.sz \in 0..MAX_UINT64 /\ img.base \in 0..MAX_UINT64
  BY SparseAssumption DEF TypeInv
<1>2. h.blk_sz \in 0..MAX_UINT32 /\ h.chunk_hdr_sz \in 0..MAX_UINT32
  BY <1>1 DEF h, Header, UINT32
<1> QED
  BY <1>1, <1>2, ConstantFacts DEF ImageEnd

LEMMA ChunkFacts ==
  ASSUME TypeInv, NEW c \in Chunks
  PROVE  /\ c.chunk_sz \in Nat /\ c.total_sz \in Nat /\ c.total_sz <= MAX_UINT32
         /\ ChunkDataSz(c) \in Nat
<1>1. c \in Chunk
  BY SparseAssumption
<1>2. c.chunk_sz \in 0..MAX_UINT32 /\ c.total_sz \in 0..MAX_UINT32
  BY <1>1 DEF Chunk, UINT32
<1> QED
  BY <1>2, ImageFacts, ConstantFacts, Product DEF ChunkDataSz

\* What HandleSparseImgFlash takes: a block of the image is a whole number of
\* blocks of the device.
LEMMA FactorFacts ==
  ASSUME TypeInv, HeaderGood
  PROVE  /\ BlockCountFactor \in Nat /\ h.blk_sz = BlockCountFactor * BlockSize
         /\ BlockSize <= MAX_UINT32
<1>1. h.blk_sz \in Nat /\ h.blk_sz % BlockSize = 0 /\ h.blk_sz # 0
      /\ h.blk_sz <= MAX_UINT32
  BY ImageFacts DEF HeaderGood
<1>2. BlockCountFactor \in Nat /\ h.blk_sz = BlockCountFactor * BlockSize
  BY <1>1, WholeBlocks, ConstantFacts DEF BlockCountFactor
<1>3. BlockCountFactor >= 1
  BY <1>1, <1>2, ConstantFacts
<1>4. 1 * BlockSize <= BlockCountFactor * BlockSize
  BY <1>2, <1>3, Monotone, ConstantFacts
<1> QED
  BY <1>1, <1>2, <1>4, ConstantFacts

\* Nothing that has 32 bits, added to what fits in the partition, wraps.
LEMMA SumUnwrapped ==
  ASSUME TypeInv, HeaderGood
  PROVE  PartitionSize + MAX_UINT32 < U64
<1>1. U32 - BlockSize \in Nat /\ 1 <= U32 - BlockSize
  BY FactorFacts, ConstantFacts
<1>2. MAX_UINT32 * 1 <= MAX_UINT32 * (U32 - BlockSize)
  BY <1>1, Monotone, ConstantFacts
<1>3. MAX_UINT32 * (U32 - BlockSize) \in Nat
  BY <1>1, Product, ConstantFacts
<1> QED
  BY <1>2, <1>3, ConstantFacts, SparseAssumption

\* Data that is inside ends before the end of the image.
LEMMA DataEnds ==
  ASSUME TypeInv, NEW data \in Nat, NEW size \in Nat, DataInside(data, size)
  PROVE  data + size <= ImageEnd
<1>1. data + size < U64 /\ data + size \in Nat
  BY ConstantFacts DEF DataInside, CHECK_ADD64
<1>2. (data + size) % U64 = data + size
  BY <1>1, Unwrapped, ConstantFacts
<1> QED
  BY <1>2 DEF DataInside

LEMMA ReadFacts ==
  ASSUME TypeInv, NEW end \in Nat
  PROVE  /\ Read(end) \in [read : Nat, written : Nat, copied : Nat]
         /\ Read(end).read = Larger(seen.read, end)
         /\ Read(end).written = seen.written /\ Read(end).copied = seen.copied
         /\ ReadsInside /\ end <= ImageEnd => Read(end).read <= Larger(img.base, ImageEnd)
<1>1. Larger(seen.read, end) \in Nat /\ seen \in [read : Nat, written : Nat, copied : Nat]
  BY DEF TypeInv, Larger
<1>2. Read(end) = [seen EXCEPT !.read = Larger(seen.read, end)]
  BY DEF Read
<1>3. /\ Read(end) \in [read : Nat, written : Nat, copied : Nat]
      /\ Read(end).read = Larger(seen.read, end)
      /\ Read(end).written = seen.written /\ Read(end).copied = seen.copied
  BY <1>1, <1>2
<1>4. ASSUME ReadsInside, end <= ImageEnd
      PROVE  Larger(seen.read, end) <= Larger(img.base, ImageEnd)
  <2>1. seen.read \in Nat /\ seen.read <= Larger(img.base, ImageEnd)
    BY <1>1, <1>4 DEF ReadsInside
  <2> QED
    BY <1>4, <2>1, ImageFacts DEF Larger
<1> QED
  BY <1>3, <1>4

-----------------------------------------------------------------------------
(* The actions                                                             *)

LEMMA InitInv ==
  ASSUME Init
  PROVE  Inv
<1>1. img \in [h : Headers, sz : Sizes, base : Bases]
  BY DEF Init
<1>2. img.base \in Nat /\ img.sz \in Nat
  <2>1. img.base \in 0..MAX_UINT64 /\ img.sz \in 0..MAX_UINT64
    BY <1>1, SparseAssumption
  <2> QED
    BY <2>1, ConstantFacts
<1>3. /\ pc = "start" /\ Image = img.base /\ TotalBlocks = 0 /\ log = <<>>
      /\ w = [left |-> 0, offset |-> 0, div |-> 0]
      /\ seen = [read |-> img.base, written |-> 0, copied |-> 0]
  BY DEF Init
<1>4. TypeInv
  BY <1>1, <1>2, <1>3 DEF TypeInv
<1>5. HeaderInv /\ RawInv
  BY <1>3 DEF HeaderInv, RawInv
<1>6. ReadsInside
  BY <1>2, <1>3 DEF ReadsInside, Larger, ImageEnd
<1>7. WritesInside
  BY <1>3, ConstantFacts DEF WritesInside
<1> QED
  BY <1>4, <1>5, <1>6, <1>7 DEF Inv

\* A step that writes nothing and reads no further than the end of the image.
LEMMA OnlyReads ==
  ASSUME Inv, NEW end \in Nat, end <= ImageEnd, seen' = Read(end) \/ seen' = seen,
         img' = img
  PROVE  /\ seen' \in [read : Nat, written : Nat, copied : Nat]
         /\ ReadsInside' /\ WritesInside'
<1>1. CASE seen' = seen
  BY <1>1 DEF Inv, TypeInv, ReadsInside, WritesInside, ImageEnd
<1>2. CASE seen' = Read(end)
  <2>1. /\ seen' \in [read : Nat, written : Nat, copied : Nat]
        /\ seen'.written = seen.written /\ seen'.copied = seen.copied
        /\ seen'.read <= Larger(img.base, ImageEnd)
    BY <1>2, ReadFacts DEF Inv
  <2> QED
    BY <2>1 DEF Inv, ReadsInside, WritesInside, ImageEnd
<1> QED
  BY <1>1, <1>2

\* The step leaves the loop, or starts it over.
LEMMA Restarts ==
  ASSUME Inv, img' = img, pc' \in {"chunk", "fill", "okay", "refused", "failed"},
         Image' \in Nat, TotalBlocks' \in Nat, w' \in [left : Nat, offset : Nat, div : Nat],
         log' \in Seq(Chunks), seen' \in [read : Nat, written : Nat, copied : Nat],
         ReadsInside', WritesInside', HeaderGood
  PROVE  Inv'
<1>1. TypeInv'
  BY DEF Inv, TypeInv
<1>2. HeaderInv' /\ RawInv'
  BY DEF HeaderInv, RawInv, HeaderGood, h
<1> QED
  BY <1>1, <1>2 DEF Inv

LEMMA ReadHeaderInv ==
  ASSUME Inv, ReadHeader
  PROVE  Inv'
<1>1. img' = img /\ log' = log /\ TotalBlocks' = TotalBlocks /\ w' = w
  BY DEF ReadHeader, Ends
<1>2. /\ SizeKnown => img.base + SPARSE_HDR \in Nat /\ img.base + SPARSE_HDR <= ImageEnd
      /\ img.base + SPARSE_HDR \in Nat
  BY ImageFacts DEF SizeKnown, SPARSE_HDR, Inv
<1>3. /\ seen' \in [read : Nat, written : Nat, copied : Nat]
      /\ ReadsInside' /\ WritesInside'
  <2>1. CASE SizeKnown
    BY <1>1, <1>2, <2>1, OnlyReads DEF ReadHeader
  <2>2. CASE ~SizeKnown
    BY <1>1, <2>2 DEF ReadHeader, Inv, TypeInv, ReadsInside, WritesInside, ImageEnd
  <2> QED
    BY <2>1, <2>2
<1>4. CASE HeaderGood /\ pc' = "chunk" /\ Image' = img.base + SPARSE_HDR
  BY <1>1, <1>2, <1>3, <1>4, Restarts DEF Inv, TypeInv
<1>5. CASE Ends("refused")
  <2>1. TypeInv'
    BY <1>1, <1>3, <1>5 DEF Ends, Inv, TypeInv
  <2>2. HeaderInv' /\ RawInv'
    BY <1>5 DEF Ends, HeaderInv, RawInv
  <2> QED
    BY <1>3, <2>1, <2>2 DEF Inv
<1> QED
  BY <1>4, <1>5 DEF ReadHeader

\* A raw chunk that passes the checks: it fits in 32 bits, so that nothing is
\* lost when WriteBlockToPartition counts it, and in the partition.
LEMMA RawBegins ==
  ASSUME Inv, HeaderGood, NEW c \in Chunks, RoomLeft, Fits(c), RawSized(c)
  PROVE  /\ DivMsgBufSize(ChunkDataSz(c)) = ChunkDataSz(c)
         /\ ChunkDataSz(c) \in Nat
         /\ TotalBlocks * BlockCountFactor \in Nat
         /\ \E m \in Nat : /\ ChunkDataSz(c) = m * BlockSize
                           /\ TotalBlocks * BlockCountFactor + m <= LastBlock + 1
<1> DEFINE size == ChunkDataSz(c)
           m == BlockCountFactor * c.chunk_sz
           first == TotalBlocks * BlockCountFactor
<1>1. /\ TotalBlocks \in Nat /\ c.chunk_sz \in Nat /\ c.total_sz \in Nat
      /\ c.total_sz <= MAX_UINT32 /\ size \in Nat
      /\ BlockCountFactor \in Nat /\ h.blk_sz = BlockCountFactor * BlockSize
      /\ h.chunk_hdr_sz \in Nat /\ h.blk_sz \in Nat
  BY ChunkFacts, FactorFacts, ImageFacts DEF Inv, TypeInv
<1>2. size <= MAX_UINT32
  BY <1>1, ConstantFacts DEF RawSized
<1>3. m \in Nat /\ first \in Nat /\ m * BlockSize \in Nat /\ first * BlockSize \in Nat
  BY <1>1, ConstantFacts, Product
<1>4. size = m * BlockSize
  BY <1>1, ConstantFacts, Associative DEF ChunkDataSz
<1>5. TotalBlocks * h.blk_sz = first * BlockSize
  BY <1>1, ConstantFacts, Associative
<1>6. DivMsgBufSize(size) = size
  <2>1. size \div BlockSize = m
    BY <1>3, <1>4, Divided, ConstantFacts
  <2>2. size < U32
    BY <1>1, <1>2, ConstantFacts
  <2> QED
    BY <1>1, <1>4, <2>1, <2>2, Unwrapped, ConstantFacts DEF DivMsgBufSize
<1>7. first * BlockSize + size <= PartitionSize
  <2>1. first * BlockSize < PartitionSize
    BY <1>5 DEF RoomLeft
  <2>2. first * BlockSize + size < U64 /\ first * BlockSize + size \in Nat
    BY <1>1, <1>2, <1>3, <2>1, SumUnwrapped, ConstantFacts DEF Inv
  <2>3. (first * BlockSize + size) % U64 = first * BlockSize + size
    BY <2>2, Unwrapped, ConstantFacts
  <2> QED
    BY <1>5, <2>3 DEF Fits
<1> HIDE DEF size, m, first
<1>8. (first + m) * BlockSize = first * BlockSize + m * BlockSize
  BY <1>3, ConstantFacts
<1>9. first + m <= LastBlock + 1
  <2>1. (first + m) * BlockSize <= (LastBlock + 1) * BlockSize
    BY <1>4, <1>7, <1>8, ConstantFacts
  <2>2. first + m \in Nat /\ LastBlock + 1 \in Nat
    BY <1>3, ConstantFacts
  <2> QED
    BY <2>1, <2>2, Cancel, ConstantFacts
<1> QED
  BY <1>1, <1>3, <1>4, <1>6, <1>9 DEF size, m, first

LEMMA ReadChunkInv ==
  ASSUME Inv, NEW c \in Chunks, ReadChunk(c)
  PROVE  Inv'
<1> DEFINE data == Image + CHUNK_HDR
           size == ChunkDataSz(c)
<1>1. /\ pc = "chunk" /\ RoomLeft /\ HeaderInside /\ log' = Append(log, c)
      /\ img' = img /\ HeaderGood
  BY DEF ReadChunk, Inv, HeaderInv
<1>2. data \in Nat /\ data <= ImageEnd /\ size \in Nat /\ c.chunk_sz \in Nat
  BY <1>1, ChunkFacts DEF HeaderInside, CHUNK_HDR, Inv, TypeInv
<1>3. log' \in Seq(Chunks) /\ log' # <<>>
  BY <1>1 DEF Inv, TypeInv
<1> HIDE DEF data
<1>4. CASE Fits(c) /\ RawGood(c, data) /\ BeginRaw(c, data)
  <2>1. data + size <= ImageEnd /\ RawSized(c)
    BY <1>2, <1>4, DataEnds DEF RawGood, Inv
  <2>2. PICK m \in Nat : /\ size = m * BlockSize
                         /\ TotalBlocks * BlockCountFactor + m <= LastBlock + 1
    BY <1>1, <1>4, <2>1, RawBegins
  <2>3. DivMsgBufSize(size) = size /\ TotalBlocks * BlockCountFactor \in Nat
    BY <1>1, <1>4, <2>1, RawBegins
  <2>4. /\ pc' = "raw" /\ Image' = data /\ TotalBlocks' = TotalBlocks
        /\ w' = [left |-> size, div |-> size, offset |-> TotalBlocks * BlockCountFactor]
        /\ seen' = [Read(data) EXCEPT !.copied = Larger(@, size - size)]
    BY <1>4, <2>3 DEF BeginRaw
  <2> HIDE DEF size
  <2>5. /\ Read(data) \in [read : Nat, written : Nat, copied : Nat]
        /\ Read(data).written = seen.written /\ Read(data).copied = seen.copied
        /\ Read(data).read <= Larger(img.base, ImageEnd)
    BY <1>2, ReadFacts DEF Inv
  <2>6. seen' = Read(data)
    <3>1. size - size = 0 /\ Larger(Read(data).copied, 0) = Read(data).copied
      BY <1>2, <2>5 DEF Larger
    <3> QED
      BY <2>4, <2>5, <3>1
  <2>7. ReadsInside' /\ WritesInside'
    BY <1>1, <2>5, <2>6 DEF Inv, ReadsInside, WritesInside, ImageEnd
  <2>8. TypeInv'
    BY <1>1, <1>2, <1>3, <2>3, <2>4, <2>5, <2>6 DEF Inv, TypeInv
  <2>9. HeaderInv'
    BY <1>1 DEF HeaderInv, HeaderGood, h
  <2>10. RawInv'
    <3>1. w'.left = m * BlockSize /\ w'.offset + m <= LastBlock + 1
          /\ w'.left = w'.div /\ w'.div = size
      BY <2>2, <2>4
    <3> QED
      BY <1>1, <1>2, <1>3, <2>1, <2>4, <3>1 DEF RawInv, ImageEnd
  <2> QED
    BY <2>7, <2>8, <2>9, <2>10 DEF Inv
<1>5. CASE FillGood(c, data) /\ BeginFill(c, data)
  <2>1. data + WORD \in Nat /\ data + WORD <= ImageEnd
    BY <1>2, <1>5, DataEnds DEF FillGood, WORD, Inv
  <2>2. /\ pc' = "fill" /\ Image' = data + WORD /\ TotalBlocks' = TotalBlocks
        /\ w' = [left |-> c.chunk_sz, offset |-> 0, div |-> 0]
        /\ seen' = Read(data + WORD)
    BY <1>5 DEF BeginFill
  <2>3. /\ seen' \in [read : Nat, written : Nat, copied : Nat]
        /\ ReadsInside' /\ WritesInside'
    BY <1>1, <2>1, <2>2, OnlyReads
  <2> QED
    BY <1>1, <1>2, <1>3, <2>1, <2>2, <2>3, Restarts DEF Inv, TypeInv
<1>6. CASE \/ (Ends("failed") \/ Ends("refused")) /\ seen' = Read(data)
           \/ Skip(c, data) /\ seen' = Read(data)
           \/ Skip(c, data + (size % U32)) /\ seen' = Read(data)
  <2>1. /\ seen' \in [read : Nat, written : Nat, copied : Nat]
        /\ ReadsInside' /\ WritesInside'
    BY <1>1, <1>2, <1>6, OnlyReads
  <2>2. size % U32 \in Nat
    BY <1>2, ConstantFacts
  <2>3. /\ pc' \in {"chunk", "refused", "failed"} /\ w' = w
        /\ Image' \in Nat /\ TotalBlocks' \in Nat
    BY <1>2, <1>6, <2>2 DEF Ends, Skip, Inv, TypeInv
  <2> QED
    BY <1>1, <1>3, <2>1, <2>3, Restarts DEF Inv, TypeInv
<1> QED
  BY <1>4, <1>5, <1>6 DEF ReadChunk, data

\* One WriteBlocks of a raw chunk: a whole number of blocks of what is left.
LEMMA UnitFacts ==
  ASSUME NEW left \in Nat, NEW m \in Nat, left = m * BlockSize, left > 0,
         NEW size, size = IF left > WriteUnitSize THEN WriteUnitSize ELSE left
  PROVE  /\ size \in Nat /\ size <= left
         /\ \E n \in Nat : /\ size \div BlockSize = n /\ n <= m
                           /\ left - size = (m - n) * BlockSize
<1>1. CASE left > WriteUnitSize
  <2> DEFINE n == WriteUnitSize \div BlockSize
  <2>1. n \in Nat /\ WriteUnitSize = n * BlockSize
    BY WholeBlocks, ConstantFacts
  <2>2. n * BlockSize <= m * BlockSize /\ size = WriteUnitSize
    BY <1>1, <2>1, ConstantFacts
  <2> HIDE DEF n
  <2>3. n <= m
    BY <2>1, <2>2, Cancel, ConstantFacts
  <2>4. (m - n) * BlockSize = m * BlockSize - n * BlockSize
    BY <2>1, ConstantFacts
  <2>5. left - size = (m - n) * BlockSize
    BY <2>1, <2>2, <2>4
  <2>6. size \div BlockSize = n
    BY <2>2 DEF n
  <2> QED
    BY <1>1, <2>1, <2>2, <2>3, <2>5, <2>6, ConstantFacts
<1>2. CASE ~(left > WriteUnitSize)
  <2>1. size = left /\ size \div BlockSize = m
    BY <1>2, Divided, ConstantFacts
  <2>2. left - size = (m - m) * BlockSize
    BY <2>1, ConstantFacts
  <2> QED
    BY <2>1, <2>2
<1> QED
  BY <1>1, <1>2

LEMMA WriteRawInv ==
  ASSUME Inv, WriteRaw
  PROVE  Inv'
<1> DEFINE size == IF w.left > WriteUnitSize THEN WriteUnitSize ELSE w.left
           blocks == size \div BlockSize
           end == Image + w.div - w.left + size
<1>1. /\ pc = "raw" /\ w.left > 0 /\ img' = img /\ log' = log
      /\ seen' = [Read(end) EXCEPT !.written = Larger(@, w.offset + blocks)]
      /\ \/ w' = NextUnit(size) /\ UNCHANGED <<pc, Image, TotalBlocks>>
         \/ Ends("failed")
  BY DEF WriteRaw, Fails
<1>2. /\ w \in [left : Nat, offset : Nat, div : Nat] /\ Image \in Nat
      /\ w.left <= w.div /\ Image + w.div <= ImageEnd /\ HeaderGood /\ log # <<>>
  BY <1>1 DEF Inv, TypeInv, RawInv, HeaderInv
<1>3. PICK m \in Nat : w.left = m * BlockSize /\ w.offset + m <= LastBlock + 1
  BY <1>1 DEF Inv, RawInv
<1>4. w.left \in Nat /\ w.offset \in Nat /\ w.div \in Nat
  BY <1>2
<1>5. size \in Nat /\ size <= w.left
  BY <1>1, <1>3, <1>4, UnitFacts
<1>6. PICK n \in Nat : blocks = n /\ n <= m /\ w.left - size = (m - n) * BlockSize
  BY <1>1, <1>3, <1>4, UnitFacts
<1> HIDE DEF size, blocks
<1>7. end \in Nat /\ end <= ImageEnd
  BY <1>2, <1>4, <1>5, ImageFacts DEF Inv
<1> HIDE DEF end
<1>8. /\ Read(end) \in [read : Nat, written : Nat, copied : Nat]
      /\ Read(end).written = seen.written /\ Read(end).copied = seen.copied
      /\ Read(end).read <= Larger(img.base, ImageEnd)
  BY <1>7, ReadFacts DEF Inv
<1>9. /\ Larger(seen.written, w.offset + blocks) \in Nat
      /\ Larger(seen.written, w.offset + blocks) <= LastBlock + 1
  BY <1>3, <1>4, <1>6, ConstantFacts DEF Inv, WritesInside, Larger, TypeInv
<1>10. /\ seen' \in [read : Nat, written : Nat, copied : Nat]
       /\ seen'.read = Read(end).read /\ seen'.copied = seen.copied
       /\ seen'.written = Larger(seen.written, w.offset + blocks)
  BY <1>1, <1>8, <1>9
<1>11. ReadsInside' /\ WritesInside'
  BY <1>1, <1>8, <1>9, <1>10 DEF ReadsInside, WritesInside, ImageEnd, Inv
<1>12. CASE w' = NextUnit(size) /\ UNCHANGED <<pc, Image, TotalBlocks>>
  <2>1. /\ w' \in [left : Nat, offset : Nat, div : Nat]
        /\ w'.left = (m - n) * BlockSize /\ w'.offset = w.offset + n /\ w'.div = w.div
        /\ w'.left <= w.left
    <3>1. w' = [w EXCEPT !.left = w.left - size, !.offset = w.offset + blocks]
      BY <1>12 DEF NextUnit, blocks
    <3>2. w.left - size \in Nat /\ w.offset + blocks \in Nat /\ w.left - size <= w.left
      BY <1>4, <1>5, <1>6
    <3> QED
      BY <1>2, <1>6, <3>1, <3>2
  <2>2. TypeInv'
    BY <1>1, <1>10, <1>12, <2>1 DEF Inv, TypeInv
  <2>3. HeaderInv'
    BY <1>1, <1>2, <1>12 DEF HeaderInv, HeaderGood, h
  <2>4. RawInv'
    <3>1. m - n \in Nat /\ w'.offset + (m - n) <= LastBlock + 1
      BY <1>3, <1>4, <1>6, <2>1, ConstantFacts
    <3>2. w'.left <= w'.div
      BY <1>2, <1>4, <2>1
    <3> QED
      BY <1>1, <1>2, <1>12, <2>1, <3>1, <3>2 DEF RawInv, ImageEnd
  <2> QED
    BY <1>11, <2>2, <2>3, <2>4 DEF Inv
<1>13. CASE Ends("failed")
  BY <1>1, <1>2, <1>10, <1>11, <1>13, Restarts DEF Ends, Inv, TypeInv
<1> QED
  BY <1>1, <1>12, <1>13

LEMMA WriteFillInv ==
  ASSUME Inv, WriteFill
  PROVE  Inv'
<1> DEFINE first == TotalBlocks * BlockCountFactor
<1>1. /\ pc = "fill" /\ w.left > 0 /\ img' = img /\ log' = log /\ HeaderGood
  BY DEF WriteFill, Inv, HeaderInv
<1>2. w \in [left : Nat, offset : Nat, div : Nat] /\ TotalBlocks \in Nat /\ Image \in Nat
  BY DEF Inv, TypeInv
<1>3. CASE Ends("refused") /\ seen' = seen
  <2>1. /\ seen' \in [read : Nat, written : Nat, copied : Nat]
        /\ ReadsInside' /\ WritesInside'
    BY <1>1, <1>3 DEF Inv, TypeInv, ReadsInside, WritesInside, ImageEnd
  <2> QED
    BY <1>1, <1>2, <1>3, <2>1, Restarts DEF Ends, Inv, TypeInv
<1>4. CASE /\ ~(TotalBlocks * h.blk_sz + h.blk_sz > PartitionSize)
           /\ seen' = [seen EXCEPT !.written = Larger(@, first + BlockCountFactor)]
           /\ \/ /\ TotalBlocks' = TotalBlocks + 1 /\ w' = [w EXCEPT !.left = @ - 1]
                 /\ UNCHANGED <<pc, Image>>
              \/ Ends("failed")
  <2>1. /\ BlockCountFactor \in Nat /\ h.blk_sz = BlockCountFactor * BlockSize
        /\ first \in Nat
    BY <1>1, <1>2, FactorFacts, Product DEF Inv
  <2>2. TotalBlocks * h.blk_sz = first * BlockSize
    BY <1>2, <2>1, Associative, ConstantFacts
  <2> HIDE DEF first
  <2>3. (first + BlockCountFactor) * BlockSize = first * BlockSize + BlockCountFactor * BlockSize
    BY <2>1, ConstantFacts
  <2>4. first + BlockCountFactor <= LastBlock + 1
    <3>1. (first + BlockCountFactor) * BlockSize <= (LastBlock + 1) * BlockSize
      <4>1. first * BlockSize \in Nat /\ BlockCountFactor * BlockSize \in Nat
        BY <2>1, Product, ConstantFacts
      <4> QED
        BY <1>4, <2>1, <2>2, <2>3, <4>1, ConstantFacts
    <3>2. first + BlockCountFactor \in Nat /\ LastBlock + 1 \in Nat
      BY <2>1, ConstantFacts
    <3> QED
      BY <3>1, <3>2, Cancel, ConstantFacts
  <2>5. /\ Larger(seen.written, first + BlockCountFactor) \in Nat
        /\ Larger(seen.written, first + BlockCountFactor) <= LastBlock + 1
    BY <2>1, <2>4, ConstantFacts DEF Inv, WritesInside, Larger, TypeInv
  <2>6. /\ seen' \in [read : Nat, written : Nat, copied : Nat]
        /\ seen'.read = seen.read /\ seen'.copied = seen.copied
        /\ seen'.written = Larger(seen.written, first + BlockCountFactor)
    BY <1>4, <2>5 DEF Inv, TypeInv
  <2>7. ReadsInside' /\ WritesInside'
    BY <1>1, <2>5, <2>6 DEF ReadsInside, WritesInside, ImageEnd, Inv
  <2>8. /\ pc' \in {"fill", "failed"} /\ Image' \in Nat /\ TotalBlocks' \in Nat
        /\ w' \in [left : Nat, offset : Nat, div : Nat]
    BY <1>1, <1>2, <1>4 DEF Ends
  <2> QED
    BY <1>1, <2>6, <2>7, <2>8, Restarts DEF Inv, TypeInv
<1> QED
  BY <1>3, <1>4 DEF WriteFill, Fails

\* The steps that read and write nothing.
LEMMA QuietInv ==
  ASSUME Inv, NoChunk \/ RawDone \/ FillDone \/ Finish
  PROVE  Inv'
<1>1. /\ img' = img /\ log' = log /\ seen' = seen /\ w' = w /\ HeaderGood
      /\ pc' \in {"chunk", "okay", "refused"}
  BY DEF NoChunk, RawDone, FillDone, Finish, Ends, Inv, HeaderInv
<1>2. Image' \in Nat /\ TotalBlocks' \in Nat
  <2>1. CASE RawDone
    <3>1. log[Len(log)] \in Chunks
      <4>1. log \in Seq(Chunks) /\ log # <<>>
        BY <2>1 DEF RawDone, Inv, TypeInv, RawInv
      <4> QED
        BY <4>1
    <3>2. log[Len(log)].chunk_sz \in Nat /\ ChunkDataSz(log[Len(log)]) \in Nat
      BY <3>1, ChunkFacts DEF Inv
    <3>3. \/ /\ TotalBlocks' = TotalBlocks + log[Len(log)].chunk_sz
             /\ Image' = Image + ChunkDataSz(log[Len(log)])
          \/ TotalBlocks' = TotalBlocks /\ Image' = Image
      BY <2>1 DEF RawDone, Ends
    <3>4. TotalBlocks \in Nat /\ Image \in Nat
      BY DEF Inv, TypeInv
    <3> QED
      BY <3>2, <3>3, <3>4
  <2>2. CASE NoChunk \/ FillDone \/ Finish
    BY <2>2 DEF NoChunk, FillDone, Finish, Ends, Inv, TypeInv
  <2> QED
    BY <2>1, <2>2
<1>3. ReadsInside' /\ WritesInside'
  BY <1>1 DEF Inv, ReadsInside, WritesInside, ImageEnd
<1> QED
  BY <1>1, <1>2, <1>3, Restarts DEF Inv, TypeInv

LEMMA NextInv ==
  ASSUME Inv, [Next]_vars
  PROVE  Inv'
<1>1. CASE UNCHANGED vars
  BY <1>1 DEF vars, Inv, TypeInv, HeaderInv, HeaderGood, h, RawInv, ImageEnd,
     ReadsInside, WritesInside
<1> QED
  BY <1>1, ReadHeaderInv, ReadChunkInv, WriteRawInv, WriteFillInv, QuietInv DEF Next

\* HandleSparseImgFlash and what it calls: for every image, at every address,
\* and every partition, nothing is read past the end of what was downloaded,
\* nothing is written past the end of the partition, and no more than a block
\* is copied to the buffer of one block.
THEOREM FlashStaysInside == Spec => []StaysInside
<1>1. Init => Inv
  BY InitInv
<1>2. Inv /\ [Next]_vars => Inv'
  BY NextInv
<1>3. Inv => StaysInside
  BY DEF Inv, StaysInside
<1> QED
  BY <1>1, <1>2, <1>3, PTL DEF Spec

-----------------------------------------------------------------------------
(***************************************************************************)
(* Induction, and what it shows of sums.  That a set of naturals has a     *)
(* least member gives induction for membership in a set, and with it the   *)
(* recursion that defines SumTo.                                           *)
(***************************************************************************)
\* A set of naturals has a least member.
LEMMA LeastNat == ASSUME NEW T \in SUBSET Nat, T # {} PROVE \E n \in T : \A m \in T : n <= m
<1> DEFINE R == OpToRel(<, Nat)
<1>1. IsWellFoundedOn(R, Nat) BY NatLessThanWellFounded
<1>2. \A m, n \in Nat : m < n => <<m, n>> \in R BY DEF OpToRel
<1> HIDE DEF R
<1>3. PICK n \in T : \A m \in T : ~(<<m, n>> \in R) BY <1>1, WFMin
<1>4. \A m \in T : ~(m < n) BY <1>2, <1>3
<1> QED BY <1>4

LEMMA SetInduction ==
  ASSUME NEW S, 0 \in S, \A n \in Nat : n \in S => n + 1 \in S
  PROVE  Nat \subseteq S
<1> SUFFICES ASSUME Nat \ S # {} PROVE FALSE OBVIOUS
<1>1. PICK n \in Nat \ S : \A m \in Nat \ S : n <= m BY LeastNat
<1>2. n # 0 BY <1>1
<1>3. n - 1 \in Nat /\ n - 1 \notin Nat \ S BY <1>1, <1>2
<1> QED BY <1>1, <1>3

\* f holds the first n + 1 values of the recursion of SumTo.
Steps(g, f, n) == f = [k \in 0..n |-> IF k = 0 THEN 0 ELSE f[k - 1] + g[k]]

LEMMA StepsExist == ASSUME NEW g, NEW n \in Nat PROVE \E f : Steps(g, f, n)
<1> DEFINE S == {m \in Nat : \E f : Steps(g, f, m)}
<1>1. 0 \in S
  <2> DEFINE f == [k \in 0..0 |-> 0]
  <2>1. Steps(g, f, 0) BY DEF Steps
  <2> QED BY <2>1
<1>2. ASSUME NEW m \in Nat, m \in S PROVE m + 1 \in S
  <2>1. PICK f : Steps(g, f, m) BY <1>2
  <2> DEFINE e == [k \in 0..(m + 1) |-> IF k = m + 1 THEN f[m] + g[m + 1] ELSE f[k]]
  <2>2. \A k \in 0..(m + 1) : e[k] = IF k = 0 THEN 0 ELSE e[k - 1] + g[k]
    <3> SUFFICES ASSUME NEW k \in 0..(m + 1) PROVE e[k] = IF k = 0 THEN 0 ELSE e[k - 1] + g[k]
      OBVIOUS
    <3>1. CASE k = m + 1
      <4>1. e[k - 1] = f[m] BY <3>1
      <4> QED BY <3>1, <4>1
    <3>2. CASE k # m + 1
      <4>1. k \in 0..m BY <3>2
      <4>2. f[k] = IF k = 0 THEN 0 ELSE f[k - 1] + g[k] BY <2>1, <4>1 DEF Steps
      <4>3. e[k] = f[k] BY <3>2
      <4>4. k # 0 => e[k - 1] = f[k - 1] BY <4>1
      <4> QED BY <4>2, <4>3, <4>4
    <3> QED BY <3>1, <3>2
  <2>3. Steps(g, e, m + 1) BY <2>2 DEF Steps
  <2> QED BY <2>3
<1> HIDE DEF S
<1>3. Nat \subseteq S BY <1>1, <1>2, SetInduction
<1> QED BY <1>3 DEF S

LEMMA StepsSame ==
  ASSUME NEW g, NEW m \in Nat, NEW n \in Nat, NEW e, NEW f, Steps(g, e, m), Steps(g, f, n),
         NEW k \in Nat, k <= m, k <= n
  PROVE  e[k] = f[k]
<1> DEFINE S == {j \in Nat : j <= m /\ j <= n => e[j] = f[j]}
<1>1. 0 \in S BY DEF Steps
<1>2. ASSUME NEW j \in Nat, j \in S PROVE j + 1 \in S
  <2> SUFFICES ASSUME j + 1 <= m, j + 1 <= n PROVE e[j + 1] = f[j + 1] OBVIOUS
  <2>1. e[j + 1] = e[j] + g[j + 1] /\ f[j + 1] = f[j] + g[j + 1] BY DEF Steps
  <2> QED BY <1>2, <2>1
<1> HIDE DEF S
<1>3. Nat \subseteq S BY <1>1, <1>2, SetInduction
<1> QED BY <1>3 DEF S

\* The recursive definition of SumTo defines it.
LEMMA SumToIs ==
  ASSUME NEW g
  PROVE  /\ SumTo(g, 0) = 0
         /\ \A n \in Nat : SumTo(g, n + 1) = SumTo(g, n) + g[n + 1]
<1> DEFINE a(n) == CHOOSE f : Steps(g, f, n)
           b == [k \in Nat |-> a(k)[k]]
           s == CHOOSE s : s = [k \in Nat |-> IF k = 0 THEN 0 ELSE s[k - 1] + g[k]]
<1>1. \A n \in Nat : Steps(g, a(n), n) BY StepsExist
<1>2. \A n \in Nat : b[n] = IF n = 0 THEN 0 ELSE b[n - 1] + g[n]
  <2> SUFFICES ASSUME NEW n \in Nat PROVE b[n] = IF n = 0 THEN 0 ELSE b[n - 1] + g[n]
    OBVIOUS
  <2>1. a(n)[n] = IF n = 0 THEN 0 ELSE a(n)[n - 1] + g[n]
    <3>1. Steps(g, a(n), n) BY <1>1
    <3> HIDE DEF a
    <3> QED BY <3>1 DEF Steps
  <2>2. n # 0 => a(n)[n - 1] = a(n - 1)[n - 1]
    <3> SUFFICES ASSUME n # 0 PROVE a(n)[n - 1] = a(n - 1)[n - 1] OBVIOUS
    <3>1. n - 1 \in Nat /\ n - 1 <= n OBVIOUS
    <3>2. Steps(g, a(n), n) /\ Steps(g, a(n - 1), n - 1) BY <1>1, <3>1
    <3> HIDE DEF a
    <3> QED BY <3>1, <3>2, StepsSame
  <2> QED BY <2>1, <2>2
<1>3. b = [k \in Nat |-> IF k = 0 THEN 0 ELSE b[k - 1] + g[k]]
  <2> HIDE DEF a
  <2>1. b = [k \in Nat |-> b[k]] OBVIOUS
  <2> HIDE DEF b
  <2> QED BY <1>2, <2>1
<1> HIDE DEF b
<1>4. s = [k \in Nat |-> IF k = 0 THEN 0 ELSE s[k - 1] + g[k]] BY <1>3
<1>5. \A n : SumTo(g, n) = s[n] BY DEF SumTo
<1> HIDE DEF s
<1>6. s[0] = 0 BY <1>4
<1>7. \A n \in Nat : s[n + 1] = s[n] + g[n + 1]
  <2> TAKE n \in Nat
  <2>1. n + 1 \in Nat /\ n + 1 # 0 /\ (n + 1) - 1 = n OBVIOUS
  <2> QED BY <1>4, <2>1
<1> QED BY <1>5, <1>6, <1>7

LEMMA SumSame ==
  ASSUME NEW g, NEW f, NEW n \in Nat, \A j \in 1..n : g[j] = f[j]
  PROVE  SumTo(g, n) = SumTo(f, n)
<1> DEFINE S == {k \in Nat : k <= n => SumTo(g, k) = SumTo(f, k)}
<1>1. 0 \in S BY SumToIs
<1>2. ASSUME NEW k \in Nat, k \in S PROVE k + 1 \in S
  <2> SUFFICES ASSUME k + 1 <= n PROVE SumTo(g, k + 1) = SumTo(f, k + 1)
    OBVIOUS
  <2>1. k <= n /\ k + 1 \in 1..n OBVIOUS
  <2>2. SumTo(g, k) = SumTo(f, k) BY <1>2, <2>1
  <2>3. g[k + 1] = f[k + 1] BY <2>1
  <2> QED BY <2>2, <2>3, SumToIs
<1> HIDE DEF S
<1>3. Nat \subseteq S BY <1>1, <1>2, SetInduction
<1> QED BY <1>3 DEF S

LEMMA SumNat ==
  ASSUME NEW g, NEW n \in Nat, \A j \in 1..n : g[j] \in Nat
  PROVE  SumTo(g, n) \in Nat
<1> DEFINE S == {k \in Nat : k <= n => SumTo(g, k) \in Nat}
<1>1. 0 \in S BY SumToIs
<1>2. ASSUME NEW k \in Nat, k \in S PROVE k + 1 \in S
  <2> SUFFICES ASSUME k + 1 <= n PROVE SumTo(g, k + 1) \in Nat
    OBVIOUS
  <2>1. k <= n /\ k + 1 \in 1..n OBVIOUS
  <2>2. SumTo(g, k) \in Nat BY <1>2, <2>1
  <2>3. g[k + 1] \in Nat BY <2>1
  <2> QED BY <2>2, <2>3, SumToIs
<1> HIDE DEF S
<1>3. Nat \subseteq S BY <1>1, <1>2, SetInduction
<1> QED BY <1>3 DEF S

-----------------------------------------------------------------------------
(* What the headers read describe, as a function of them.                  *)

\* The blocks of output and the words of input of the first k chunks.
OutOf(l, k) == SumTo([j \in DOMAIN l |-> l[j].chunk_sz], k)
InOf(l, k)  == SPARSE_HDR + SumTo([j \in DOMAIN l |-> l[j].total_sz], k)

\* What chunk k holds for block d of the device.
Content(F, l, k, d) ==
  LET data == InOf(l, k - 1) + CHUNK_HDR IN
  CASE l[k].chunk_type = "RAW" -> <<"RAW", data + (d - OutOf(l, k - 1) * F) * BlockSize>>
    [] l[k].chunk_type = "FILL" -> <<"FILL", data>>
    [] OTHER -> Old

Holders(F, l, d) ==
  {k \in DOMAIN l : /\ OutOf(l, k - 1) <= d \div F
                    /\ d \div F < OutOf(l, k - 1) + l[k].chunk_sz}

DescribedBy(F, l, d) ==
  IF Holders(F, l, d) = {} THEN Old
  ELSE Content(F, l, CHOOSE k \in Holders(F, l, d) : TRUE, d)

LEMMA DescribedIs ==
  ASSUME NEW d
  PROVE  Described(d) = DescribedBy(BlockCountFactor, log, d)
<1> DEFINE b == d \div BlockCountFactor
           ks == {k \in DOMAIN log : OutputAt(k) <= b /\ b < OutputAt(k) + log[k].chunk_sz}
           c == CHOOSE k \in ks : TRUE
<1>1. \A k : OutputAt(k) = OutOf(log, k - 1) /\ InputAt(k) = InOf(log, k - 1)
  BY DEF OutputAt, InputAt, OutOf, InOf, Output, Input
<1>2. ks = Holders(BlockCountFactor, log, d) BY <1>1 DEF Holders
<1>3. Described(d) =
        IF ks = {} THEN Old
        ELSE CASE log[c].chunk_type = "RAW" ->
                    <<"RAW", InputAt(c) + CHUNK_HDR
                             + (d - OutputAt(c) * BlockCountFactor) * BlockSize>>
               [] log[c].chunk_type = "FILL" -> <<"FILL", InputAt(c) + CHUNK_HDR>>
               [] OTHER -> Old
  BY DEF Described
<1>4. c = CHOOSE k \in Holders(BlockCountFactor, log, d) : TRUE BY <1>2
<1> HIDE DEF ks, c, b
<1> QED BY <1>1, <1>2, <1>3, <1>4 DEF DescribedBy, Content

LEMMA ChunkSizes ==
  ASSUME NEW l \in Seq(Chunks), NEW j \in 1..Len(l)
  PROVE  l[j].chunk_sz \in Nat /\ l[j].total_sz \in Nat
<1>1. l[j] \in Chunk BY SparseAssumption
<1>2. l[j].chunk_sz \in 0..MAX_UINT32 /\ l[j].total_sz \in 0..MAX_UINT32
  BY <1>1 DEF Chunk, UINT32
<1> QED BY <1>2, ConstantFacts

LEMMA SumsAre ==
  ASSUME NEW l \in Seq(Chunks)
  PROVE  /\ \A k \in 0..Len(l) : OutOf(l, k) \in Nat /\ InOf(l, k) \in Nat
         /\ OutOf(l, 0) = 0 /\ InOf(l, 0) = SPARSE_HDR
         /\ \A k \in 1..Len(l) : /\ OutOf(l, k) = OutOf(l, k - 1) + l[k].chunk_sz
                                 /\ InOf(l, k) = InOf(l, k - 1) + l[k].total_sz
<1> DEFINE f == [j \in DOMAIN l |-> l[j].chunk_sz]
           g == [j \in DOMAIN l |-> l[j].total_sz]
<1>1. \A j \in 1..Len(l) : f[j] \in Nat /\ g[j] \in Nat /\ f[j] = l[j].chunk_sz /\ g[j] = l[j].total_sz
  BY ChunkSizes
<1>2. \A k : OutOf(l, k) = SumTo(f, k) /\ InOf(l, k) = 7 + SumTo(g, k)
  BY DEF OutOf, InOf, SPARSE_HDR
<1> HIDE DEF f, g
<1>3. ASSUME NEW k \in 0..Len(l) PROVE SumTo(f, k) \in Nat /\ SumTo(g, k) \in Nat
  <2>1. k \in Nat /\ \A j \in 1..k : f[j] \in Nat /\ g[j] \in Nat BY <1>1
  <2> QED BY <2>1, SumNat
<1>4. ASSUME NEW k \in 1..Len(l)
      PROVE  SumTo(f, k) = SumTo(f, k - 1) + f[k] /\ SumTo(g, k) = SumTo(g, k - 1) + g[k]
  <2>1. k - 1 \in Nat /\ (k - 1) + 1 = k OBVIOUS
  <2>2. SumTo(f, (k - 1) + 1) = SumTo(f, k - 1) + f[(k - 1) + 1]
        /\ SumTo(g, (k - 1) + 1) = SumTo(g, k - 1) + g[(k - 1) + 1]
    BY <2>1, SumToIs
  <2> QED BY <2>1, <2>2
<1>5. SumTo(f, 0) = 0 /\ SumTo(g, 0) = 0 BY SumToIs
<1>6. \A k \in 0..Len(l) : OutOf(l, k) \in Nat /\ InOf(l, k) \in Nat BY <1>2, <1>3
<1>7. OutOf(l, 0) = 0 /\ InOf(l, 0) = SPARSE_HDR BY <1>2, <1>5 DEF SPARSE_HDR
<1>8. ASSUME NEW k \in 1..Len(l)
      PROVE  /\ OutOf(l, k) = OutOf(l, k - 1) + l[k].chunk_sz
             /\ InOf(l, k) = InOf(l, k - 1) + l[k].total_sz
  <2>1. k \in 0..Len(l) /\ k - 1 \in 0..Len(l) OBVIOUS
  <2>2. SumTo(f, k - 1) \in Nat /\ SumTo(g, k - 1) \in Nat /\ g[k] \in Nat BY <1>1, <1>3, <2>1
  <2>3. f[k] = l[k].chunk_sz /\ g[k] = l[k].total_sz BY <1>1
  <2>4. OutOf(l, k) = OutOf(l, k - 1) + l[k].chunk_sz BY <1>2, <1>4, <2>3
  <2>5. /\ InOf(l, k) = 7 + SumTo(g, k) /\ InOf(l, k - 1) = 7 + SumTo(g, k - 1)
        /\ SumTo(g, k) = SumTo(g, k - 1) + g[k]
    BY <1>2, <1>4
  <2> QED BY <2>2, <2>3, <2>4, <2>5
<1> QED BY <1>6, <1>7, <1>8

LEMMA OutMonotone ==
  ASSUME NEW l \in Seq(Chunks), NEW k \in 0..Len(l), NEW m \in k..Len(l)
  PROVE  OutOf(l, k) <= OutOf(l, m)
<1> DEFINE S == {j \in Nat : k <= j /\ j <= Len(l) => OutOf(l, k) <= OutOf(l, j)}
<1>0. OutOf(l, k) \in Nat /\ Len(l) \in Nat BY SumsAre
<1>1. 0 \in S BY SumsAre
<1>2. ASSUME NEW j \in Nat, j \in S PROVE j + 1 \in S
  <2> SUFFICES ASSUME k <= j + 1, j + 1 <= Len(l) PROVE OutOf(l, k) <= OutOf(l, j + 1)
    OBVIOUS
  <2>1. CASE k = j + 1 BY <1>0, <2>1
  <2>2. CASE k # j + 1
    <3>1. k <= j /\ j \in 0..Len(l) /\ j + 1 \in 1..Len(l) /\ (j + 1) - 1 = j BY <1>0, <2>2
    <3>2. OutOf(l, k) <= OutOf(l, j) BY <1>0, <1>2, <3>1
    <3>3. OutOf(l, j + 1) = OutOf(l, j) + l[j + 1].chunk_sz /\ OutOf(l, j) \in Nat
      BY <3>1, SumsAre
    <3>4. l[j + 1].chunk_sz \in Nat BY <3>1, ChunkSizes
    <3> QED BY <1>0, <3>2, <3>3, <3>4
  <2> QED BY <2>1, <2>2
<1> HIDE DEF S
<1>3. Nat \subseteq S BY <1>1, <1>2, SetInduction
<1>4. m \in Nat BY <1>0
<1> QED BY <1>3, <1>4 DEF S

LEMMA SumsBefore ==
  ASSUME NEW l \in Seq(Chunks), NEW c \in Chunks, NEW k \in 0..Len(l)
  PROVE  OutOf(Append(l, c), k) = OutOf(l, k) /\ InOf(Append(l, c), k) = InOf(l, k)
<1> DEFINE e == Append(l, c)
           f == [j \in DOMAIN l |-> l[j].chunk_sz]
           f2 == [j \in DOMAIN e |-> e[j].chunk_sz]
           g == [j \in DOMAIN l |-> l[j].total_sz]
           g2 == [j \in DOMAIN e |-> e[j].total_sz]
<1>1. k \in Nat /\ \A j \in 1..k : f[j] = f2[j] /\ g[j] = g2[j]
  <2>1. \A j \in 1..k : j \in DOMAIN l /\ j \in DOMAIN e /\ e[j] = l[j] OBVIOUS
  <2> HIDE DEF e
  <2> QED BY <2>1
<1>2. /\ OutOf(l, k) = SumTo(f, k) /\ InOf(l, k) = 7 + SumTo(g, k)
      /\ OutOf(e, k) = SumTo(f2, k) /\ InOf(e, k) = 7 + SumTo(g2, k)
  BY DEF OutOf, InOf, SPARSE_HDR
<1> HIDE DEF f, f2, g, g2, e
<1>3. SumTo(f, k) = SumTo(f2, k) /\ SumTo(g, k) = SumTo(g2, k) BY <1>1, SumSame
<1>4. OutOf(e, k) = OutOf(l, k) /\ InOf(e, k) = InOf(l, k) BY <1>2, <1>3
<1> QED BY <1>4 DEF e

LEMMA Appended ==
  ASSUME NEW l \in Seq(Chunks), NEW c \in Chunks
  PROVE  /\ Append(l, c) \in Seq(Chunks) /\ Len(Append(l, c)) = Len(l) + 1
         /\ Append(l, c)[Len(l) + 1] = c
         /\ \A k \in 1..Len(l) : Append(l, c)[k] = l[k]
         /\ OutOf(Append(l, c), Len(l) + 1) = OutOf(l, Len(l)) + c.chunk_sz
         /\ InOf(Append(l, c), Len(l) + 1) = InOf(l, Len(l)) + c.total_sz
<1> DEFINE e == Append(l, c)
<1>1. /\ e \in Seq(Chunks) /\ Len(e) = Len(l) + 1 /\ e[Len(l) + 1] = c
      /\ \A k \in 1..Len(l) : e[k] = l[k]
  OBVIOUS
<1>2. ASSUME NEW k \in 0..Len(l) PROVE OutOf(e, k) = OutOf(l, k) /\ InOf(e, k) = InOf(l, k)
  BY SumsBefore
<1> HIDE DEF e
<1>3. /\ OutOf(e, Len(l) + 1) = OutOf(l, Len(l)) + c.chunk_sz
      /\ InOf(e, Len(l) + 1) = InOf(l, Len(l)) + c.total_sz
  <2>1. Len(l) \in 0..Len(l) /\ Len(l) + 1 \in 1..Len(e) /\ (Len(l) + 1) - 1 = Len(l) BY <1>1
  <2>2. /\ OutOf(e, Len(l) + 1) = OutOf(e, (Len(l) + 1) - 1) + e[Len(l) + 1].chunk_sz
        /\ InOf(e, Len(l) + 1) = InOf(e, (Len(l) + 1) - 1) + e[Len(l) + 1].total_sz
    BY <1>1, <2>1, SumsAre
  <2> QED BY <1>1, <1>2, <2>1, <2>2
<1> QED BY <1>1, <1>3 DEF e

\* Which block of the image a block of the device belongs to.
LEMMA Belongs ==
  ASSUME NEW F \in Nat \ {0}, NEW d \in Nat, NEW x \in Nat
  PROVE  (d \div F < x <=> d < x * F) /\ d \div F \in Nat
<1> DEFINE q == d \div F
           r == d % F
<1>1. d = q * F + r /\ r \in 0..(F - 1) /\ q \in Nat OBVIOUS
<1> HIDE DEF q, r
<1>2. CASE q < x
  <2>1. (q + 1) * F <= x * F BY <1>1, <1>2, Monotone
  <2>2. (q + 1) * F = q * F + F BY <1>1
  <2> QED BY <1>1, <1>2, <2>1, <2>2, Product DEF q
<1>3. CASE ~(q < x)
  <2>1. x * F <= q * F BY <1>1, <1>3, Monotone
  <2>2. q * F \in Nat /\ x * F \in Nat BY <1>1, Product
  <2> QED BY <1>1, <1>3, <2>1, <2>2 DEF q
<1> QED BY <1>2, <1>3

\* A block is described by the chunk it lies in, and only by that.
LEMMA DescribedIn ==
  ASSUME NEW l \in Seq(Chunks), NEW F \in Nat \ {0}, NEW k \in 1..Len(l), NEW d \in Nat,
         OutOf(l, k - 1) * F <= d, d < OutOf(l, k) * F
  PROVE  DescribedBy(F, l, d) = Content(F, l, k, d)
<1> DEFINE b == d \div F
<1>0. k - 1 \in 0..Len(l) /\ k \in 0..Len(l) /\ Len(l) \in Nat OBVIOUS
<1>1. OutOf(l, k - 1) \in Nat /\ OutOf(l, k) \in Nat BY <1>0, SumsAre
<1>2. b < OutOf(l, k) /\ ~(b < OutOf(l, k - 1)) /\ b \in Nat
  <2>1. b < OutOf(l, k) /\ b \in Nat BY <1>1, Belongs
  <2>2. b < OutOf(l, k - 1) <=> d < OutOf(l, k - 1) * F BY <1>1, Belongs
  <2>3. OutOf(l, k - 1) * F \in Nat BY <1>1, Product
  <2> HIDE DEF b
  <2> QED BY <2>1, <2>2, <2>3
<1>3. Holders(F, l, d) = {j \in 1..Len(l) : OutOf(l, j - 1) <= b /\ b < OutOf(l, j)}
  <2>1. \A j \in 1..Len(l) : OutOf(l, j) = OutOf(l, j - 1) + l[j].chunk_sz BY SumsAre
  <2>2. DOMAIN l = 1..Len(l) OBVIOUS
  <2> HIDE DEF b
  <2> QED BY <2>1, <2>2 DEF Holders, b
<1> HIDE DEF b
<1>4. k \in Holders(F, l, d) BY <1>1, <1>2, <1>3
<1>5. ASSUME NEW j \in Holders(F, l, d) PROVE j = k
  <2>1. j \in 1..Len(l) /\ OutOf(l, j - 1) <= b /\ b < OutOf(l, j) BY <1>3
  <2>2. j - 1 \in 0..Len(l) /\ j \in 0..Len(l) BY <2>1
  <2>3. OutOf(l, j - 1) \in Nat /\ OutOf(l, j) \in Nat BY <2>2, SumsAre
  <2>4. CASE j < k
    <3>1. k - 1 \in j..Len(l) BY <1>0, <2>1, <2>4
    <3>2. OutOf(l, j) <= OutOf(l, k - 1) BY <2>2, <3>1, OutMonotone
    <3> QED BY <1>1, <1>2, <2>1, <2>3, <3>2
  <2>5. CASE k < j
    <3>1. j - 1 \in k..Len(l) BY <1>0, <2>1, <2>5
    <3>2. OutOf(l, k) <= OutOf(l, j - 1) BY <1>0, <3>1, OutMonotone
    <3> QED BY <1>1, <1>2, <2>1, <2>3, <3>2
  <2> QED BY <2>1, <2>4, <2>5
<1>6. (CHOOSE j \in Holders(F, l, d) : TRUE) = k BY <1>4, <1>5
<1> QED BY <1>4, <1>6 DEF DescribedBy

\* Nothing is described past the chunks read.
LEMMA DescribedPast ==
  ASSUME NEW l \in Seq(Chunks), NEW F \in Nat \ {0}, NEW d \in Nat, OutOf(l, Len(l)) * F <= d
  PROVE  DescribedBy(F, l, d) = Old
<1> DEFINE b == d \div F
<1>0. Len(l) \in Nat /\ Len(l) \in 0..Len(l) OBVIOUS
<1>1. OutOf(l, Len(l)) \in Nat BY <1>0, SumsAre
<1>2. ~(b < OutOf(l, Len(l))) /\ b \in Nat
  <2>1. b < OutOf(l, Len(l)) <=> d < OutOf(l, Len(l)) * F BY <1>1, Belongs
  <2>2. OutOf(l, Len(l)) * F \in Nat /\ b \in Nat BY <1>1, Product, Belongs
  <2> HIDE DEF b
  <2> QED BY <2>1, <2>2
<1> HIDE DEF b
<1>3. ASSUME NEW k \in Holders(F, l, d) PROVE FALSE
  <2>1. k \in 1..Len(l) /\ b < OutOf(l, k - 1) + l[k].chunk_sz BY DEF Holders, b
  <2>2. b < OutOf(l, k) BY <2>1, SumsAre
  <2>3. k \in 0..Len(l) /\ Len(l) \in k..Len(l) BY <1>0, <2>1
  <2>4. OutOf(l, k) <= OutOf(l, Len(l)) /\ OutOf(l, k) \in Nat BY <2>3, OutMonotone, SumsAre
  <2> QED BY <1>1, <1>2, <2>2, <2>4
<1> QED BY <1>3 DEF DescribedBy

\* A chunk read later changes nothing for the blocks of the chunks before it.
LEMMA DescribedBefore ==
  ASSUME NEW l \in Seq(Chunks), NEW c \in Chunks,
         NEW F \in Nat \ {0}, NEW d \in Nat, d < OutOf(l, Len(l)) * F
  PROVE  DescribedBy(F, Append(l, c), d) = DescribedBy(F, l, d)
<1> DEFINE e == Append(l, c)
           b == d \div F
           n == Len(l)
<1>0. n \in Nat /\ DOMAIN l = 1..n OBVIOUS
<1>1. /\ DOMAIN e = 1..(n + 1) /\ \A k \in 1..n : e[k] = l[k]
      /\ \A k \in 0..n : OutOf(e, k) = OutOf(l, k) /\ InOf(e, k) = InOf(l, k)
  <2>1. e \in Seq(Chunks) /\ Len(e) = Len(l) + 1 /\ \A k \in 1..Len(l) : e[k] = l[k]
    OBVIOUS
  <2>2. \A k \in 0..Len(l) : OutOf(e, k) = OutOf(l, k) /\ InOf(e, k) = InOf(l, k)
    BY SumsBefore
  <2>3. DOMAIN e = 1..Len(e) BY <2>1
  <2> QED BY <2>1, <2>2, <2>3
<1>2. OutOf(l, n) \in Nat /\ b \in Nat /\ b < OutOf(l, n)
  <2>1. n \in 0..n BY <1>0
  <2>2. OutOf(l, n) \in Nat BY <2>1, SumsAre
  <2> HIDE DEF e, b
  <2>3. d \div F \in Nat /\ (d \div F < OutOf(l, n) <=> d < OutOf(l, n) * F) BY <2>2, Belongs
  <2> QED BY <2>2, <2>3 DEF b
<1> HIDE DEF n, b, e
<1>3. \A k \in 1..n : k - 1 \in 0..n /\ k \in 1..(n + 1) BY <1>0
<1>4. ASSUME NEW k \in Holders(F, e, d) PROVE k \in Holders(F, l, d)
  <2>1. k \in 1..(n + 1) /\ OutOf(e, k - 1) <= b /\ b < OutOf(e, k - 1) + e[k].chunk_sz
    BY <1>1 DEF Holders, b
  <2>2. k # n + 1
    <3> SUFFICES ASSUME k = n + 1 PROVE FALSE OBVIOUS
    <3>1. k - 1 = n /\ n \in 0..n BY <1>0
    <3> QED BY <1>1, <1>2, <2>1, <3>1
  <2>3. k \in 1..n BY <1>0, <2>1, <2>2
  <2> QED BY <1>0, <1>1, <1>3, <2>1, <2>3 DEF Holders, b
<1>5. ASSUME NEW k \in Holders(F, l, d) PROVE k \in Holders(F, e, d)
  <2>1. k \in 1..n /\ OutOf(l, k - 1) <= b /\ b < OutOf(l, k - 1) + l[k].chunk_sz
    BY <1>0 DEF Holders, b
  <2> QED BY <1>1, <1>3, <2>1 DEF Holders, b
<1>6. Holders(F, e, d) = Holders(F, l, d) BY <1>4, <1>5
<1>7. ASSUME NEW k \in Holders(F, l, d) PROVE Content(F, e, k, d) = Content(F, l, k, d)
  <2>1. k \in 1..n BY <1>0 DEF Holders
  <2>2. e[k] = l[k] /\ OutOf(e, k - 1) = OutOf(l, k - 1) /\ InOf(e, k - 1) = InOf(l, k - 1)
    BY <1>1, <1>3, <2>1
  <2> QED BY <2>2 DEF Content
<1> SUFFICES DescribedBy(F, e, d) = DescribedBy(F, l, d) BY DEF e
<1>8. CASE Holders(F, l, d) = {} BY <1>6, <1>8 DEF DescribedBy
<1>9. CASE Holders(F, l, d) # {}
  <2>1. (CHOOSE k \in Holders(F, l, d) : TRUE) \in Holders(F, l, d) BY <1>9
  <2> QED BY <1>6, <1>7, <1>9, <2>1 DEF DescribedBy
<1> QED BY <1>8, <1>9

-----------------------------------------------------------------------------
(* The partition and the image, between the steps.                         *)

\* The partition holds what l describes below block lim, and what it held before
\* from there on.
PartUpTo(p, F, l, lim) ==
  \A d \in Blocks : p[d] = IF d < lim THEN DescribedBy(F, l, d) ELSE Old

PartSome(p, F, l) == \A d \in Blocks : p[d] \in {Old, DescribedBy(F, l, d)}

Laying(l) == \A k \in DOMAIN l :
               /\ l[k].chunk_type = "DONT_CARE" => l[k].total_sz = CHUNK_HDR
               /\ l[k].chunk_type = "CRC" => l[k].chunk_sz = 0

\* Between two chunks.
Between(base, im, tb, l) == im = base + InOf(l, Len(l)) /\ tb = OutOf(l, Len(l))

\* j blocks of a raw chunk are written and m are left.
RawAt(base, F, im, tb, ww, l, j, m) ==
  LET n == Len(l) IN
  /\ l # <<>> /\ l[n].chunk_type = "RAW" /\ l[n].total_sz = CHUNK_HDR + (j + m) * BlockSize
  /\ im = base + InOf(l, n - 1) + CHUNK_HDR /\ tb = OutOf(l, n - 1)
  /\ ww.left = m * BlockSize /\ ww.div = (j + m) * BlockSize /\ ww.offset = tb * F + j
  /\ j + m = l[n].chunk_sz * F

FillAt(base, im, tb, left, l) ==
  LET n == Len(l) IN
  /\ l # <<>> /\ l[n].chunk_type = "FILL" /\ l[n].total_sz = CHUNK_HDR + WORD
  /\ im = base + InOf(l, n - 1) + CHUNK_HDR + WORD
  /\ OutOf(l, n - 1) <= tb /\ tb + left = OutOf(l, n)

ChunkOK ==
  /\ Between(img.base, Image, TotalBlocks, log)
  /\ PartUpTo(part, BlockCountFactor, log, TotalBlocks * BlockCountFactor)
RawOK ==
  /\ PartUpTo(part, BlockCountFactor, log, w.offset)
  /\ \E j, m \in Nat : RawAt(img.base, BlockCountFactor, Image, TotalBlocks, w, log, j, m)
FillOK ==
  /\ FillAt(img.base, Image, TotalBlocks, w.left, log)
  /\ PartUpTo(part, BlockCountFactor, log, TotalBlocks * BlockCountFactor)
OkayOK ==
  /\ \A d \in Blocks : part[d] = DescribedBy(BlockCountFactor, log, d)
  /\ OutOf(log, Len(log)) = h.total_blks

\* Where the flash stands, in an image whose chunks without data have none.
MadeInv ==
  /\ pc = "start" => log = <<>> /\ TotalBlocks = 0 /\ \A d \in Blocks : part[d] = Old
  /\ Laying(log) =>
       /\ pc = "chunk" => ChunkOK
       /\ pc = "raw" => RawOK
       /\ pc = "fill" => FillOK
       /\ pc \in {"refused", "failed"} => PartSome(part, BlockCountFactor, log)
       /\ pc = "okay" => OkayOK

\* One past the start of the loop, a block of the image is at least one of the device.
LEMMA FactorPositive ==
  ASSUME TypeInv, HeaderGood
  PROVE  BlockCountFactor \in Nat \ {0}
<1>1. h.blk_sz # 0 BY DEF HeaderGood
<1>2. BlockCountFactor \in Nat /\ h.blk_sz = BlockCountFactor * BlockSize BY FactorFacts
<1>3. 0 * BlockSize = 0 BY ConstantFacts
<1> QED BY <1>1, <1>2, <1>3

LEMMA UpToSome == ASSUME NEW p, NEW F, NEW l, NEW lim, PartUpTo(p, F, l, lim) PROVE PartSome(p, F, l)
BY DEF PartUpTo, PartSome

LEMMA LayingLess ==
  ASSUME NEW l \in Seq(Chunks), NEW c \in Chunks, Laying(Append(l, c))
  PROVE  /\ Laying(l)
         /\ c.chunk_type = "DONT_CARE" => c.total_sz = CHUNK_HDR
         /\ c.chunk_type = "CRC" => c.chunk_sz = 0
<1> DEFINE e == Append(l, c)
<1>1. DOMAIN e = 1..(Len(l) + 1) /\ DOMAIN l = 1..Len(l) /\ Len(l) \in Nat OBVIOUS
<1>2. e[Len(l) + 1] = c /\ \A k \in 1..Len(l) : e[k] = l[k] OBVIOUS
<1>3. Laying(e) OBVIOUS
<1> HIDE DEF e
<1>4. Len(l) + 1 \in DOMAIN e /\ \A k \in DOMAIN l : k \in DOMAIN e /\ e[k] = l[k] BY <1>1, <1>2
<1> QED BY <1>2, <1>3, <1>4 DEF Laying

LEMMA PartAppended ==
  ASSUME NEW l \in Seq(Chunks), NEW c \in Chunks, NEW F \in Nat \ {0}, NEW p,
         PartUpTo(p, F, l, OutOf(l, Len(l)) * F)
  PROVE  PartUpTo(p, F, Append(l, c), OutOf(l, Len(l)) * F)
<1> DEFINE lim == OutOf(l, Len(l)) * F
<1>1. \A d \in Blocks : d \in Nat BY ConstantFacts DEF Blocks
<1>2. \A d \in Blocks : d < lim => DescribedBy(F, Append(l, c), d) = DescribedBy(F, l, d)
  BY <1>1, DescribedBefore
<1>3. PartUpTo(p, F, l, lim) OBVIOUS
<1> HIDE DEF lim
<1>4. PartUpTo(p, F, Append(l, c), lim) BY <1>2, <1>3 DEF PartUpTo
<1> QED BY <1>4 DEF lim

\* A chunk without data leaves what it passes over as it was.
LEMMA PartSkipped ==
  ASSUME NEW l \in Seq(Chunks), NEW c \in Chunks, NEW F \in Nat \ {0}, NEW p,
         PartUpTo(p, F, l, OutOf(l, Len(l)) * F), c.chunk_type \notin {"RAW", "FILL"}
  PROVE  PartUpTo(p, F, Append(l, c), (OutOf(l, Len(l)) + c.chunk_sz) * F)
<1> DEFINE e == Append(l, c)
           n == Len(l)
           lo == OutOf(l, n) * F
           hi == (OutOf(l, n) + c.chunk_sz) * F
<1>1. /\ e \in Seq(Chunks) /\ Len(e) = n + 1 /\ e[n + 1] = c
      /\ OutOf(e, n + 1) = OutOf(l, n) + c.chunk_sz
  BY Appended
<1>2. n \in Nat /\ n \in 0..n OBVIOUS
<1>3. OutOf(e, (n + 1) - 1) = OutOf(l, n) /\ OutOf(l, n) \in Nat
  <2>1. (n + 1) - 1 = n BY <1>2
  <2>2. OutOf(e, n) = OutOf(l, n) /\ OutOf(l, n) \in Nat BY <1>2, SumsBefore, SumsAre
  <2> QED BY <2>1, <2>2, Zenon
<1>4. PartUpTo(p, F, e, lo) BY PartAppended
<1>5. n + 1 \in 1..Len(e) BY <1>1, <1>2
<1> HIDE DEF e
<1>6. ASSUME NEW d \in Blocks, lo <= d, d < hi PROVE DescribedBy(F, e, d) = Old
  <2>1. d \in Nat BY ConstantFacts DEF Blocks
  <2>2. OutOf(e, (n + 1) - 1) * F <= d /\ d < OutOf(e, n + 1) * F BY <1>1, <1>3, <1>6
  <2> HIDE DEF n
  <2>3. DescribedBy(F, e, d) = Content(F, e, n + 1, d) BY <1>1, <1>5, <2>1, <2>2, DescribedIn
  <2>4. Content(F, e, n + 1, d) = Old BY <1>1 DEF Content
  <2> QED BY <2>3, <2>4
<1>7. lo \in Nat /\ hi \in Nat /\ lo <= hi
  <2>1. c.chunk_sz \in Nat
    <3>1. c \in Chunk BY SparseAssumption
    <3> QED BY <3>1, ConstantFacts DEF Chunk, UINT32
  <2>2. OutOf(l, n) + c.chunk_sz \in Nat /\ OutOf(l, n) <= OutOf(l, n) + c.chunk_sz
    BY <1>3, <2>1
  <2> QED BY <1>3, <2>2, Monotone, Product
<1> HIDE DEF lo, hi, n
<1>8. PartUpTo(p, F, e, hi)
  <2> SUFFICES ASSUME NEW d \in Blocks
               PROVE  p[d] = IF d < hi THEN DescribedBy(F, e, d) ELSE Old
    BY DEF PartUpTo
  <2>1. d \in Nat BY ConstantFacts DEF Blocks
  <2>2. p[d] = IF d < lo THEN DescribedBy(F, e, d) ELSE Old BY <1>4 DEF PartUpTo
  <2> QED BY <1>6, <1>7, <2>1, <2>2
<1> QED BY <1>8 DEF e, hi, n

-----------------------------------------------------------------------------
(* The steps.                                                              *)

LEMMA MadeInit == ASSUME Init PROVE MadeInv
BY DEF Init, MadeInv

LEMMA MadeReadHeader ==
  ASSUME Inv, MadeInv, ReadHeader
  PROVE  MadeInv'
<1>1. /\ pc = "start" /\ img' = img /\ part' = part /\ log' = log /\ log = <<>>
      /\ TotalBlocks' = TotalBlocks /\ TotalBlocks = 0 /\ \A d \in Blocks : part[d] = Old
  BY DEF ReadHeader, MadeInv, Ends
<1>2. BlockCountFactor' = BlockCountFactor BY <1>1 DEF BlockCountFactor, h
<1>3. CASE pc' = "chunk" /\ Image' = img.base + SPARSE_HDR /\ HeaderGood
  <2>1. log \in Seq(Chunks) /\ Len(log) = 0 BY <1>1 DEF Inv, TypeInv
  <2>2. OutOf(log, Len(log)) = 0 /\ InOf(log, Len(log)) = SPARSE_HDR BY <2>1, SumsAre
  <2>3. BlockCountFactor \in Nat BY <1>3, FactorFacts DEF Inv
  <2>4. TotalBlocks * BlockCountFactor = 0 BY <1>1, <2>3
  <2>5. PartUpTo(part, BlockCountFactor, log, 0)
    <3>1. \A d \in Blocks : ~(d < 0) BY ConstantFacts DEF Blocks
    <3> QED BY <1>1, <3>1 DEF PartUpTo
  <2>6. ChunkOK' BY <1>1, <1>2, <1>3, <2>2, <2>4, <2>5 DEF ChunkOK, Between
  <2> QED BY <1>3, <2>6 DEF MadeInv
<1>4. CASE pc' = "refused"
  BY <1>1, <1>4 DEF MadeInv, PartSome
<1> QED BY <1>3, <1>4 DEF ReadHeader, Ends

\* The step ends the flash and leaves the partition as it is.
LEMMA MadeEnds ==
  ASSUME Inv, MadeInv, pc \in {"chunk", "raw", "fill"}, img' = img, part' = part, log' = log,
         pc' \in {"refused", "failed"}
  PROVE  MadeInv'
<1>1. BlockCountFactor' = BlockCountFactor BY DEF BlockCountFactor, h
<1>2. ASSUME Laying(log) PROVE PartSome(part, BlockCountFactor, log)
  BY <1>2, UpToSome DEF MadeInv, ChunkOK, RawOK, FillOK
<1> QED BY <1>1, <1>2 DEF MadeInv

\* The size of a chunk's data, in blocks of the device.
LEMMA DataBlocks ==
  ASSUME TypeInv, HeaderGood, NEW c \in Chunks
  PROVE  /\ c.chunk_sz * BlockCountFactor \in Nat
         /\ ChunkDataSz(c) = (c.chunk_sz * BlockCountFactor) * BlockSize
<1>1. c.chunk_sz \in Nat BY ChunkFacts
<1>2. BlockCountFactor \in Nat /\ h.blk_sz = BlockCountFactor * BlockSize BY FactorFacts
<1> DEFINE F == BlockCountFactor
           s == c.chunk_sz
<1>3. ChunkDataSz(c) = (F * BlockSize) * s BY <1>2 DEF ChunkDataSz
<1> HIDE DEF F, s
<1>4. s \in Nat /\ F \in Nat BY <1>1, <1>2 DEF F, s
<1>5. (F * BlockSize) * s = (s * F) * BlockSize BY <1>4, ConstantFacts
<1> QED BY <1>3, <1>4, <1>5, Product DEF F, s

\* e is l with c at its end: its sums.
Joined(l, c, e) ==
  /\ Len(e) = Len(l) + 1 /\ Len(e) - 1 = Len(l) /\ e # <<>> /\ e[Len(e)] = c
  /\ OutOf(e, Len(e) - 1) = OutOf(l, Len(l)) /\ InOf(e, Len(e) - 1) = InOf(l, Len(l))
  /\ OutOf(e, Len(e)) = OutOf(l, Len(l)) + c.chunk_sz
  /\ InOf(e, Len(e)) = InOf(l, Len(l)) + c.total_sz
  /\ OutOf(l, Len(l)) \in Nat /\ InOf(l, Len(l)) \in Nat

LEMMA HeaderRead ==
  ASSUME NEW l \in Seq(Chunks), NEW c \in Chunks
  PROVE  Joined(l, c, Append(l, c))
<1> DEFINE n == Len(l)
<1>1. n \in Nat /\ n \in 0..n /\ (n + 1) - 1 = n OBVIOUS
<1>2. /\ Len(Append(l, c)) = n + 1 /\ Append(l, c)[n + 1] = c
      /\ OutOf(Append(l, c), n + 1) = OutOf(l, n) + c.chunk_sz
      /\ InOf(Append(l, c), n + 1) = InOf(l, n) + c.total_sz
  BY Appended
<1>3. OutOf(Append(l, c), n) = OutOf(l, n) /\ InOf(Append(l, c), n) = InOf(l, n)
  BY <1>1, SumsBefore
<1>4. OutOf(l, n) \in Nat /\ InOf(l, n) \in Nat BY <1>1, SumsAre
<1>5. Append(l, c) # <<>> BY <1>1, <1>2
<1> DEFINE e == Append(l, c)
<1>6. /\ Len(e) = n + 1 /\ e # <<>> /\ e[n + 1] = c /\ OutOf(e, n + 1) = OutOf(l, n) + c.chunk_sz
      /\ InOf(e, n + 1) = InOf(l, n) + c.total_sz
      /\ OutOf(e, n) = OutOf(l, n) /\ InOf(e, n) = InOf(l, n)
  BY <1>2, <1>3, <1>5
<1> HIDE DEF e, n
<1>7. Len(e) - 1 = n BY <1>1, <1>6
<1>8. Joined(l, c, e) BY <1>4, <1>6, <1>7, Zenon DEF Joined, n
<1> QED BY <1>8 DEF e

LEMMA MadeReadChunk ==
  ASSUME Inv, MadeInv, NEW c \in Chunks, ReadChunk(c)
  PROVE  MadeInv'
<1> DEFINE data == Image + CHUNK_HDR
           F == BlockCountFactor
           O == OutOf(log, Len(log))
           I == InOf(log, Len(log))
<1>1. /\ pc = "chunk" /\ RoomLeft /\ log' = Append(log, c) /\ img' = img /\ part' = part
      /\ HeaderGood /\ TypeInv /\ log \in Seq(Chunks)
  BY DEF ReadChunk, Inv, HeaderInv, TypeInv
<1>2. F' = F /\ F \in Nat \ {0} BY <1>1, FactorPositive DEF BlockCountFactor, h
<1>3. pc' \in {"chunk", "raw", "fill", "refused", "failed"}
  BY DEF ReadChunk, BeginRaw, BeginFill, Skip, Ends
<1>4. ASSUME Laying(log'),
             /\ pc' = "chunk" => ChunkOK'
             /\ pc' = "raw" => RawOK'
             /\ pc' = "fill" => FillOK'
             /\ PartSome(part, F, log')
      PROVE  MadeInv'
  BY <1>1, <1>2, <1>3, <1>4 DEF MadeInv
<1> SUFFICES ASSUME Laying(log') PROVE MadeInv'
  BY <1>3 DEF MadeInv
<1>5. /\ Laying(log)
      /\ c.chunk_type = "DONT_CARE" => c.total_sz = CHUNK_HDR
      /\ c.chunk_type = "CRC" => c.chunk_sz = 0
  BY <1>1, LayingLess
<1>6. Image = img.base + I /\ TotalBlocks = O /\ PartUpTo(part, F, log, O * F)
  BY <1>1, <1>5 DEF MadeInv, ChunkOK, Between
<1>7. PartUpTo(part, F, log', O * F) BY <1>1, <1>2, <1>6, PartAppended
<1>8. /\ Len(log') - 1 = Len(log) /\ log' # <<>> /\ log'[Len(log')] = c
      /\ OutOf(log', Len(log') - 1) = O /\ InOf(log', Len(log') - 1) = I
      /\ OutOf(log', Len(log')) = O + c.chunk_sz /\ InOf(log', Len(log')) = I + c.total_sz
      /\ O \in Nat /\ I \in Nat
  <2>1. Joined(log, c, log') BY <1>1, HeaderRead
  <2> QED BY <2>1 DEF Joined
<1>9. /\ c.chunk_sz \in Nat /\ c.total_sz \in Nat /\ ChunkDataSz(c) \in Nat
      /\ img.base \in Nat /\ img.base' = img.base
  BY <1>1, ChunkFacts, ImageFacts
<1> HIDE DEF O, I
<1>10. PartSome(part, F, log') BY <1>7, UpToSome
<1> HIDE DEF F
<1>11. CASE Fits(c) /\ c.chunk_type = "RAW" /\ RawGood(c, data) /\ BeginRaw(c, data)
  <2> DEFINE m == c.chunk_sz * F
  <2>1. DivMsgBufSize(ChunkDataSz(c)) = ChunkDataSz(c)
    BY <1>1, <1>11, RawBegins DEF RawGood
  <2>2. ChunkDataSz(c) = m * BlockSize /\ m \in Nat BY <1>1, DataBlocks DEF F
  <2>3. c.total_sz = CHUNK_HDR + m * BlockSize
    BY <1>11, <2>2 DEF RawGood, RawSized, Fits
  <2>4. /\ pc' = "raw" /\ Image' = data /\ TotalBlocks' = TotalBlocks
        /\ w' = [left |-> m * BlockSize, div |-> m * BlockSize, offset |-> TotalBlocks * F]
    BY <1>11, <2>1, <2>2 DEF BeginRaw, F
  <2> HIDE DEF m
  <2>5. 0 + m = m /\ TotalBlocks * F + 0 = TotalBlocks * F
    <3>1. TotalBlocks * F \in Nat BY <1>2, <1>6, <1>8, Product
    <3> QED BY <2>2, <3>1
  <2>6. data = img.base + I + CHUNK_HDR BY <1>6
  <2>7. RawAt(img.base, F, Image', TotalBlocks', w', log', 0, m)
    <3>1. w'.left = m * BlockSize /\ w'.div = m * BlockSize /\ w'.offset = TotalBlocks * F
      BY <2>4
    <3>2. m = c.chunk_sz * F BY DEF m
    <3> HIDE DEF data
    <3> QED BY <1>6, <1>8, <1>11, <2>3, <2>4, <2>5, <2>6, <3>1, <3>2 DEF RawAt
  <2>8. w'.offset = O * F BY <1>6, <2>4
  <2>9. RawOK'
    <3>1. BlockCountFactor' = F BY <1>2 DEF F
    <3>2. PartUpTo(part', F, log', w'.offset) BY <1>1, <1>7, <2>8
    <3>3. 0 \in Nat OBVIOUS
    <3> QED BY <1>9, <2>2, <2>7, <3>1, <3>2, <3>3 DEF RawOK
  <2> QED BY <1>4, <1>10, <2>4, <2>9
<1>12. CASE Fits(c) /\ c.chunk_type = "FILL" /\ FillGood(c, data) /\ BeginFill(c, data)
  <2>1. c.total_sz = CHUNK_HDR + WORD BY <1>12 DEF FillGood, FillSized, Fits
  <2>2. /\ pc' = "fill" /\ Image' = data + WORD /\ TotalBlocks' = TotalBlocks
        /\ w'.left = c.chunk_sz
    BY <1>12 DEF BeginFill
  <2>3. data + WORD = img.base + I + CHUNK_HDR + WORD BY <1>6
  <2>4. O <= O BY <1>8
  <2>5. FillAt(img.base, Image', TotalBlocks', w'.left, log')
    <3> HIDE DEF data
    <3> QED BY <1>6, <1>8, <1>12, <2>1, <2>2, <2>3, <2>4 DEF FillAt
  <2>6. FillOK'
    <3>1. BlockCountFactor' = F BY <1>2 DEF F
    <3>2. PartUpTo(part', F, log', TotalBlocks' * F) BY <1>1, <1>6, <1>7, <2>2
    <3> QED BY <1>9, <2>5, <3>1, <3>2 DEF FillOK
  <2> QED BY <1>4, <1>10, <2>2, <2>6
<1>13. CASE pc' \in {"refused", "failed"} BY <1>4, <1>10, <1>13
<1>14. ASSUME c.chunk_type \notin {"RAW", "FILL"}, c.total_sz = CHUNK_HDR, Skip(c, data)
       PROVE  MadeInv'
  <2>1. pc' = "chunk" /\ Image' = data /\ TotalBlocks' = TotalBlocks + c.chunk_sz
    BY <1>14 DEF Skip
  <2>2. PartUpTo(part, F, log', (O + c.chunk_sz) * F)
    BY <1>1, <1>2, <1>6, <1>14, PartSkipped DEF O
  <2>3. data = img.base + (I + c.total_sz)
    <3>1. c.total_sz = 3 /\ I \in Nat /\ img.base \in Nat BY <1>8, <1>9, <1>14 DEF CHUNK_HDR
    <3>2. data = (img.base + I) + 3 BY <1>6 DEF CHUNK_HDR
    <3> HIDE DEF data
    <3> QED BY <3>1, <3>2
  <2>4. ChunkOK'
    <3>1. BlockCountFactor' = F BY <1>2 DEF F
    <3>2. PartUpTo(part', F, log', TotalBlocks' * F) BY <1>1, <1>6, <2>1, <2>2
    <3>3. Between(img.base, Image', TotalBlocks', log')
      BY <1>6, <1>8, <2>1, <2>3 DEF Between
    <3> QED BY <1>9, <3>1, <3>2, <3>3 DEF ChunkOK
  <2> QED BY <1>4, <1>10, <2>1, <2>4
<1>15. CASE c.chunk_type = "DONT_CARE" /\ Skip(c, data) BY <1>5, <1>14, <1>15
<1>16. CASE /\ Fits(c) /\ c.chunk_type = "CRC" /\ CrcGood(c, data)
            /\ Skip(c, data + (ChunkDataSz(c) % U32))
  <2>1. c.total_sz = CHUNK_HDR /\ c.chunk_sz = 0 BY <1>5, <1>16 DEF CrcGood, Fits
  <2>2. ChunkDataSz(c) = 0 BY <1>1, <2>1, ImageFacts DEF ChunkDataSz
  <2>3. 0 % U32 = 0 BY ConstantFacts
  <2>4. data + 0 = data BY <1>6, <1>8, <1>9 DEF CHUNK_HDR
  <2> QED BY <1>14, <1>16, <2>1, <2>2, <2>3, <2>4
<1>17. \/ Fits(c) /\ c.chunk_type = "RAW" /\ RawGood(c, data) /\ BeginRaw(c, data)
       \/ Fits(c) /\ c.chunk_type = "FILL" /\ FillGood(c, data) /\ BeginFill(c, data)
       \/ pc' \in {"refused", "failed"}
       \/ c.chunk_type = "DONT_CARE" /\ Skip(c, data)
       \/ /\ Fits(c) /\ c.chunk_type = "CRC" /\ CrcGood(c, data)
          /\ Skip(c, data + (ChunkDataSz(c) % U32))
  BY DEF ReadChunk, Ends
<1> QED BY <1>11, <1>12, <1>13, <1>15, <1>16, <1>17

\* A block further on in a chunk of whole blocks.
LEMMA Further ==
  ASSUME NEW x \in Nat, NEW b \in Nat, NEW j \in Nat, NEW k \in Nat
  PROVE  x + j * b + k * b = x + (j + k) * b
OBVIOUS

LEMMA LastSums ==
  ASSUME NEW l \in Seq(Chunks), l # <<>>
  PROVE  /\ Len(l) \in 1..Len(l) /\ Len(l) - 1 \in 0..Len(l)
         /\ OutOf(l, Len(l) - 1) \in Nat /\ InOf(l, Len(l) - 1) \in Nat
         /\ OutOf(l, Len(l)) \in Nat /\ InOf(l, Len(l)) \in Nat
         /\ OutOf(l, Len(l)) = OutOf(l, Len(l) - 1) + l[Len(l)].chunk_sz
         /\ InOf(l, Len(l)) = InOf(l, Len(l) - 1) + l[Len(l)].total_sz
         /\ l[Len(l)].chunk_sz \in Nat /\ l[Len(l)].total_sz \in Nat
<1> DEFINE n == Len(l)
<1>1. n \in 1..Len(l) /\ n - 1 \in 0..Len(l) /\ n \in 0..Len(l) OBVIOUS
<1>2. l[n].chunk_sz \in Nat /\ l[n].total_sz \in Nat BY <1>1, ChunkSizes
<1>3. /\ \A k \in 0..Len(l) : OutOf(l, k) \in Nat /\ InOf(l, k) \in Nat
      /\ \A k \in 1..Len(l) : /\ OutOf(l, k) = OutOf(l, k - 1) + l[k].chunk_sz
                              /\ InOf(l, k) = InOf(l, k - 1) + l[k].total_sz
  BY SumsAre
<1> HIDE DEF n
<1>4. /\ OutOf(l, n - 1) \in Nat /\ InOf(l, n - 1) \in Nat
      /\ OutOf(l, n) \in Nat /\ InOf(l, n) \in Nat
      /\ OutOf(l, n) = OutOf(l, n - 1) + l[n].chunk_sz
      /\ InOf(l, n) = InOf(l, n - 1) + l[n].total_sz
  BY <1>1, <1>3
<1> QED BY <1>1, <1>2, <1>4 DEF n

\* What Written leaves, what WriteRaw and WriteFill write, as functions.
Wrote(p, first, k, content) ==
  [d \in Blocks |-> IF d >= first /\ d < first + k THEN content[d - first] ELSE p[d]]
RawData(base, im, ww) ==
  [i \in Blocks |-> <<"RAW", (im + ww.div - ww.left) - base + i * BlockSize>>]
FillData(base, im) == [i \in Blocks |-> <<"FILL", (im - WORD) - base>>]

\* Blocks first on, k of them, are written with what is described for them.
LEMMA UpToMore ==
  ASSUME NEW l, NEW F, NEW p, NEW off \in Nat, NEW k \in Nat, NEW content,
         PartUpTo(p, F, l, off),
         \A d \in Blocks : d >= off /\ d < off + k => content[d - off] = DescribedBy(F, l, d)
  PROVE  PartUpTo(Wrote(p, off, k, content), F, l, off + k)
<1> DEFINE q == Wrote(p, off, k, content)
<1> SUFFICES ASSUME NEW d \in Blocks
             PROVE  q[d] = IF d < off + k THEN DescribedBy(F, l, d) ELSE Old
  BY DEF PartUpTo
<1>1. d \in Nat BY ConstantFacts DEF Blocks
<1>2. p[d] = IF d < off THEN DescribedBy(F, l, d) ELSE Old BY DEF PartUpTo
<1>3. q[d] = IF d >= off /\ d < off + k THEN content[d - off] ELSE p[d] BY DEF Wrote
<1> HIDE DEF q
<1>4. CASE d < off BY <1>1, <1>2, <1>3, <1>4
<1>5. CASE d >= off /\ d < off + k BY <1>3, <1>5
<1>6. CASE d >= off + k BY <1>1, <1>2, <1>3, <1>6
<1> QED BY <1>1, <1>4, <1>5, <1>6

\* The first k of the m blocks left of a raw chunk are written.
LEMMA RawWritten ==
  ASSUME NEW l \in Seq(Chunks), NEW F \in Nat \ {0}, NEW base \in Nat, NEW im \in Nat, NEW tb,
         NEW ww \in [left : Nat, offset : Nat, div : Nat], NEW p,
         NEW j \in Nat, NEW m \in Nat, NEW k \in Nat, k <= m,
         RawAt(base, F, im, tb, ww, l, j, m), PartUpTo(p, F, l, ww.offset)
  PROVE  PartUpTo(Wrote(p, ww.offset, k, RawData(base, im, ww)), F, l, ww.offset + k)
<1> DEFINE n == Len(l)
           O == OutOf(l, n - 1)
           I == InOf(l, n - 1)
           c == l[n].chunk_sz
           off == ww.offset
           div == ww.div
           left == ww.left
           content == RawData(base, im, ww)
<1>1. l # <<>> BY DEF RawAt
<1>2. /\ l[n].chunk_type = "RAW" /\ im = base + I + 3 /\ tb = O
      /\ left = m * BlockSize /\ div = (j + m) * BlockSize /\ off = O * F + j
      /\ j + m = c * F
  BY DEF RawAt, CHUNK_HDR
<1>3. /\ O \in Nat /\ I \in Nat /\ OutOf(l, n) = O + c /\ OutOf(l, n) \in Nat
      /\ c \in Nat /\ n \in 1..Len(l)
  BY <1>1, LastSums
<1>5. off \in Nat /\ left \in Nat /\ div \in Nat OBVIOUS
<1>0. content = [i \in Blocks |-> <<"RAW", (im + div - left) - base + i * BlockSize>>]
  BY DEF RawData
<1> SUFFICES \A d \in Blocks : d >= off /\ d < off + k => content[d - off] = DescribedBy(F, l, d)
  BY <1>5, UpToMore
<1> HIDE DEF n, O, I, c, off, div, left, content
<1>6. OutOf(l, n) * F = O * F + (j + m) /\ O * F \in Nat
  <2>1. (O + c) * F = O * F + c * F BY <1>3
  <2>2. O * F \in Nat BY <1>3, Product
  <2> QED BY <1>2, <1>3, <2>1, <2>2
<1>7. (im + div - left) - base = I + 3 + j * BlockSize
  <2> DEFINE a == j * BlockSize
             b == m * BlockSize
  <2>1. (j + m) * BlockSize = a + b BY ConstantFacts
  <2>2. a \in Nat /\ b \in Nat BY ConstantFacts, Product
  <2>3. left = b /\ div = a + b /\ im = base + I + 3 BY <1>2, <2>1
  <2> HIDE DEF a, b
  <2>4. (im + div - left) - base = I + 3 + a BY <1>3, <2>2, <2>3
  <2> QED BY <2>4 DEF a
<1> SUFFICES ASSUME NEW d \in Blocks, d >= off, d < off + k
             PROVE  content[d - off] = DescribedBy(F, l, d)
  OBVIOUS
<1> DEFINE z == O * F
<1>8. off = z + j /\ z \in Nat /\ OutOf(l, n) * F = z + (j + m) BY <1>2, <1>6
<1>9. d \in Nat /\ d - off \in Blocks /\ d - off \in Nat BY <1>5, ConstantFacts DEF Blocks
<1> HIDE DEF z
<1>10. z <= d /\ d < z + (j + m) /\ j + (d - off) = d - z BY <1>8, <1>9
<1>11. O * F <= d /\ d < OutOf(l, n) * F BY <1>8, <1>10 DEF z
<1>12. DescribedBy(F, l, d) = Content(F, l, n, d) BY <1>3, <1>9, <1>11, DescribedIn DEF O
<1>13. Content(F, l, n, d) = <<"RAW", I + 3 + (d - z) * BlockSize>>
  BY <1>2 DEF Content, CHUNK_HDR, O, I, z
<1>14. content[d - off] = <<"RAW", (im + div - left) - base + (d - off) * BlockSize>>
  BY <1>0, <1>9
<1>15. I + 3 + j * BlockSize + (d - off) * BlockSize = I + 3 + (j + (d - off)) * BlockSize
  <2> DEFINE x == I + 3
             y == d - off
  <2>1. x \in Nat /\ BlockSize \in Nat /\ y \in Nat BY <1>3, <1>9, ConstantFacts
  <2> HIDE DEF x, y
  <2>2. x + j * BlockSize + y * BlockSize = x + (j + y) * BlockSize BY <2>1, Further
  <2> QED BY <2>2 DEF x, y
<1>16. content[d - off] = <<"RAW", I + 3 + j * BlockSize + (d - off) * BlockSize>>
  BY <1>7, <1>14, Zenon
<1> QED BY <1>10, <1>12, <1>13, <1>15, <1>16, Zenon

LEMMA FillWritten ==
  ASSUME NEW l \in Seq(Chunks), NEW F \in Nat \ {0}, NEW base \in Nat, NEW im \in Nat,
         NEW tb \in Nat, NEW left \in Nat, left > 0, NEW p, NEW k \in Nat, k <= F,
         FillAt(base, im, tb, left, l), PartUpTo(p, F, l, tb * F)
  PROVE  PartUpTo(Wrote(p, tb * F, k, FillData(base, im)), F, l, tb * F + k)
<1> DEFINE n == Len(l)
           O == OutOf(l, n - 1)
           I == InOf(l, n - 1)
           off == tb * F
           content == FillData(base, im)
<1>1. l # <<>> BY DEF FillAt
<1>2. /\ l[n].chunk_type = "FILL" /\ im = base + I + 3 + 1
      /\ O <= tb /\ tb + left = OutOf(l, n)
  BY DEF FillAt, CHUNK_HDR, WORD
<1>3. O \in Nat /\ I \in Nat /\ OutOf(l, n) \in Nat /\ n \in 1..Len(l) BY <1>1, LastSums
<1>4. off \in Nat BY Product
<1> HIDE DEF n, O, I
<1>5. O * F <= off /\ off + F <= OutOf(l, n) * F
  <2>1. O * F <= off BY <1>2, <1>3, Monotone
  <2>2. tb + 1 \in Nat /\ tb + 1 <= OutOf(l, n) BY <1>2, <1>3
  <2>3. (tb + 1) * F <= OutOf(l, n) * F BY <1>3, <2>2, Monotone
  <2>4. (tb + 1) * F = tb * F + F OBVIOUS
  <2> QED BY <2>1, <2>3, <2>4
<1>6. O * F \in Nat /\ OutOf(l, n) * F \in Nat BY <1>3, Product
<1> SUFFICES \A d \in Blocks : d >= off /\ d < off + k => content[d - off] = DescribedBy(F, l, d)
  BY <1>4, UpToMore
<1> SUFFICES ASSUME NEW d \in Blocks, d >= off, d < off + k
             PROVE  content[d - off] = DescribedBy(F, l, d)
  OBVIOUS
<1>7. content = [i \in Blocks |-> <<"FILL", (im - WORD) - base>>] BY DEF FillData
<1> HIDE DEF off, content
<1>8. (im - WORD) - base = I + 3 BY <1>2, <1>3 DEF WORD
<1>9. d \in Nat /\ d - off \in Blocks BY <1>4, ConstantFacts DEF Blocks
<1>10. O * F <= d /\ d < OutOf(l, n) * F BY <1>4, <1>5, <1>6, <1>9
<1>11. DescribedBy(F, l, d) = Content(F, l, n, d) BY <1>3, <1>9, <1>10, DescribedIn DEF O
<1>12. Content(F, l, n, d) = <<"FILL", I + 3>> BY <1>2 DEF Content, CHUNK_HDR, I
<1>13. content[d - off] = <<"FILL", (im - WORD) - base>> BY <1>7, <1>9
<1> QED BY <1>8, <1>11, <1>12, <1>13, Zenon

LEMMA MadeWriteRaw ==
  ASSUME Inv, MadeInv, WriteRaw
  PROVE  MadeInv'
<1> DEFINE size == IF w.left > WriteUnitSize THEN WriteUnitSize ELSE w.left
           blocks == size \div BlockSize
           content == [k \in Blocks |-> <<"RAW", At(Image + w.div - w.left) + k * BlockSize>>]
           F == BlockCountFactor
<1>1. /\ pc = "raw" /\ w.left > 0 /\ img' = img /\ log' = log
      /\ \/ /\ part' = Written(w.offset, blocks, content) /\ w' = NextUnit(size)
            /\ UNCHANGED <<pc, Image, TotalBlocks>>
         \/ Fails(w.offset, blocks, content)
  BY DEF WriteRaw
<1>2. /\ w \in [left : Nat, offset : Nat, div : Nat] /\ Image \in Nat
      /\ HeaderGood /\ TypeInv /\ log \in Seq(Chunks)
  BY <1>1 DEF Inv, TypeInv, HeaderInv
<1>3. F' = F /\ F \in Nat \ {0} /\ img.base \in Nat /\ img.base' = img.base
  BY <1>1, <1>2, FactorPositive, ImageFacts DEF BlockCountFactor, h
<1>4. \A k : Written(w.offset, k, content) = Wrote(part, w.offset, k, RawData(img.base, Image, w))
  BY DEF Written, Wrote, RawData, At
<1>5. pc' \in {"raw", "failed"} BY <1>1 DEF Fails, Ends
<1> SUFFICES ASSUME Laying(log)
             PROVE  /\ pc' = "raw" => RawOK'
                    /\ pc' = "failed" => PartSome(part', F, log)
  BY <1>1, <1>3, <1>5 DEF MadeInv
<1>6. PartUpTo(part, F, log, w.offset) BY <1>1 DEF MadeInv, RawOK
<1>7. PICK j \in Nat, m \in Nat : RawAt(img.base, F, Image, TotalBlocks, w, log, j, m)
  BY <1>1 DEF MadeInv, RawOK
<1>8. w.left \in Nat /\ w.offset \in Nat /\ w.div \in Nat BY <1>2
<1>9. /\ w.left = m * BlockSize /\ w.div = (j + m) * BlockSize
      /\ w.offset = TotalBlocks * F + j
  BY <1>7 DEF RawAt
<1>10. PICK n \in Nat : blocks = n /\ n <= m /\ w.left - size = (m - n) * BlockSize
  BY <1>1, <1>8, <1>9, UnitFacts
<1> HIDE DEF content, F
<1>11. ASSUME NEW k \in Nat, k <= m
       PROVE  PartUpTo(Written(w.offset, k, content), F, log, w.offset + k)
  <2>1. PartUpTo(Wrote(part, w.offset, k, RawData(img.base, Image, w)), F, log, w.offset + k)
    BY <1>2, <1>3, <1>6, <1>7, <1>11, RawWritten
  <2> QED BY <1>4, <2>1
<1>12. CASE /\ part' = Written(w.offset, blocks, content) /\ w' = NextUnit(size)
            /\ UNCHANGED <<pc, Image, TotalBlocks>>
  <2>1. w' = [w EXCEPT !.left = w.left - size, !.offset = w.offset + blocks]
    BY <1>12 DEF NextUnit
  <2> HIDE DEF size, blocks
  <2>2. w'.left = (m - n) * BlockSize /\ w'.offset = w.offset + n /\ w'.div = (j + m) * BlockSize
    BY <1>2, <1>9, <1>10, <2>1
  <2>3. m - n \in Nat /\ j + n \in Nat /\ (j + n) + (m - n) = j + m BY <1>10
  <2>4. w.offset + n = TotalBlocks * F + (j + n)
    <3>1. TotalBlocks * F \in Nat BY <1>3, Product DEF Inv, TypeInv
    <3> HIDE DEF F
    <3> QED BY <1>9, <3>1
  <2>5. RawAt(img.base, F, Image', TotalBlocks', w', log', j + n, m - n)
    <3>1. Image' = Image /\ TotalBlocks' = TotalBlocks BY <1>12
    <3>2. ((j + n) + (m - n)) * BlockSize = (j + m) * BlockSize BY <2>3
    <3> QED BY <1>1, <1>7, <2>2, <2>3, <2>4, <3>1, <3>2, Zenon DEF RawAt
  <2>6. PartUpTo(part', F, log', w'.offset) BY <1>1, <1>10, <1>11, <1>12, <2>2
  <2>7. RawOK'
    <3>1. BlockCountFactor' = F BY <1>3 DEF F
    <3> QED BY <1>3, <2>3, <2>5, <2>6, <3>1 DEF RawOK
  <2> QED BY <1>1, <1>12, <2>7
<1>13. CASE Fails(w.offset, blocks, content)
  <2>1. PICK k \in 0..(blocks - 1) : part' = Written(w.offset, k, content)
    BY <1>13 DEF Fails
  <2>2. k \in Nat /\ k <= m
    <3> HIDE DEF blocks
    <3> QED BY <1>10
  <2>3. PartSome(part', F, log) BY <1>11, <2>1, <2>2, UpToSome
  <2>4. pc' = "failed" BY <1>13 DEF Fails, Ends
  <2> QED BY <2>3, <2>4
<1> QED BY <1>1, <1>12, <1>13

LEMMA MadeWriteFill ==
  ASSUME Inv, MadeInv, WriteFill
  PROVE  MadeInv'
<1> DEFINE F == BlockCountFactor
           first == TotalBlocks * F
           content == [k \in Blocks |-> <<"FILL", At(Image - WORD)>>]
<1>1. /\ pc = "fill" /\ w.left > 0 /\ img' = img /\ log' = log
      /\ \/ Ends("refused") /\ UNCHANGED part
         \/ /\ part' = Written(first, F, content)
            /\ TotalBlocks' = TotalBlocks + 1 /\ w' = [w EXCEPT !.left = @ - 1]
            /\ UNCHANGED <<pc, Image>>
         \/ Fails(first, F, content)
  BY DEF WriteFill
<1>2. /\ w \in [left : Nat, offset : Nat, div : Nat] /\ Image \in Nat /\ TotalBlocks \in Nat
      /\ HeaderGood /\ TypeInv /\ log \in Seq(Chunks)
  BY <1>1 DEF Inv, TypeInv, HeaderInv
<1>3. F' = F /\ F \in Nat \ {0} /\ img.base \in Nat /\ img.base' = img.base
  BY <1>1, <1>2, FactorPositive, ImageFacts DEF BlockCountFactor, h
<1>4. \A k : Written(first, k, content) = Wrote(part, first, k, FillData(img.base, Image))
  BY DEF Written, Wrote, FillData, At
<1>5. CASE Ends("refused") /\ UNCHANGED part
  BY <1>1, <1>5, MadeEnds DEF Ends
<1>6. ASSUME ~(Ends("refused") /\ UNCHANGED part) PROVE pc' \in {"fill", "failed"}
  BY <1>1, <1>6 DEF Fails, Ends
<1>7. ASSUME pc' \in {"fill", "failed"},
             Laying(log) => /\ pc' = "fill" => FillOK'
                            /\ pc' = "failed" => PartSome(part', F, log)
      PROVE  MadeInv'
  BY <1>1, <1>3, <1>7 DEF MadeInv
<1> SUFFICES ASSUME ~(Ends("refused") /\ UNCHANGED part), Laying(log)
             PROVE  /\ pc' = "fill" => FillOK'
                    /\ pc' = "failed" => PartSome(part', F, log)
  BY <1>5, <1>6, <1>7
<1>8. PartUpTo(part, F, log, first) /\ FillAt(img.base, Image, TotalBlocks, w.left, log)
  BY <1>1 DEF MadeInv, FillOK
<1> HIDE DEF content, F
<1>9. ASSUME NEW k \in Nat, k <= F
      PROVE  PartUpTo(Written(first, k, content), F, log, first + k)
  <2>1. w.left \in Nat BY <1>2
  <2>2. PartUpTo(Wrote(part, first, k, FillData(img.base, Image)), F, log, first + k)
    BY <1>1, <1>2, <1>3, <1>8, <1>9, <2>1, FillWritten
  <2> QED BY <1>4, <2>2
<1>10. CASE /\ part' = Written(first, F, content)
            /\ TotalBlocks' = TotalBlocks + 1 /\ w' = [w EXCEPT !.left = @ - 1]
            /\ UNCHANGED <<pc, Image>>
  <2>1. w'.left = w.left - 1 /\ w.left \in Nat BY <1>2, <1>10
  <2>2. (TotalBlocks + 1) * F = first + F BY <1>2, <1>3
  <2>3. F <= F /\ F \in Nat BY <1>3
  <2>4. PartUpTo(part', F, log', TotalBlocks' * F) BY <1>1, <1>9, <1>10, <2>2, <2>3
  <2>5. FillAt(img.base, Image', TotalBlocks', w'.left, log')
    <3>1. log # <<>> BY <1>8 DEF FillAt
    <3>2. OutOf(log, Len(log) - 1) \in Nat BY <1>2, <3>1, LastSums
    <3>3. /\ OutOf(log, Len(log) - 1) <= TotalBlocks
          /\ TotalBlocks + w.left = OutOf(log, Len(log))
      BY <1>8 DEF FillAt
    <3>4. /\ OutOf(log, Len(log) - 1) <= TotalBlocks + 1
          /\ (TotalBlocks + 1) + (w.left - 1) = OutOf(log, Len(log))
      BY <1>2, <2>1, <3>2, <3>3
    <3> QED BY <1>1, <1>8, <1>10, <2>1, <3>4 DEF FillAt
  <2>6. FillOK'
    <3>1. BlockCountFactor' = F BY <1>3 DEF F
    <3> QED BY <1>3, <2>4, <2>5, <3>1 DEF FillOK
  <2> QED BY <1>1, <1>10, <2>6
<1>11. CASE Fails(first, F, content)
  <2>1. PICK k \in 0..(F - 1) : part' = Written(first, k, content) BY <1>11 DEF Fails
  <2>2. k \in Nat /\ k <= F BY <1>3
  <2>3. PartSome(part', F, log) BY <1>9, <2>1, <2>2, UpToSome
  <2>4. pc' = "failed" BY <1>11 DEF Fails, Ends
  <2> QED BY <2>3, <2>4
<1> QED BY <1>1, <1>10, <1>11

LEMMA MadeRawDone ==
  ASSUME Inv, MadeInv, RawDone
  PROVE  MadeInv'
<1> DEFINE c == log[Len(log)]
           F == BlockCountFactor
<1>1. /\ pc = "raw" /\ w.left = 0 /\ img' = img /\ log' = log /\ part' = part
      /\ \/ /\ pc' = "chunk" /\ TotalBlocks' = TotalBlocks + c.chunk_sz
            /\ Image' = Image + ChunkDataSz(c)
         \/ pc' = "refused"
  BY DEF RawDone, Ends
<1>2. CASE pc' = "refused" BY <1>1, <1>2, MadeEnds
<1>3. CASE pc' = "chunk" /\ TotalBlocks' = TotalBlocks + c.chunk_sz
           /\ Image' = Image + ChunkDataSz(c)
  <2>1. HeaderGood /\ TypeInv /\ log \in Seq(Chunks) BY <1>1 DEF Inv, TypeInv, HeaderInv
  <2>2. F' = F /\ F \in Nat \ {0} /\ img.base \in Nat /\ img.base' = img.base
    BY <1>1, <2>1, FactorPositive, ImageFacts DEF BlockCountFactor, h
  <2> SUFFICES ASSUME Laying(log) PROVE ChunkOK'
    BY <1>1, <1>3 DEF MadeInv
  <2>3. PartUpTo(part, F, log, w.offset) BY <1>1 DEF MadeInv, RawOK
  <2>4. PICK j \in Nat, m \in Nat : RawAt(img.base, F, Image, TotalBlocks, w, log, j, m)
    BY <1>1 DEF MadeInv, RawOK
  <2> DEFINE O == OutOf(log, Len(log) - 1)
             I == InOf(log, Len(log) - 1)
  <2>5. /\ log # <<>> /\ c.total_sz = 3 + (j + m) * BlockSize
        /\ Image = img.base + I + 3 /\ TotalBlocks = O
        /\ w.left = m * BlockSize /\ w.offset = TotalBlocks * F + j /\ j + m = c.chunk_sz * F
    BY <2>4 DEF RawAt, CHUNK_HDR
  <2>6. /\ O \in Nat /\ I \in Nat /\ OutOf(log, Len(log)) = O + c.chunk_sz
        /\ InOf(log, Len(log)) = I + c.total_sz /\ c.chunk_sz \in Nat /\ c.total_sz \in Nat
        /\ Len(log) \in 1..Len(log)
    BY <2>1, <2>5, LastSums
  <2>7. c \in Chunks BY <2>1, <2>6
  <2>8. ChunkDataSz(c) = (j + m) * BlockSize BY <2>1, <2>5, <2>7, DataBlocks
  <2> HIDE DEF O, I, c, F
  <2>9. ChunkDataSz(c) \in Nat /\ c.total_sz = 3 + ChunkDataSz(c)
    BY <2>5, <2>8, ConstantFacts, Product
  <2>10. Image' = img.base + InOf(log, Len(log))
    <3> DEFINE z == ChunkDataSz(c)
    <3>1. Image' = img.base + I + 3 + z BY <1>3, <2>5 DEF c
    <3>2. InOf(log, Len(log)) = I + (3 + z) /\ z \in Nat BY <2>6, <2>9
    <3> HIDE DEF z
    <3> QED BY <2>2, <2>6, <3>1, <3>2
  <2>11. m = 0
    <3>1. m * BlockSize <= 0 * BlockSize BY <1>1, <2>5, ConstantFacts
    <3>2. m <= 0 BY <3>1, Cancel, ConstantFacts
    <3> QED BY <3>2
  <2>12. w.offset = (TotalBlocks + c.chunk_sz) * F
    <3>1. j = c.chunk_sz * F BY <2>5, <2>11
    <3>2. (TotalBlocks + c.chunk_sz) * F = TotalBlocks * F + c.chunk_sz * F
      BY <2>2, <2>5, <2>6
    <3> QED BY <2>5, <3>1, <3>2
  <2>13. PartUpTo(part', F, log', TotalBlocks' * F) BY <1>1, <1>3, <2>3, <2>12
  <2>14. BlockCountFactor' = F BY <2>2 DEF F
  <2>15. Between(img.base, Image', TotalBlocks', log')
    BY <1>1, <1>3, <2>5, <2>6, <2>10 DEF Between
  <2> QED BY <2>2, <2>13, <2>14, <2>15 DEF ChunkOK
<1> QED BY <1>1, <1>2, <1>3

LEMMA MadeFillDone ==
  ASSUME Inv, MadeInv, FillDone
  PROVE  MadeInv'
<1>1. /\ pc = "fill" /\ w.left = 0 /\ pc' = "chunk" /\ img' = img /\ log' = log /\ part' = part
      /\ Image' = Image /\ TotalBlocks' = TotalBlocks
  BY DEF FillDone
<1>2. BlockCountFactor' = BlockCountFactor BY <1>1 DEF BlockCountFactor, h
<1> SUFFICES ASSUME Laying(log) PROVE ChunkOK'
  BY <1>1 DEF MadeInv
<1>3. FillOK BY <1>1 DEF MadeInv
<1>4. Between(img.base, Image, TotalBlocks, log)
  <2> DEFINE O == OutOf(log, Len(log))
             I == InOf(log, Len(log) - 1)
             c == log[Len(log)]
  <2>1. /\ log # <<>> /\ c.total_sz = 3 + 1 /\ Image = img.base + I + 3 + 1
        /\ TotalBlocks + 0 = O
    BY <1>1, <1>3 DEF FillOK, FillAt, CHUNK_HDR, WORD
  <2>2. log \in Seq(Chunks) /\ TotalBlocks \in Nat /\ TypeInv BY DEF Inv, TypeInv
  <2>3. InOf(log, Len(log)) = I + c.total_sz /\ I \in Nat BY <2>1, <2>2, LastSums
  <2>4. img.base \in Nat BY <2>2, ImageFacts
  <2> HIDE DEF O, I, c
  <2>5. Image = img.base + InOf(log, Len(log)) /\ TotalBlocks = O BY <2>1, <2>2, <2>3, <2>4
  <2> QED BY <2>5 DEF Between, O
<1> QED BY <1>1, <1>2, <1>3, <1>4 DEF ChunkOK, FillOK

LEMMA MadeFinish ==
  ASSUME Inv, MadeInv, Finish
  PROVE  MadeInv'
<1> DEFINE F == BlockCountFactor
<1>1. /\ pc = "chunk" /\ img' = img /\ log' = log /\ part' = part /\ HeaderGood
      /\ pc' = IF Complete THEN "okay" ELSE "refused"
  BY DEF Finish, Ends, Inv, HeaderInv
<1>2. CASE pc' = "refused" BY <1>1, <1>2, MadeEnds
<1>3. CASE pc' = "okay" /\ Complete
  <2>1. F' = F /\ F \in Nat \ {0} /\ h' = h /\ log \in Seq(Chunks)
    BY <1>1, FactorPositive DEF BlockCountFactor, h, Inv, TypeInv
  <2> SUFFICES ASSUME Laying(log) PROVE OkayOK'
    BY <1>1, <1>3 DEF MadeInv
  <2>2. /\ TotalBlocks = OutOf(log, Len(log))
        /\ PartUpTo(part, F, log, TotalBlocks * F)
    BY <1>1 DEF MadeInv, ChunkOK, Between
  <2>3. TotalBlocks = h.total_blks BY <1>3 DEF Complete
  <2> HIDE DEF F
  <2>4. ASSUME NEW d \in Blocks PROVE part[d] = DescribedBy(F, log, d)
    <3>1. d \in Nat BY ConstantFacts DEF Blocks
    <3> DEFINE lim == TotalBlocks * F
    <3>2. lim \in Nat BY <2>1, Product DEF Inv, TypeInv
    <3>3. part[d] = IF d < lim THEN DescribedBy(F, log, d) ELSE Old BY <2>2 DEF PartUpTo
    <3>4. lim = OutOf(log, Len(log)) * F BY <2>2
    <3> HIDE DEF lim
    <3>5. ~(d < lim) => DescribedBy(F, log, d) = Old
      <4> SUFFICES ASSUME ~(d < lim) PROVE DescribedBy(F, log, d) = Old OBVIOUS
      <4>1. lim <= d BY <3>1, <3>2
      <4> QED BY <2>1, <3>1, <3>4, <4>1, DescribedPast
    <3> QED BY <3>3, <3>5
  <2>5. BlockCountFactor' = F BY <2>1 DEF F
  <2>6. h'.total_blks = h.total_blks BY <2>1
  <2> QED BY <1>1, <2>2, <2>3, <2>4, <2>5, <2>6 DEF OkayOK
<1> QED BY <1>1, <1>2, <1>3

LEMMA MadeNext ==
  ASSUME Inv, MadeInv, [Next]_vars
  PROVE  MadeInv'
<1>1. CASE UNCHANGED vars
  BY <1>1 DEF vars, MadeInv, ChunkOK, RawOK, FillOK, OkayOK, BlockCountFactor, h
<1>2. CASE NoChunk BY <1>2, MadeEnds DEF NoChunk, Ends
<1> QED
  BY <1>1, <1>2, MadeReadHeader, MadeReadChunk, MadeWriteRaw, MadeRawDone, MadeWriteFill,
     MadeFillDone, MadeFinish DEF Next

-----------------------------------------------------------------------------
(* An image that is refused.                                               *)

SizedIn(blk_sz, c) ==
  /\ c.chunk_sz > 0
  /\ CASE c.chunk_type = "RAW" -> c.total_sz = CHUNK_HDR + blk_sz * c.chunk_sz
       [] c.chunk_type = "FILL" -> c.total_sz = CHUNK_HDR + WORD
       [] c.chunk_type = "DONT_CARE" -> c.total_sz = CHUNK_HDR
       [] OTHER -> FALSE

\* WellFormed, of an image i whose headers l have been read.
Formed(i, l) ==
  LET n == Len(l) IN
  /\ ~(MAX_UINT64 - i.sz < i.base)
  /\ i.h.total_blks * i.h.blk_sz <= PartitionSize /\ i.h.chunk_hdr_sz = CHUNK_HDR
  /\ \A k \in 1..n : SizedIn(i.h.blk_sz, l[k])
  /\ InOf(l, n) <= i.sz /\ OutOf(l, n) <= i.h.total_blks
  /\ IF n = i.h.total_chunks THEN OutOf(l, n) = i.h.total_blks
     ELSE OutOf(l, n) < i.h.total_blks /\ InOf(l, n) + CHUNK_HDR <= i.sz

CauseInv == pc = "refused" => ~WellFormed

LEMMA FormedNow == ASSUME log \in Seq(Chunks), WellFormed PROVE Formed(img, log)
<1>1. (Len(log) + 1) - 1 = Len(log) OBVIOUS
<1>2. /\ OutputAt(Len(log) + 1) = OutOf(log, Len(log))
      /\ InputAt(Len(log) + 1) = InOf(log, Len(log))
  BY <1>1 DEF OutputAt, InputAt, Output, Input, OutOf, InOf
<1> QED
  BY <1>2 DEF WellFormed, Formed, SizeKnown, CHECK_ADD64, HeaderGood, h, Sized, SizedIn,
     ChunkDataSz

LEMMA FormedNext == ASSUME log' \in Seq(Chunks), WellFormed' PROVE Formed(img', log')
<1>1. (Len(log') + 1) - 1 = Len(log') OBVIOUS
<1>2. /\ OutputAt(Len(log) + 1)' = OutOf(log', Len(log'))
      /\ InputAt(Len(log) + 1)' = InOf(log', Len(log'))
  BY <1>1 DEF OutputAt, InputAt, Output, Input, OutOf, InOf
<1> QED
  BY <1>2 DEF WellFormed, Formed, SizeKnown, CHECK_ADD64, HeaderGood, h, Sized, SizedIn,
     ChunkDataSz

LEMMA FormedLaid ==
  ASSUME NEW i, NEW l \in Seq(Chunks), Formed(i, l)
  PROVE  Laying(l)
<1>1. \A k \in DOMAIN l : SizedIn(i.h.blk_sz, l[k]) BY DEF Formed
<1> QED BY <1>1 DEF Laying, SizedIn

\* What an image of the format that fits gives: its size and that of the partition
\* bound what is read and written.
LEMMA FormedFacts ==
  ASSUME TypeInv, HeaderGood, NEW l \in Seq(Chunks), Formed(img, l)
  PROVE  /\ ImageEnd <= MAX_UINT64 /\ img.base + InOf(l, Len(l)) <= ImageEnd
         /\ OutOf(l, Len(l)) \in Nat /\ InOf(l, Len(l)) \in Nat
         /\ OutOf(l, Len(l)) * h.blk_sz <= PartitionSize
         /\ OutOf(l, Len(l)) <= MAX_UINT32
         /\ Len(l) # h.total_chunks =>
              /\ OutOf(l, Len(l)) * h.blk_sz < PartitionSize
              /\ img.base + InOf(l, Len(l)) + CHUNK_HDR <= ImageEnd
         /\ Len(l) = h.total_chunks => OutOf(l, Len(l)) = h.total_blks
<1> DEFINE O == OutOf(l, Len(l))
           I == InOf(l, Len(l))
           t == h.total_blks
           b == h.blk_sz
<1>1. Len(l) \in 0..Len(l) OBVIOUS
<1>2. O \in Nat /\ I \in Nat BY <1>1, SumsAre
<1>3. b \in Nat \ {0} /\ img.base \in Nat /\ img.sz \in Nat /\ ImageEnd = img.base + img.sz
  BY ImageFacts DEF HeaderGood
<1>4. t \in Nat /\ t <= MAX_UINT32
  <2>1. img.h \in Header BY SparseAssumption DEF TypeInv
  <2> QED BY <2>1, ConstantFacts DEF h, Header, UINT32
<1>5. /\ ~(MAX_UINT64 - img.sz < img.base) /\ t * b <= PartitionSize
      /\ I <= img.sz /\ O <= t
      /\ IF Len(l) = h.total_chunks THEN O = t ELSE O < t /\ I + 3 <= img.sz
  BY DEF Formed, h, CHUNK_HDR
<1> HIDE DEF O, I, t, b
<1>6. ImageEnd <= MAX_UINT64 /\ img.base + I <= ImageEnd BY <1>2, <1>3, <1>5, ConstantFacts
<1>7. O * b <= PartitionSize
  <2>1. O * b <= t * b BY <1>2, <1>3, <1>4, <1>5, Monotone
  <2>2. O * b \in Nat /\ t * b \in Nat BY <1>2, <1>3, <1>4, Product
  <2> QED BY <1>5, <2>1, <2>2, ConstantFacts
<1>8. O <= MAX_UINT32 BY <1>2, <1>4, <1>5, ConstantFacts
<1>9. ASSUME Len(l) # h.total_chunks
      PROVE  O * b < PartitionSize /\ img.base + I + 3 <= ImageEnd
  <2>1. O + 1 <= t /\ O + 1 \in Nat /\ I + 3 <= img.sz BY <1>2, <1>4, <1>5, <1>9
  <2>2. (O + 1) * b <= t * b BY <1>3, <1>4, <2>1, Monotone
  <2>3. (O + 1) * b = O * b + b BY <1>2, <1>3
  <2>4. O * b \in Nat /\ t * b \in Nat BY <1>2, <1>3, <1>4, Product
  <2>5. O * b < PartitionSize BY <1>3, <1>5, <2>2, <2>3, <2>4, ConstantFacts
  <2>6. img.base + I + 3 <= ImageEnd BY <1>2, <1>3, <2>1
  <2> QED BY <2>5, <2>6
<1>10. Len(l) = h.total_chunks => O = t BY <1>5
<1> QED BY <1>2, <1>6, <1>7, <1>8, <1>9, <1>10 DEF O, I, t, b, CHUNK_HDR

\* What lies before the end of the image is inside.
LEMMA EndsInside ==
  ASSUME TypeInv, NEW data \in Nat, NEW size \in Nat, ImageEnd <= MAX_UINT64,
         data + size <= ImageEnd
  PROVE  DataInside(data, size) /\ ~CHECK_ADD64(data, size)
<1>1. ImageEnd \in Nat BY ImageFacts
<1>2. data + size \in Nat /\ data + size < U64 /\ ~(MAX_UINT64 - size < data)
  BY <1>1, ConstantFacts
<1>3. (data + size) % U64 = data + size BY <1>2, Unwrapped, ConstantFacts
<1> QED BY <1>2, <1>3 DEF DataInside, CHECK_ADD64

LEMMA CauseNoChunk ==
  ASSUME Inv, MadeInv, NoChunk
  PROVE  ~WellFormed
<1> SUFFICES ASSUME WellFormed PROVE FALSE OBVIOUS
<1>1. /\ pc = "chunk" /\ Len(log) < h.total_chunks /\ ~(RoomLeft /\ HeaderInside)
      /\ HeaderGood /\ TypeInv /\ log \in Seq(Chunks)
  BY DEF NoChunk, Inv, HeaderInv, TypeInv
<1>2. Formed(img, log) /\ Laying(log) BY <1>1, FormedNow, FormedLaid
<1>3. Image = img.base + InOf(log, Len(log)) /\ TotalBlocks = OutOf(log, Len(log))
  BY <1>1, <1>2 DEF MadeInv, ChunkOK, Between
<1>4. Len(log) # h.total_chunks
  <2>1. Len(log) \in Nat BY <1>1
  <2> QED BY <1>1, <2>1
<1>5. RoomLeft BY <1>1, <1>2, <1>3, <1>4, FormedFacts DEF RoomLeft
<1>6. Image + 3 <= ImageEnd /\ ImageEnd <= MAX_UINT64
  BY <1>1, <1>2, <1>3, <1>4, FormedFacts DEF CHUNK_HDR
<1>7. HeaderInside
  <2>1. Image \in Nat /\ 3 \in Nat BY DEF Inv, TypeInv
  <2>2. ~CHECK_ADD64(Image, 3) BY <1>1, <1>6, <2>1, EndsInside
  <2> QED BY <1>6, <2>2 DEF HeaderInside, CHUNK_HDR
<1> QED BY <1>1, <1>5, <1>7

LEMMA CauseReadChunk ==
  ASSUME Inv, MadeInv, NEW c \in Chunks, ReadChunk(c), pc' = "refused"
  PROVE  ~WellFormed'
<1> SUFFICES ASSUME WellFormed' PROVE FALSE OBVIOUS
<1> DEFINE data == Image + CHUNK_HDR
           O == OutOf(log, Len(log))
           I == InOf(log, Len(log))
<1>1. /\ pc = "chunk" /\ log' = Append(log, c) /\ img' = img
      /\ HeaderGood /\ TypeInv /\ log \in Seq(Chunks) /\ log' \in Seq(Chunks)
  BY DEF ReadChunk, Inv, HeaderInv, TypeInv
<1>2. ~(Fits(c) /\ CASE c.chunk_type = "RAW" -> RawGood(c, data)
                     [] c.chunk_type = "FILL" -> FillGood(c, data)
                     [] c.chunk_type = "DONT_CARE" -> Counts(c)
                     [] c.chunk_type = "CRC" -> CrcGood(c, data)
                     [] OTHER -> FALSE)
  BY DEF ReadChunk, Skip, BeginRaw, BeginFill, Ends
<1>3. Formed(img, log') /\ Laying(log') BY <1>1, FormedNext, FormedLaid
<1>4. Laying(log) BY <1>1, <1>3, LayingLess
<1>5. Image = img.base + I /\ TotalBlocks = O
  BY <1>1, <1>4 DEF MadeInv, ChunkOK, Between
<1>6. /\ Len(log') = Len(log) + 1 /\ log'[Len(log')] = c
      /\ OutOf(log', Len(log')) = O + c.chunk_sz /\ InOf(log', Len(log')) = I + c.total_sz
      /\ O \in Nat /\ I \in Nat
  <2>1. Joined(log, c, log') BY <1>1, HeaderRead
  <2> QED BY <2>1 DEF Joined
<1>7. SizedIn(h.blk_sz, c) /\ h.chunk_hdr_sz = CHUNK_HDR
  <2>1. Len(log') \in 1..Len(log')
    <3>1. Len(log) \in Nat BY <1>1
    <3> QED BY <1>6, <3>1
  <2> QED BY <1>3, <1>6, <2>1 DEF Formed, h
<1>8. /\ c.chunk_sz \in Nat /\ c.total_sz \in Nat /\ ChunkDataSz(c) \in Nat
      /\ img.base \in Nat /\ h.blk_sz \in Nat /\ ImageEnd \in Nat
  BY <1>1, ChunkFacts, ImageFacts
<1>9. /\ ImageEnd <= MAX_UINT64 /\ img.base + (I + c.total_sz) <= ImageEnd
      /\ (O + c.chunk_sz) * h.blk_sz <= PartitionSize /\ O + c.chunk_sz <= MAX_UINT32
  BY <1>1, <1>3, <1>6, FormedFacts
<1>10. data = img.base + I + 3 /\ data \in Nat BY <1>5, <1>6, <1>8 DEF CHUNK_HDR
<1> HIDE DEF O, I, data
<1>11. Fits(c)
  <2> DEFINE x == O * h.blk_sz
             y == ChunkDataSz(c)
  <2>1. (O + c.chunk_sz) * h.blk_sz = x + y BY <1>6, <1>8 DEF ChunkDataSz
  <2>2. x \in Nat /\ y \in Nat BY <1>6, <1>8, Product
  <2>3. TotalBlocks * h.blk_sz = x BY <1>5
  <2> HIDE DEF x, y
  <2>4. x + y <= PartitionSize /\ PartitionSize < U64
    BY <1>1, <1>9, <2>1, SumUnwrapped, ConstantFacts
  <2>5. x + y \in Nat /\ x + y < U64 BY <2>2, <2>4, ConstantFacts
  <2>6. (x + y) % U64 = x + y BY <2>5, Unwrapped, ConstantFacts
  <2> QED BY <1>7, <2>3, <2>4, <2>6 DEF Fits, y
<1>12. Counts(c)
  BY <1>5, <1>6, <1>8, <1>9, ConstantFacts DEF Counts
<1>13. ASSUME NEW z \in Nat, c.total_sz = 3 + z PROVE DataInside(data, z)
  <2>1. data + z <= ImageEnd BY <1>6, <1>8, <1>9, <1>10, <1>13
  <2> QED BY <1>1, <1>9, <1>10, <2>1, EndsInside
<1>14. CASE c.chunk_type = "RAW"
  <2>1. c.total_sz = 3 + ChunkDataSz(c)
    BY <1>7, <1>14 DEF SizedIn, ChunkDataSz, CHUNK_HDR
  <2>2. RawGood(c, data)
    BY <1>7, <1>8, <1>13, <2>1 DEF RawGood, RawSized, CHUNK_HDR
  <2> QED BY <1>2, <1>11, <1>14, <2>2
<1>15. CASE c.chunk_type = "FILL"
  <2>1. c.total_sz = 3 + 1 BY <1>7, <1>15 DEF SizedIn, CHUNK_HDR, WORD
  <2>2. DataInside(data, 1) BY <1>13, <2>1
  <2>3. FillGood(c, data)
    BY <1>7, <2>1, <2>2 DEF FillGood, FillSized, CHUNK_HDR, WORD
  <2> QED BY <1>2, <1>11, <1>15, <2>3
<1>16. CASE c.chunk_type = "DONT_CARE" BY <1>2, <1>11, <1>12, <1>16
<1> QED BY <1>7, <1>14, <1>15, <1>16 DEF SizedIn

LEMMA CauseRawDone ==
  ASSUME Inv, MadeInv, RawDone, pc' = "refused"
  PROVE  ~WellFormed
<1> SUFFICES ASSUME WellFormed PROVE FALSE OBVIOUS
<1> DEFINE c == log[Len(log)]
<1>1. pc = "raw" /\ ~Counts(c) /\ HeaderGood /\ TypeInv /\ log \in Seq(Chunks)
  BY DEF RawDone, Inv, HeaderInv, TypeInv
<1>2. Formed(img, log) /\ Laying(log) BY <1>1, FormedNow, FormedLaid
<1>3. TotalBlocks = OutOf(log, Len(log) - 1) /\ log # <<>>
  BY <1>1, <1>2 DEF MadeInv, RawOK, RawAt
<1>4. /\ OutOf(log, Len(log)) = TotalBlocks + c.chunk_sz /\ c.chunk_sz \in Nat
      /\ TotalBlocks \in Nat
  BY <1>1, <1>3, LastSums
<1>5. OutOf(log, Len(log)) <= MAX_UINT32 BY <1>1, <1>2, FormedFacts
<1> HIDE DEF c
<1> QED BY <1>1, <1>4, <1>5, ConstantFacts DEF Counts

LEMMA CauseWriteFill ==
  ASSUME Inv, MadeInv, WriteFill, pc' = "refused"
  PROVE  ~WellFormed
<1> SUFFICES ASSUME WellFormed PROVE FALSE OBVIOUS
<1> DEFINE O == OutOf(log, Len(log))
           b == h.blk_sz
<1>1. /\ pc = "fill" /\ w.left > 0 /\ TotalBlocks * b + b > PartitionSize
      /\ HeaderGood /\ TypeInv /\ log \in Seq(Chunks) /\ TotalBlocks \in Nat /\ w.left \in Nat
  BY DEF WriteFill, Fails, Ends, Inv, HeaderInv, TypeInv
<1>2. Formed(img, log) /\ Laying(log) BY <1>1, FormedNow, FormedLaid
<1>3. TotalBlocks + w.left = O BY <1>1, <1>2 DEF MadeInv, FillOK, FillAt
<1>4. O * b <= PartitionSize /\ O \in Nat BY <1>1, <1>2, FormedFacts
<1>5. b \in Nat BY <1>1, ImageFacts
<1> HIDE DEF O, b
<1>6. TotalBlocks + 1 \in Nat /\ TotalBlocks + 1 <= O BY <1>1, <1>3, <1>4
<1>7. (TotalBlocks + 1) * b <= O * b BY <1>4, <1>5, <1>6, Monotone
<1>8. (TotalBlocks + 1) * b = TotalBlocks * b + b BY <1>1, <1>5
<1>9. O * b \in Nat /\ TotalBlocks * b \in Nat BY <1>1, <1>4, <1>5, Product
<1> QED BY <1>1, <1>4, <1>5, <1>7, <1>8, <1>9, ConstantFacts

LEMMA CauseFinish ==
  ASSUME Inv, MadeInv, Finish, pc' = "refused"
  PROVE  ~WellFormed
<1> SUFFICES ASSUME WellFormed PROVE FALSE OBVIOUS
<1>1. /\ pc = "chunk" /\ Len(log) = h.total_chunks /\ TotalBlocks # h.total_blks
      /\ HeaderGood /\ TypeInv /\ log \in Seq(Chunks)
  BY DEF Finish, Ends, Complete, Inv, HeaderInv, TypeInv
<1>2. Formed(img, log) /\ Laying(log) BY <1>1, FormedNow, FormedLaid
<1>3. TotalBlocks = OutOf(log, Len(log))
  BY <1>1, <1>2 DEF MadeInv, ChunkOK, Between
<1> QED BY <1>1, <1>2, <1>3, FormedFacts

\* What WellFormed says does not change while no header is read.
LEMMA FormedSame ==
  ASSUME img' = img, log' = log
  PROVE  WellFormed' = WellFormed
BY DEF WellFormed, SizeKnown, CHECK_ADD64, HeaderGood, h, Sized, ChunkDataSz, OutputAt, InputAt,
   Output, Input

LEMMA CauseNext ==
  ASSUME Inv, MadeInv, CauseInv, [Next]_vars
  PROVE  CauseInv'
<1> SUFFICES ASSUME pc' = "refused" PROVE ~WellFormed' BY DEF CauseInv
<1>1. CASE UNCHANGED vars
  <2>1. pc = "refused" /\ img' = img /\ log' = log BY <1>1 DEF vars
  <2> QED BY <2>1, FormedSame DEF CauseInv
<1>2. CASE ReadHeader
  <2>1. img' = img /\ log' = log /\ ~(SizeKnown /\ HeaderGood) BY <1>2 DEF ReadHeader
  <2>2. ~WellFormed BY <2>1 DEF WellFormed
  <2> QED BY <2>1, <2>2, FormedSame
<1>3. ASSUME NEW c \in Chunks, ReadChunk(c) PROVE ~WellFormed' BY <1>3, CauseReadChunk
<1>4. CASE NoChunk
  <2>1. img' = img /\ log' = log BY <1>4 DEF NoChunk
  <2> QED BY <1>4, <2>1, CauseNoChunk, FormedSame
<1>5. CASE RawDone
  <2>1. img' = img /\ log' = log BY <1>5 DEF RawDone
  <2> QED BY <1>5, <2>1, CauseRawDone, FormedSame
<1>6. CASE WriteFill
  <2>1. img' = img /\ log' = log BY <1>6 DEF WriteFill
  <2> QED BY <1>6, <2>1, CauseWriteFill, FormedSame
<1>7. CASE Finish
  <2>1. img' = img /\ log' = log BY <1>7 DEF Finish
  <2> QED BY <1>7, <2>1, CauseFinish, FormedSame
<1>8. CASE WriteRaw BY <1>8 DEF WriteRaw, Fails, Ends
<1>9. CASE FillDone BY <1>9 DEF FillDone
<1> QED BY <1>1, <1>2, <1>3, <1>4, <1>5, <1>6, <1>7, <1>8, <1>9 DEF Next

-----------------------------------------------------------------------------
LEMMA MadeDescribed ==
  ASSUME Inv, MadeInv
  PROVE  WrittenAsDescribed
<1>1. \A d : Described(d) = DescribedBy(BlockCountFactor, log, d) BY DescribedIs
<1>2. Laid <=> Laying(log) BY DEF Laid, Laying
<1>3. log \in Seq(Chunks) /\ pc \in {"start", "chunk", "raw", "fill", "okay", "refused", "failed"}
  BY DEF Inv, TypeInv
<1>4. ASSUME Laying(log) PROVE PartSome(part, BlockCountFactor, log)
  <2>1. CASE pc = "start" BY <2>1 DEF MadeInv, PartSome
  <2>2. CASE pc \in {"chunk", "raw", "fill"}
    BY <1>4, <2>2, UpToSome DEF MadeInv, ChunkOK, RawOK, FillOK
  <2>3. CASE pc \in {"refused", "failed"} BY <1>4, <2>3 DEF MadeInv
  <2>4. CASE pc = "okay" BY <1>4, <2>4 DEF MadeInv, OkayOK, PartSome
  <2> QED BY <1>3, <2>1, <2>2, <2>3, <2>4
<1>5. BlocksAsDescribed BY <1>1, <1>2, <1>4 DEF BlocksAsDescribed, PartSome
<1>6. OutputAt(Len(log) + 1) = OutOf(log, Len(log))
  <2>1. (Len(log) + 1) - 1 = Len(log) BY <1>3
  <2> QED BY <2>1 DEF OutputAt, Output, OutOf
<1>7. SuccessWhole BY <1>1, <1>2, <1>6 DEF SuccessWhole, MadeInv, OkayOK
<1> QED BY <1>5, <1>7 DEF WrittenAsDescribed

\* HandleSparseImgFlash, HandleChunkTypeRaw, HandleChunkTypeFill and
\* WriteBlockToPartition: for every image whose chunks without data have none,
\* every partition and unit of writing, and wherever a write fails, a block of the
\* partition is as it was or holds what the image describes for it; once the flash
\* succeeds each holds what the image describes, and the chunks add up to its size.
THEOREM FlashWritesDescribed == Spec => []WrittenAsDescribed
<1>1. Init => Inv /\ MadeInv
  BY InitInv, MadeInit
<1>2. Inv /\ MadeInv /\ [Next]_vars => Inv' /\ MadeInv'
  BY NextInv, MadeNext
<1>3. Inv /\ MadeInv => WrittenAsDescribed
  BY MadeDescribed
<1> QED
  BY <1>1, <1>2, <1>3, PTL DEF Spec

\* The checks of HandleSparseImgFlash and ValidateChunkDataAndFlash: whatever its
\* chunks, an image of the format that fits in what was downloaded and in the
\* partition is not refused, in spite of the sums in 32 and 64 bits.
THEOREM RefusalHasCause == Spec => []RefusedForCause
<1>1. Init => Inv /\ MadeInv /\ CauseInv
  BY InitInv, MadeInit DEF CauseInv, Init
<1>2. Inv /\ MadeInv /\ CauseInv /\ [Next]_vars => Inv' /\ MadeInv' /\ CauseInv'
  BY NextInv, MadeNext, CauseNext
<1>3. CauseInv => RefusedForCause
  BY DEF CauseInv, RefusedForCause
<1> QED
  BY <1>1, <1>2, <1>3, PTL DEF Spec

=============================================================================
