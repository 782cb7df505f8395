----------------------------- MODULE SparseFlash -----------------------------
(***************************************************************************)
(* Flashing a sparse image: HandleSparseImgFlash, ValidateChunkDataAndFlash,*)
(* HandleChunkTypeRaw, HandleChunkTypeFill (FastbootCmds.c) and            *)
(* WriteBlockToPartition (LinuxLoaderLib.c).                               *)
(*                                                                         *)
(* The image is arbitrary, so the header of a chunk is chosen when it is   *)
(* read, whatever the place it is read from.  Sizes are counted in words   *)
(* of 4 bytes and the integers are narrowed: UINT32 is 0..MAX_UINT32 and   *)
(* UINT64 goes to the square of that.  Data is known by its place in the   *)
(* image.  One step reads a header or makes one WriteBlocks, which may     *)
(* fail.                                                                   *)
(***************************************************************************)
EXTENDS Naturals, Sequences, Sums

CONSTANTS
  MAX_UINT32,
  BlockSize,      \* of the device, in words
  LastBlock,      \* of the partition
  WriteUnitSize,  \* MAX_WRITE_SIZE when the flash is split
  Headers,        \* the sparse headers tried
  Chunks,         \* the chunk headers tried
  Sizes, Bases    \* the sizes and addresses of the image tried

VARIABLES
  img,          \* the image: its header h, size sz and address base
  pc,
  Image,        \* the address of what is read next
  TotalBlocks,
  w,            \* of the chunk under way: what is left, and the next block
  part,         \* the partition
  log,          \* history: the chunk headers read
  seen          \* history: one past the last address read and the last block
                \* written, and the most copied to the buffer of one block

vars == <<img, pc, Image, TotalBlocks, w, part, log, seen>>

SPARSE_HDR == 7   \* sizeof (sparse_header_t)
CHUNK_HDR  == 3   \* sizeof (chunk_header_t)
WORD       == 1   \* sizeof (UINT32)
UINT32 == 0..MAX_UINT32
U32 == MAX_UINT32 + 1
U64 == U32 * U32
MAX_UINT64 == U64 - 1
Blocks == 0..LastBlock
PartitionSize == (LastBlock + 1) * BlockSize   \* GetPartitionSize

Header == [blk_sz : UINT32, total_blks : UINT32, total_chunks : UINT32,
           file_hdr_sz : UINT32, chunk_hdr_sz : UINT32]
Types  == {"RAW", "FILL", "DONT_CARE", "CRC", "other"}
Chunk  == [chunk_type : Types, chunk_sz : UINT32, total_sz : UINT32]

\* The partition is so small (below 16 TB with blocks of 4096 bytes) that the
\* largest chunk added to it does not wrap in 64 bits.
ASSUME SparseAssumption ==
  /\ {BlockSize, MAX_UINT32, WriteUnitSize} \subseteq Nat \ {0} /\ LastBlock \in Nat
  /\ WriteUnitSize % BlockSize = 0
  /\ Headers \subseteq Header /\ Chunks \subseteq Chunk /\ Sizes \cup Bases \subseteq 0..MAX_UINT64
  /\ PartitionSize + MAX_UINT32 * (U32 - BlockSize) < U64

h == img.h
ImageEnd == img.base + img.sz
BlockCountFactor == h.blk_sz \div BlockSize
ChunkDataSz(c) == h.blk_sz * c.chunk_sz
CHECK_ADD64(a, b) == MAX_UINT64 - b < a
Old == <<"old", 0>>
At(address) == address - img.base
Larger(a, b) == IF a < b THEN b ELSE a
Read(end) == [seen EXCEPT !.read = Larger(@, end)]

Init ==
  /\ img \in [h : Headers, sz : Sizes, base : Bases]
  /\ pc = "start" /\ Image = img.base /\ TotalBlocks = 0
  /\ w = [left |-> 0, offset |-> 0, div |-> 0]
  /\ part = [d \in Blocks |-> Old]
  /\ log = <<>> /\ seen = [read |-> img.base, written |-> 0, copied |-> 0]

Ends(how) == pc' = how /\ UNCHANGED <<Image, TotalBlocks, w>>

-----------------------------------------------------------------------------
\* The header of the image, up to the loop over the chunks.
SizeKnown == ~CHECK_ADD64(img.base, img.sz) /\ img.sz >= SPARSE_HDR

HeaderGood ==
  /\ h.total_blks * h.blk_sz <= PartitionSize
  /\ h.file_hdr_sz = SPARSE_HDR
  /\ h.blk_sz # 0 /\ h.blk_sz % BlockSize = 0

ReadHeader ==
  /\ pc = "start"
  /\ seen' = IF SizeKnown THEN Read(img.base + SPARSE_HDR) ELSE seen
  /\ \/ /\ SizeKnown /\ HeaderGood
        /\ pc' = "chunk" /\ Image' = img.base + SPARSE_HDR
        /\ UNCHANGED <<TotalBlocks, w>>
     \/ ~(SizeKnown /\ HeaderGood) /\ Ends("refused")
  /\ UNCHANGED <<img, part, log>>

\* Variant: the last block is kept free.
RoomLeftOne == (TotalBlocks + 1) * h.blk_sz < PartitionSize

\* A chunk is read only while the partition has room, whatever its type.
RoomLeft == TotalBlocks * h.blk_sz < PartitionSize

HeaderInside ==
  ~CHECK_ADD64(Image, CHUNK_HDR) /\ Image + CHUNK_HDR <= ImageEnd

Fits(c) ==
  /\ h.chunk_hdr_sz = CHUNK_HDR
  /\ (TotalBlocks * h.blk_sz + ChunkDataSz(c)) % U64 <= PartitionSize

Counts(c) == TotalBlocks <= MAX_UINT32 - c.chunk_sz

\* Variant: the sum is taken in 32 bits.
RawSized32(c) == c.total_sz = (h.chunk_hdr_sz + ChunkDataSz(c)) % U32

RawSized(c) == c.total_sz = h.chunk_hdr_sz + ChunkDataSz(c)

\* Variant: only the start of the data is compared.
DataInsideStart(data, size) == data <= ImageEnd

DataInside(data, size) ==
  ~CHECK_ADD64(data, size) /\ (data + size) % U64 <= ImageEnd

\* The checks on a chunk whose data begins at address data.
RawGood(c, data)  == RawSized(c) /\ DataInside(data, ChunkDataSz(c))
FillSized(c)      == c.total_sz = h.chunk_hdr_sz + WORD
FillGood(c, data) == FillSized(c) /\ DataInside(data, WORD)
CrcGood(c, data)  ==
  /\ c.total_sz = h.chunk_hdr_sz /\ Counts(c)
  /\ ~CHECK_ADD64(data, ChunkDataSz(c))
  /\ data + (ChunkDataSz(c) % U32) <= ImageEnd

\* WriteBlockToPartition counts in 32 bits what it writes in whole blocks, and
\* copies what is left to a buffer of one block (nothing is ever left, as blk_sz
\* is a multiple of BlockSize and total_sz has 32 bits).
DivMsgBufSize(size) == ((size \div BlockSize) * BlockSize) % U32

BeginRaw(c, data) ==
  LET size == ChunkDataSz(c) IN
  /\ pc' = "raw" /\ Image' = data /\ UNCHANGED TotalBlocks
  /\ w' = [left |-> DivMsgBufSize(size), div |-> DivMsgBufSize(size),
           offset |-> TotalBlocks * BlockCountFactor]
  /\ seen' = [Read(data) EXCEPT !.copied = Larger(@, size - DivMsgBufSize(size))]

BeginFill(c, data) ==
  /\ pc' = "fill" /\ Image' = data + WORD /\ UNCHANGED TotalBlocks
  /\ w' = [left |-> c.chunk_sz, offset |-> 0, div |-> 0]
  /\ seen' = Read(data + WORD)

Skip(c, next) ==
  /\ pc' = "chunk" /\ Image' = next /\ TotalBlocks' = TotalBlocks + c.chunk_sz
  /\ UNCHANGED w

\* The loop over the chunks, up to the first write of one.
ReadChunk(c) ==
  LET data == Image + CHUNK_HDR IN
  /\ pc = "chunk" /\ Len(log) < h.total_chunks
  /\ RoomLeft /\ HeaderInside
  /\ log' = Append(log, c)
  /\ \/ Fits(c) /\ c.chunk_type = "RAW" /\ RawGood(c, data) /\ BeginRaw(c, data)
     \/ Fits(c) /\ c.chunk_type = "FILL" /\ FillGood(c, data) /\ BeginFill(c, data)
     \/ /\ Fits(c) /\ c.chunk_type = "FILL" /\ FillSized(c)   \* no memory for FillBuf
        /\ Ends("failed") /\ seen' = Read(data)
     \/ /\ Fits(c) /\ c.chunk_type = "DONT_CARE" /\ Counts(c)
        /\ Skip(c, data) /\ seen' = Read(data)
     \/ /\ Fits(c) /\ c.chunk_type = "CRC" /\ CrcGood(c, data)
        /\ Skip(c, data + (ChunkDataSz(c) % U32)) /\ seen' = Read(data)
     \/ /\ ~(Fits(c) /\ CASE c.chunk_type = "RAW" -> RawGood(c, data)
                          [] c.chunk_type = "FILL" -> FillGood(c, data)
                          [] c.chunk_type = "DONT_CARE" -> Counts(c)
                          [] c.chunk_type = "CRC" -> CrcGood(c, data)
                          [] OTHER -> FALSE)
        /\ Ends("refused") /\ seen' = Read(data)
  /\ UNCHANGED <<img, part>>

NoChunk ==
  /\ pc = "chunk" /\ Len(log) < h.total_chunks
  /\ ~(RoomLeft /\ HeaderInside)
  /\ Ends("refused")
  /\ UNCHANGED <<img, part, log, seen>>

-----------------------------------------------------------------------------
\* n blocks are written from block first on; a WriteBlocks that fails has
\* written some of them.
Written(first, n, content) ==
  [d \in Blocks |-> IF d >= first /\ d < first + n THEN content[d - first] ELSE part[d]]

Fails(first, n, content) ==
  /\ \E k \in 0..(n - 1) : part' = Written(first, k, content)
  /\ Ends("failed")

\* Variant: every unit goes to the first block of the chunk.
NextUnitStays(size) == [w EXCEPT !.left = @ - size]

\* Offset += WriteSize / BlockSize; LeftSize -= WriteSize.
NextUnit(size) == [w EXCEPT !.left = @ - size, !.offset = @ + size \div BlockSize]

\* One WriteBlocks of a raw chunk.
WriteRaw ==
  LET size == IF w.left > WriteUnitSize THEN WriteUnitSize ELSE w.left
      n == size \div BlockSize
      content == [k \in Blocks |-> <<"RAW", At(Image + w.div - w.left) + k * BlockSize>>]
  IN
  /\ pc = "raw" /\ w.left > 0
  /\ seen' = [Read(Image + w.div - w.left + size)
              EXCEPT !.written = Larger(@, w.offset + n)]
  /\ \/ /\ part' = Written(w.offset, n, content) /\ w' = NextUnit(size)
        /\ UNCHANGED <<pc, Image, TotalBlocks>>
     \/ Fails(w.offset, n, content)
  /\ UNCHANGED <<img, log>>

\* The chunk is counted after it is written.
RawDone ==
  LET c == log[Len(log)] IN
  /\ pc = "raw" /\ w.left = 0
  /\ IF Counts(c)
     THEN /\ pc' = "chunk" /\ TotalBlocks' = TotalBlocks + c.chunk_sz
          /\ Image' = Image + ChunkDataSz(c)
          /\ UNCHANGED w
     ELSE Ends("refused")
  /\ UNCHANGED <<img, part, log, seen>>

\* One block of a fill chunk.
WriteFill ==
  LET first == TotalBlocks * BlockCountFactor
      content == [k \in Blocks |-> <<"FILL", At(Image - WORD)>>]
  IN
  /\ pc = "fill" /\ w.left > 0
  /\ IF TotalBlocks * h.blk_sz + h.blk_sz > PartitionSize
     THEN Ends("refused") /\ UNCHANGED <<part, seen>>
     ELSE /\ seen' = [seen EXCEPT !.written = Larger(@, first + BlockCountFactor)]
          /\ \/ /\ part' = Written(first, BlockCountFactor, content)
                /\ TotalBlocks' = TotalBlocks + 1 /\ w' = [w EXCEPT !.left = @ - 1]
                /\ UNCHANGED <<pc, Image>>
             \/ Fails(first, BlockCountFactor, content)
  /\ UNCHANGED <<img, log>>

FillDone ==
  /\ pc = "fill" /\ w.left = 0 /\ pc' = "chunk"
  /\ UNCHANGED <<img, Image, TotalBlocks, w, part, log, seen>>

\* Variant: the number of blocks is not compared.
CompleteNot == TRUE

Complete == TotalBlocks = h.total_blks

Finish ==
  /\ pc = "chunk" /\ Len(log) = h.total_chunks
  /\ Ends(IF Complete THEN "okay" ELSE "refused")
  /\ UNCHANGED <<img, part, log, seen>>

Next ==
  \/ ReadHeader \/ (\E c \in Chunks : ReadChunk(c)) \/ NoChunk
  \/ WriteRaw \/ RawDone \/ WriteFill \/ FillDone \/ Finish

Spec == Init /\ [][Next]_vars

-----------------------------------------------------------------------------
(***************************************************************************)
(* What the image describes, from the headers read so far and the format   *)
(* alone (SparseFormat.h): chunk_sz blocks of output and total_sz bytes of *)
(* input, header included, for every chunk.                                *)
(***************************************************************************)
Output == [j \in DOMAIN log |-> log[j].chunk_sz]
Input  == [j \in DOMAIN log |-> log[j].total_sz]
OutputAt(k) == SumTo(Output, k - 1)
InputAt(k)  == SPARSE_HDR + SumTo(Input, k - 1)

Described(d) ==
  LET b == d \div BlockCountFactor
      ks == {k \in DOMAIN log : OutputAt(k) <= b /\ b < OutputAt(k) + log[k].chunk_sz}
      k == CHOOSE k \in ks : TRUE
      data == InputAt(k) + CHUNK_HDR
  IN  IF ks = {} THEN Old
      ELSE CASE log[k].chunk_type = "RAW" ->
                  <<"RAW", data + (d - OutputAt(k) * BlockCountFactor) * BlockSize>>
             [] log[k].chunk_type = "FILL" -> <<"FILL", data>>
             [] OTHER -> Old

\* The length of the input of a chunk that has no data is only its header.
Laid == \A k \in DOMAIN log :
          /\ log[k].chunk_type = "DONT_CARE" => log[k].total_sz = CHUNK_HDR
          /\ log[k].chunk_type = "CRC" => log[k].chunk_sz = 0

Sized(c) ==
  /\ c.chunk_sz > 0
  /\ CASE c.chunk_type = "RAW" -> c.total_sz = CHUNK_HDR + ChunkDataSz(c)
       [] c.chunk_type = "FILL" -> c.total_sz = CHUNK_HDR + WORD
       [] c.chunk_type = "DONT_CARE" -> c.total_sz = CHUNK_HDR
       [] OTHER -> FALSE

\* As far as it has been read, the image is one of the format and fits.
WellFormed ==
  LET n == Len(log) IN
  /\ SizeKnown /\ HeaderGood
  /\ h.chunk_hdr_sz = CHUNK_HDR
  /\ \A k \in 1..n : Sized(log[k])
  /\ InputAt(n + 1) <= img.sz /\ OutputAt(n + 1) <= h.total_blks
  /\ IF n = h.total_chunks THEN OutputAt(n + 1) = h.total_blks
     ELSE OutputAt(n + 1) < h.total_blks /\ InputAt(n + 1) + CHUNK_HDR <= img.sz

TypeOK ==
  /\ img \in [h : Headers, sz : Sizes, base : Bases]
  /\ pc \in {"start", "chunk", "raw", "fill", "okay", "refused", "failed"}
  /\ Image \in 0..MAX_UINT64 /\ TotalBlocks \in 0..(LastBlock + 1)
  /\ w.left \in 0..MAX_UINT32 /\ w.offset \in 0..(LastBlock + 1)
  /\ \A d \in Blocks : part[d][1] \in {"old", "RAW", "FILL"}
  /\ log \in Seq(Chunks) /\ Len(log) <= h.total_chunks

\* Whatever the image says, nothing past the end of what was downloaded is read:
\* the checks on chunk headers and data hold in spite of 32-bit sizes.
ReadsInside == seen.read <= Larger(img.base, ImageEnd)

\* Nothing is written past the end of the partition, and WriteBlockToPartition
\* never copies more than a block to its buffer of one block.
WritesInside == seen.written <= LastBlock + 1 /\ seen.copied <= BlockSize

\* The image is walked inside the download buffer, and the partition written inside
\* its bounds, for every image.
StaysInside == ReadsInside /\ WritesInside

\* At any time, and after any failure, a block of the partition is as it was or
\* holds the data the image describes for it.
BlocksAsDescribed == Laid => \A d \in Blocks : part[d] \in {Old, Described(d)}

\* A flash that succeeds has written every block the image describes, and the
\* chunks make up the size of the image.
SuccessWhole ==
  pc = "okay" /\ Laid =>
    /\ \A d \in Blocks : part[d] = Described(d)
    /\ OutputAt(Len(log) + 1) = h.total_blks

\* The partition holds what the image describes: in part while it is written or
\* after a failure, all of it after a success.
WrittenAsDescribed == BlocksAsDescribed /\ SuccessWhole

\* An image of the format that fits is not refused.
RefusedForCause == pc = "refused" => ~WellFormed

\* What SparseFormat.h says of total_sz: each chunk header is read where the
\* total_sz of the chunks before it says.
InStep == pc = "chunk" => Image = img.base + InputAt(Len(log) + 1)
=============================================================================
