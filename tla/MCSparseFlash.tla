---------------------------- MODULE MCSparseFlash ----------------------------
(* Small instances of SparseFlash: UINT32 has four bits, a device block four  *)
(* words and the partition four blocks, so that the data of a chunk may not   *)
(* fit in a UINT32 and an image may lie at the end of the address space.      *)
EXTENDS SparseFlash

Usual == [blk_sz |-> 4, total_blks |-> 4, total_chunks |-> 3, file_hdr_sz |-> 7,
          chunk_hdr_sz |-> 3]
SomeHeaders ==
  [blk_sz : {4, 8}, total_blks : 1..4, total_chunks : 0..3, file_hdr_sz : {7},
   chunk_hdr_sz : {3}]
  \cup {[Usual EXCEPT !.blk_sz = b] : b \in {0, 6, 12}}
  \cup {[Usual EXCEPT !.file_hdr_sz = 6], [Usual EXCEPT !.chunk_hdr_sz = 4]}

\* total_sz: each kind of chunk, one too little, one too much, and 0.
SomeChunks ==
  [chunk_type : Types \ {"other"}, chunk_sz : {0, 1, 2, 3, 4, 15},
   total_sz : {0, 3, 4, 7, 11, 15}]
  \cup {[chunk_type |-> "other", chunk_sz |-> 1, total_sz |-> 3]}
SomeSizes == {6, 7, 13, 17, 21, 29}
SomeBases == {16, 231}
=============================================================================
