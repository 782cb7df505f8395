----------------------------- MODULE MCFastboot -----------------------------
(* Instances of Fastboot for TLC: a buffer half of two units, a partition   *)
(* larger than it, a smaller one and one of exactly its size; two sparse    *)
(* images and a raw one that fit it, one too large to download, and a meta  *)
(* image that names a locked critical partition.                            *)
EXTENDS Fastboot

CONSTANTS s1, s2, r1, big, meta, large, small, equal

MCPartSize ==
  [p \in Parts |-> CASE p = large -> 3 [] p = equal -> 2 [] OTHER -> 1]
MCImageSize ==
  [i \in Images |-> CASE i = big -> 3 [] i = s1 -> 2 [] OTHER -> 1]
MCSparse == Images \cap {s1, s2}
MCCritMeta == Images \cap {meta}
=============================================================================
