---------------------------- MODULE MCGptUpdate ----------------------------
(* Small instances of GptUpdate: a well-formed image and one without a used  *)
(* entry, images damaged in the ways the parser looks for, and one whose     *)
(* first copy does not verify; it is accepted after another image was.       *)
EXTENDS GptUpdate

Good(lba) == [form |-> TRUE, HeaderSz |-> 92, crc |-> TRUE, CurrentLba |-> lba,
              ranges |-> TRUE, MaxPtCnt |-> 2]
A == [protective |-> TRUE, blocks |-> 11, first |-> Good(1), second |-> Good(3),
      used |-> 2, table |-> "A"]
Named(i, t) == [i EXCEPT !.table = t]
NotGpt     == Named([A EXCEPT !.protective = FALSE], "mbr only")
Short      == Named([A EXCEPT !.blocks = 2], "short")
NoBackup   == Named([A EXCEPT !.blocks = 10], "no backup")
BadFirst   == Named([A EXCEPT !.first.crc = FALSE], "bad first")
BadSecond  == Named([A EXCEPT !.second.crc = FALSE], "bad second")
Empty      == Named([A EXCEPT !.used = 0], "empty")
Odd        == Named([A EXCEPT !.first.CurrentLba = 3, !.first.HeaderSz = 512,
                              !.second.MaxPtCnt = 1], "odd")

AllImages == {A, NotGpt, Short, NoBackup, BadFirst, BadSecond, Empty, Odd}
OneImage  == {A}
TwoLuns   == {0, 1}
AnyArg    == {0, 1, 7, 8, 99}   \* 7 is not configured, 8 too large, 99 no number
=============================================================================
