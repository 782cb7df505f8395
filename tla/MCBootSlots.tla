----------------------------- MODULE MCBootSlots -----------------------------
(* Small instances of BootSlots: partition tables as the factory, an OTA     *)
(* update, a successful boot and a used up slot leave them.                  *)
EXTENDS BootSlots

A(p, act, r, su, un) ==
  [prio |-> p, active |-> act, retry |-> r, succ |-> su, unboot |-> un]

Table(s, a, b) == [attr |-> [t \in Slots |-> IF t = "_a" THEN a ELSE b],
                   guid |-> [p \in Pairs |-> s]]

Factory == Table("_a", A(0, FALSE, 0, FALSE, FALSE), A(0, FALSE, 0, FALSE, FALSE))
OnA     == Table("_a", A(3, TRUE, 7, TRUE, FALSE),  A(2, FALSE, 7, TRUE, FALSE))
OnB     == Table("_b", A(2, FALSE, 0, TRUE, FALSE), A(3, TRUE, 7, FALSE, FALSE))
BadA    == Table("_a", A(3, TRUE, 0, FALSE, TRUE),  A(2, FALSE, 7, TRUE, FALSE))
UsedUpB == Table("_b", A(2, FALSE, 7, FALSE, TRUE), A(3, TRUE, 0, FALSE, FALSE))
Nothing == Table("_a", A(1, FALSE, 0, FALSE, TRUE), A(1, FALSE, 0, FALSE, FALSE))

AllGpts  == {Factory, OnA, OnB, BadA, UsedUpB, Nothing}
OneGpt   == {OnA}
BadGpt   == {BadA}
NoTable  == {"set_active", "flash", "continue", "boot", "reset", "os"}
AllOps   == NoTable \cup {"partition"}
SetReset == {"set_active", "reset"}
SetTable == {"set_active", "partition"}
TableOnly == {"partition"}
ContinueOnly == {"continue"}
Names    == {"a", "b"}
AnyNames == {"a", "b", ""}
Underscored == {"_a", "_b"}
=============================================================================
