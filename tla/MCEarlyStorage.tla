---------------------------- MODULE MCEarlyStorage ----------------------------
(* Small instances of EarlyStorage: a byte has four bits.  The second record  *)
(* cancels its own length in the sum, so that the checksum stays the same     *)
(* when it is added.                                                          *)
EXTENDS EarlyStorage

SomeRecords == {<<1, 2>>, <<14, 15>>, <<0, 7>>}
=============================================================================
