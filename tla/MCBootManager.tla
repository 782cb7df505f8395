---------------------------- MODULE MCBootManager ----------------------------
(* Small instances of BootManager: two of the six default options, of which   *)
(* one is the shell, and one of an OS.                                        *)
EXTENDS BootManager

SomeDefaults == <<"SDD", SHELL>>
=============================================================================
