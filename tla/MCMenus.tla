------------------------------ MODULE MCMenus ------------------------------
(* Small instances of Menus.                                               *)
EXTENDS Menus

\* The build options of the platform file: no verified boot.
BuiltBuilds == [avb : {"NO_AVB"}, display : {"menu", "flag", "none"},
                multi : {TRUE}, user : {FALSE}, allow : {TRUE}]

\* The options of the QcomModulePkg build, on a board with a display.
VerifiedBuilds == [avb : {"AVB_1", "AVB_2"}, display : {"menu"},
                   multi : {TRUE}, user : {FALSE}, allow : {TRUE}]

\* Without a display, and as a user build that may not be unlocked.
PlainBuilds == [avb : {"AVB_1", "AVB_2"}, display : {"none"},
                multi : {FALSE}, user : {TRUE}, allow : {FALSE}]

AllBuilds == BuiltBuilds \cup VerifiedBuilds \cup PlainBuilds

\* One board for the run about the comment.
OrangeBuilds == [avb : {"AVB_2"}, display : {"menu"},
                 multi : {FALSE}, user : {TRUE}, allow : {TRUE}]
============================================================================
