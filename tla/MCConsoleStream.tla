---------------------------- MODULE MCConsoleStream ----------------------------
(***************************************************************************)
(* Instance of ConsoleStream for TLC: the first two lines are identical.   *)
(***************************************************************************)
EXTENDS ConsoleStream

Texts_ == <<1, 1, 2>>
=============================================================================
