------------------------------ MODULE MCConsole ------------------------------
(***************************************************************************)
(* The console for TLC: a screen of two rows for text and one for the      *)
(* clock.                                                                  *)
(***************************************************************************)
EXTENDS Console

LimitMessage == <<"a", "newline">>

StackBytes == {<<>>, <<"newline">>}
=============================================================================
