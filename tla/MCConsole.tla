----------------------------- MODULE MCConsole ------------------------------
(***************************************************************************)
(* The console for TLC: numbers at the edges of one and two digits and of  *)
(* the sign, and a text that looks like a conversion.  As the source of a  *)
(* log line it is too long while the text of the line is still to come.    *)
(***************************************************************************)
EXTENDS Console

NumberValues == {0, 10, -1}
TextValues == {<<>>, <<"%", "d", "d">>}
=============================================================================
