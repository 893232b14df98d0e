-------------------------- MODULE MCBufferedSerial --------------------------
(***************************************************************************)
(* BufferedSerial for TLC: an empty array, one character, and a text with  *)
(* a newline that fills the write buffer; more arrives than the read       *)
(* buffer takes, or the port is closed and opened again.                   *)
(***************************************************************************)
EXTENDS BufferedSerial

CONSTANT Letter

MCChar == {NewLine, Letter}
MCTexts == {<<>>, <<Letter>>, <<NewLine, Letter>>}
MCBudgets == {[receive |-> 3, write |-> 2, close |-> 0], [receive |-> 1, write |-> 2, close |-> 1]}
=============================================================================
