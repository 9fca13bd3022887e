------------------------------ MODULE SerialLine ------------------------------
(***************************************************************************)
(* The serial line between the board (bits_miosix) and the daemon on the   *)
(* Fonera (bitsd), and the pieces of text that cross it.                   *)
(*                                                                         *)
(* A piece is what one call of Console::write sends, which txMutex keeps   *)
(* together: a newline, or the "-->A", "-->C" or "-->T" of a report.  The  *)
(* characters of a command before its newline are one piece as well: read  *)
(* in part, or with anything else on the same line, they mean nothing to   *)
(* either side.  A report of a key carries the number of the press, which  *)
(* the code does not send: it tells the reports of equal keys apart.       *)
(***************************************************************************)
EXTENDS Naturals, Sequences, SequencesExt

VARIABLES
    toBoard,    \* the pieces on their way to the board
    fromBoard   \* those on their way to the daemon, or in its serialReadData

wires == <<toBoard, fromBoard>>

Newline == <<"nl", 0>>
Key(n) == <<IF n % 2 = 1 THEN "A" ELSE "C", n>>
Temperature == <<"T", 0>>
Text(command) == <<command, 0>>

EndsLine(piece) == piece = Newline

Pieces(presses) ==
    {Newline, Temperature, Text("open"), Text("closed")} \union {Key(n) : n \in presses}

=============================================================================
