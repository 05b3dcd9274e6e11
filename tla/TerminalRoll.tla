---------------------------- MODULE TerminalRoll ----------------------------
(***************************************************************************)
(* What the terminal promises whoever prints: the screen is the end of a   *)
(* roll of paper.  Text is added to its last row; a row that is full is    *)
(* followed by a new one; the oldest row leaves when there are too many.   *)
(***************************************************************************)
EXTENDS Integers, Sequences

CONSTANTS
  Width, Height,   \* cells of a row, rows of the screen
  Glyphs,          \* characters that fill a cell
  Blank            \* the empty cell

Newline == "\n"

VARIABLES
  rows,   \* the rows on the screen so far, oldest first
  column  \* cells used in the last of them

BlankRow == [i \in 1 .. Width |-> Blank]

Init == rows = <<BlankRow>> /\ column = 0

\* The roll with a new last row.
Fed(roll) == Append(IF Len(roll) = Height THEN Tail(roll) ELSE roll, BlankRow)

Put(c) ==
  IF c = Newline
  THEN rows' = Fed(rows) /\ column' = 0
  ELSE LET written == [rows EXCEPT ![Len(rows)][column + 1] = c]
       IN  IF column + 1 = Width
           THEN rows' = Fed(written) /\ column' = 0
           ELSE rows' = written /\ column' = column + 1

Next == \E c \in Glyphs \cup {Newline} : Put(c)

Spec == Init /\ [][Next]_<<rows, column>>
=============================================================================
