------------------------------ MODULE Terminal ------------------------------
(***************************************************************************)
(* The text terminal of kernel/src/terminal.c, on which everything the     *)
(* kernel says appears: a cursor and a frame buffer of height rows, stored *)
(* as one array.  Nothing locks it.  An exception, or an NMI, reports on   *)
(* the same terminal (isr_handler) wherever the thread was in printing,    *)
(* and the thread never goes on after it.                                  *)
(***************************************************************************)
EXTENDS Integers, Sequences

CONSTANTS
  width, height,   \* cells of a row, rows of the screen, from the boot loader
  Glyphs,          \* characters that fill a cell
  MaxChars         \* bound: characters printed in a behaviour

ASSUME ScreenAssumption ==
  width \in Nat \ {0} /\ height \in Nat \ {0} /\ MaxChars \in Nat

Blank   == " "
Newline == "\n"

\* terminal_putchar treats '\n' apart; every other character fills a cell.
ASSUME GlyphsAssumption == Newline \notin Glyphs

Cell    == Glyphs \cup {Blank, "?"}

\* Video memory goes on after the screen; one row of it is enough here.
Screen == 0 .. width * height - 1
Memory == 0 .. width * (height + 1) - 1

VARIABLES
  buffer,     \* video memory
  x, y,       \* the cursor
  at,         \* the statement of terminal_putchar that is next
  row,        \* the loop variable of terminal_scrolldown
  reporting,  \* isr_handler is printing
  cut,        \* history: the statement that the exception came before
  last,       \* history: the last character printed to the end
  cell,       \* history: the cell it was put in
  roll,       \* history: the screen before the thread's latest character
  chars       \* characters printed so far, for the bound

vars == <<buffer, x, y, at, row, reporting, cut, last, cell, roll, chars>>

-----------------------------------------------------------------------------
(* The screen as rows.                                                     *)

Row(r)   == [i \in 1 .. width |-> buffer[r * width + i - 1]]
RollNow  == [rows |-> [r \in 1 .. y + 1 |-> Row(r - 1)], column |-> x]

\* The screen after the characters that the thread has finished.
ThreadRoll == IF at = "idle" /\ ~reporting THEN RollNow ELSE roll

-----------------------------------------------------------------------------
Init ==
  /\ buffer = [i \in Memory |-> "?"]           \* as the boot loader left it
  /\ x = 0 /\ y = 0 /\ at = "off" /\ row = 0
  /\ reporting = FALSE /\ cut = "none"
  /\ last = Newline /\ cell = 0
  /\ roll = [rows |-> <<[i \in 1 .. width |-> Blank]>>, column |-> 0]
  /\ chars = 0

\* Without a frame buffer in text mode the kernel stops, mute.
terminal_initialize(flagged, text) ==
  /\ at = "off"
  /\ IF flagged /\ text
     THEN /\ at' = "idle"
          /\ buffer' = [i \in Memory |->
                          IF i \in Screen THEN Blank ELSE buffer[i]]
     ELSE at' = "aborted" /\ UNCHANGED buffer
  /\ UNCHANGED <<x, y, row, reporting, cut, last, cell, roll, chars>>

\* Mutant: rows and columns are exchanged.
Index_transposed(c, r) == c * height + r

Index(c, r) == r * width + c

\* terminal_putchar of a character, and of '\n'.
PutEntry(c) ==
  /\ at = "idle" /\ chars < MaxChars
  /\ buffer' = [buffer EXCEPT ![Index(x, y)] = c]
  /\ at' = "advance"
  /\ last' = c /\ cell' = Index(x, y)
  /\ roll' = ThreadRoll /\ chars' = chars + 1
  /\ UNCHANGED <<x, y, row, reporting, cut>>

PutNewline ==
  /\ at = "idle" /\ chars < MaxChars
  /\ x' = 0
  /\ at' = "linefeed"
  /\ last' = Newline /\ cell' = Index(x, y)
  /\ roll' = ThreadRoll /\ chars' = chars + 1
  /\ UNCHANGED <<buffer, y, row, reporting, cut>>

\* Mutant: the line is one cell longer.
LineFull_late(c) == c > width

LineFull(c) == c >= width

Advance ==
  /\ at = "advance"
  /\ x' = x + 1
  /\ at' = IF LineFull(x + 1) THEN "wrap" ELSE "idle"
  /\ UNCHANGED <<buffer, y, row, reporting, cut, last, cell, roll, chars>>

Wrap ==
  /\ at = "wrap"
  /\ x' = 0
  /\ at' = "linefeed"
  /\ UNCHANGED <<buffer, y, row, reporting, cut, last, cell, roll, chars>>

\* Mutant: the screen is one row higher.
ScreenFull_late(r) == r > height

ScreenFull(r) == r >= height

LineFeed ==
  /\ at = "linefeed"
  /\ y' = y + 1
  /\ at' = IF ScreenFull(y + 1) THEN "back" ELSE "idle"
  /\ UNCHANGED <<buffer, x, row, reporting, cut, last, cell, roll, chars>>

Back ==
  /\ at = "back"
  /\ y' = y - 1
  /\ at' = "scroll" /\ row' = 1
  /\ UNCHANGED <<buffer, x, reporting, cut, last, cell, roll, chars>>

-----------------------------------------------------------------------------
(* terminal_scrolldown.                                                    *)

LastMoved == height - 1

ScrollRow ==
  /\ at = "scroll" /\ row <= LastMoved
  /\ buffer' = [i \in Memory |-> IF i \div width = row - 1
                                 THEN buffer[i + width] ELSE buffer[i]]
  /\ row' = row + 1
  /\ UNCHANGED <<x, y, at, reporting, cut, last, cell, roll, chars>>

\* Mutant: the row that moved up is not cleared.
Cleared_nothing == {}

Cleared == {i \in Screen : i \div width = height - 1}

\* What was last printed has moved up a row.
ClearRow ==
  /\ at = "scroll" /\ row > LastMoved
  /\ buffer' = [i \in Memory |-> IF i \in Cleared THEN Blank ELSE buffer[i]]
  /\ x' = 0
  /\ at' = "idle"
  /\ cell' = IF cell \in Screen THEN cell - width ELSE cell
  /\ UNCHANGED <<y, row, reporting, cut, last, roll, chars>>

-----------------------------------------------------------------------------
\* isr_handler starts to print; what was being printed is never finished.
Exception ==
  /\ ~reporting /\ at \notin {"off", "aborted"}
  /\ reporting' = TRUE
  /\ cut' = at
  /\ at' = "idle"
  /\ last' = Newline
  /\ roll' = ThreadRoll
  /\ UNCHANGED <<buffer, x, y, row, cell, chars>>

Next ==
  \/ \E flagged, text \in BOOLEAN : terminal_initialize(flagged, text)
  \/ \E c \in Glyphs : PutEntry(c)
  \/ PutNewline
  \/ Advance
  \/ Wrap
  \/ LineFeed
  \/ Back
  \/ ScrollRow
  \/ ClearRow
  \/ Exception

Spec == Init /\ [][Next]_vars

-----------------------------------------------------------------------------
(* Properties.                                                             *)

\* Between two characters the thread leaves the cursor on the screen.  A report
\* may begin with the cursor behind a row, never with it below the screen but
\* when the exception came in between "y += char_height" and "--y".
CursorOnScreen ==
  at = "idle" =>
    /\ ~reporting => x < width
    /\ cut # "back" => y < height

\* The thread never writes behind the screen.
ScreenOnly == ~reporting => \A i \in Memory \ Screen : buffer[i] = "?"

\* What is printed can be read: once a character has been printed it is in a
\* cell of the screen, whatever has scrolled.  A report that comes between
\* "y += char_height" and "--y" is lost: the cursor stays below the screen.
\* One that comes before "x = 0" in the last row loses its first character.
LastCharacterShown ==
  at = "idle" /\ last # Newline /\ cut # "back" =>
    \/ cell \in Screen /\ buffer[cell] = last
    \/ cut = "wrap" /\ cell = width * height

\* To the thread, the terminal is a roll of which the screen is the end: each
\* character it prints takes effect once, in one step, and nothing else does.
Roll == INSTANCE TerminalRoll WITH
          Width  <- width,
          Height <- height,
          rows   <- ThreadRoll.rows,
          column <- ThreadRoll.column

ImplementsRoll == Roll!Spec
=============================================================================
