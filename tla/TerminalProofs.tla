--------------------------- MODULE TerminalProofs ---------------------------
(***************************************************************************)
(* Proofs about the terminal of Terminal, for every size of the screen,    *)
(* any text and an exception before any statement: where the cursor may    *)
(* be, that the last character printed can be read, and that to the thread *)
(* the terminal is the roll of TerminalRoll.                               *)
(***************************************************************************)
EXTENDS Terminal, SequenceTheorems, TLAPS

-----------------------------------------------------------------------------
(* The invariant of the cursor.  CursorOnScreen is not inductive: it says  *)
(* nothing of the statements between two characters.                       *)

Stopped   == {"off", "aborted"}
Statement == {"idle", "advance", "wrap", "linefeed", "back", "scroll"}

TypeOK ==
  /\ buffer \in [Memory -> Cell]
  /\ x \in Nat /\ y \in Nat /\ row \in Nat
  /\ at \in Stopped \cup Statement
  /\ reporting \in BOOLEAN
  /\ cut \in Statement \cup {"none"}
  /\ last \in Glyphs \cup {Newline}
  /\ cell \in Int /\ chars \in Nat

\* The row below those that text is put in: an exception before "--y" leaves
\* the cursor in the row behind the screen for good.
Bottom == IF cut = "back" THEN height + 1 ELSE height

CursorSound ==
  /\ reporting <=> cut # "none"
  /\ at \in Stopped => ~reporting /\ x = 0 /\ y = 0 /\ last = Newline
  /\ at \in {"idle", "advance"} => x < width \/ (cut = "wrap" /\ x = width)
  /\ at = "wrap" /\ ~reporting => x = width
  /\ at \in {"linefeed", "back", "scroll"} => x = 0
  /\ at \in {"idle", "advance", "wrap", "linefeed"} => y < Bottom
  /\ cut = "back" /\ at # "back" => y = height
  /\ at = "back" => y = Bottom
  /\ at = "scroll" => y = Bottom - 1 /\ row \in 1 .. height

CursorInv == TypeOK /\ CursorSound /\ ScreenOnly

-----------------------------------------------------------------------------
(* Cells of rows.                                                          *)

LEMMA Sizes ==
  width \in Nat /\ width > 0 /\ height \in Nat /\ height > 0
BY ScreenAssumption

\* Rows do not overlap: a later row begins after the end of an earlier one.
LEMMA RowsApart ==
  ASSUME NEW q \in Nat, NEW r \in Nat, q < r
  PROVE  q * width \in Nat /\ r * width \in Nat /\ q * width + width <= r * width
<1>1. q * width \in Nat /\ r * width \in Nat /\ (q + 1) * width = q * width + width
  BY Sizes
<1>2. (q + 1) * width <= r * width
  BY Sizes
<1>3. QED
  BY <1>1, <1>2, Sizes

\* The cell in column c of row r, and where it is.
LEMMA CellOfRow ==
  ASSUME NEW r \in Nat, NEW c \in 0 .. width - 1
  PROVE  /\ r * width \in Nat
         /\ r * width + c \in Nat
         /\ r < height => r * width + c \in Screen
         /\ r <= height => r * width + c \in Memory
<1>1. r * width \in Nat /\ height * width \in Nat /\ height * width = width * height
      /\ width * (height + 1) = height * width + width
  BY Sizes
<1>2. r < height => r * width + width <= height * width
  BY RowsApart, Sizes
<1>3. r <= height => r * width <= height * width
  BY <1>1, <1>2, Sizes
<1>4. QED
  BY <1>1, <1>2, <1>3, Sizes DEF Screen, Memory

\* The row of a cell is the quotient that terminal_scrolldown's addresses
\* amount to.
LEMMA RowOfCell ==
  ASSUME NEW r \in Nat, NEW c \in 0 .. width - 1
  PROVE  (r * width + c) \div width = r
<1> DEFINE i == r * width + c
           q == i \div width
<1>1. i \in Nat /\ r * width \in Nat
  BY CellOfRow
<1>2. q \in Nat /\ q * width <= i /\ i < q * width + width
  BY <1>1, Sizes
<1>3. ~(q < r)
  BY <1>1, <1>2, RowsApart, Sizes
<1>4. ~(r < q)
  BY <1>1, <1>2, RowsApart, Sizes
<1>5. QED
  BY <1>2, <1>3, <1>4

\* Every cell of the memory is a cell of one of its rows.
LEMMA CellInRow ==
  ASSUME NEW i \in Memory
  PROVE  /\ i \div width \in 0 .. height
         /\ i \in Screen => i \div width \in 0 .. height - 1
         /\ \E c \in 0 .. width - 1 : i = (i \div width) * width + c
<1> DEFINE q == i \div width
<1>1. i \in Nat /\ i < height * width + width
      /\ (i \in Screen => i < height * width) /\ height * width \in Nat
  BY Sizes DEF Memory, Screen
<1>2. q \in Nat /\ q * width \in Nat /\ q * width <= i /\ i < q * width + width
  BY <1>1, Sizes
<1>3. i - q * width \in 0 .. width - 1 /\ i = q * width + (i - q * width)
  BY <1>1, <1>2, Sizes
<1>4. ~(height < q)
  BY <1>1, <1>2, RowsApart, Sizes
<1>5. i \in Screen => q # height
  BY <1>1, <1>2
<1>6. \E c \in 0 .. width - 1 : i = q * width + c
  BY <1>3
<1>7. QED
  BY <1>2, <1>4, <1>5, <1>6, Sizes

-----------------------------------------------------------------------------
(* The cursor.                                                             *)

LEMMA CursorInit == Init => CursorInv
<1> SUFFICES ASSUME Init PROVE CursorInv
  OBVIOUS
<1>1. TypeOK
  <2>1. buffer \in [Memory -> Cell]
    BY DEF Init, Cell
  <2>2. /\ x = 0 /\ y = 0 /\ at = "off" /\ row = 0 /\ reporting = FALSE
        /\ cut = "none" /\ last = Newline /\ cell = 0 /\ chars = 0
    BY DEF Init
  <2>3. at \in Stopped \cup Statement /\ cut \in Statement \cup {"none"}
    BY <2>2 DEF Stopped
  <2>4. reporting \in BOOLEAN
    BY <2>2
  <2>5. last \in Glyphs \cup {Newline}
    BY <2>2
  <2>6. QED
    BY <2>1, <2>2, <2>3, <2>4, <2>5 DEF TypeOK
<1>2. CursorSound
  BY Sizes DEF Init, CursorSound, Stopped, Bottom
<1>3. ScreenOnly
  BY DEF Init, ScreenOnly
<1>4. QED
  BY <1>1, <1>2, <1>3 DEF CursorInv

\* No statement changes the type of a variable.
LEMMA TypeStep == TypeOK /\ CursorSound /\ Next => TypeOK'
<1> SUFFICES ASSUME TypeOK, CursorSound, Next PROVE TypeOK'
  OBVIOUS
<1> USE Sizes DEF TypeOK, Stopped, Statement
<1>1. ASSUME NEW flagged \in BOOLEAN, NEW text \in BOOLEAN,
             terminal_initialize(flagged, text)
      PROVE  TypeOK'
  BY <1>1 DEF terminal_initialize, Cell
<1>2. ASSUME NEW c \in Glyphs, PutEntry(c)
      PROVE  TypeOK'
  <2>1. c \in Cell /\ Index(x, y) \in Int
    BY DEF Cell, Index
  <2>2. buffer' \in [Memory -> Cell]
    BY <1>2, <2>1 DEF PutEntry
  <2>3. QED
    BY <1>2, <2>1, <2>2 DEF PutEntry
<1>3. CASE PutNewline
  BY <1>3 DEF PutNewline, Index
<1>4. CASE Advance \/ Wrap \/ LineFeed
  BY <1>4 DEF Advance, Wrap, LineFeed
<1>5. CASE Back
  BY <1>5 DEF Back, CursorSound, Bottom
<1>6. CASE ScrollRow
  <2>1. ASSUME NEW i \in Memory, i \div width = row - 1
        PROVE  i + width \in Memory
    <3>1. row - 1 \in Nat /\ row - 1 < height
      BY <1>6 DEF ScrollRow, LastMoved, CursorSound
    <3>2. PICK c \in 0 .. width - 1 : i = (row - 1) * width + c
      BY <2>1, CellInRow
    <3>3. row * width + c \in Memory
      BY <3>1, CellOfRow
    <3>4. QED
      BY <3>1, <3>2, <3>3
  <2>2. buffer' \in [Memory -> Cell]
    BY <1>6, <2>1 DEF ScrollRow
  <2>3. QED
    BY <1>6, <2>2 DEF ScrollRow
<1>7. CASE ClearRow
  BY <1>7 DEF ClearRow, Cell
<1>8. CASE Exception
  BY <1>8 DEF Exception
<1>9. QED
  BY <1>1, <1>2, <1>3, <1>4, <1>5, <1>6, <1>7, <1>8 DEF Next

LEMMA CursorStep == TypeOK /\ CursorSound /\ Next => CursorSound'
<1> SUFFICES ASSUME TypeOK, CursorSound, Next PROVE CursorSound'
  OBVIOUS
<1> USE Sizes DEF TypeOK, Stopped, Statement, CursorSound, Bottom
<1>1. ASSUME NEW flagged \in BOOLEAN, NEW text \in BOOLEAN,
             terminal_initialize(flagged, text)
      PROVE  CursorSound'
  BY <1>1 DEF terminal_initialize
<1>2. ASSUME NEW c \in Glyphs, PutEntry(c)
      PROVE  CursorSound'
  BY <1>2 DEF PutEntry
<1>3. CASE PutNewline
  BY <1>3 DEF PutNewline
<1>4. CASE Advance
  BY <1>4 DEF Advance, LineFull
<1>5. CASE Wrap
  BY <1>5 DEF Wrap
<1>6. CASE LineFeed
  BY <1>6 DEF LineFeed, ScreenFull
<1>7. CASE Back
  BY <1>7 DEF Back
<1>8. CASE ScrollRow
  BY <1>8 DEF ScrollRow, LastMoved
<1>9. CASE ClearRow
  BY <1>9 DEF ClearRow
<1>10. CASE Exception
  BY <1>10 DEF Exception
<1>11. QED
  BY <1>1, <1>2, <1>3, <1>4, <1>5, <1>6, <1>7, <1>8, <1>9, <1>10 DEF Next

\* Only PutEntry, at the cursor, and terminal_scrolldown write cells.
LEMMA ScreenStep == CursorInv /\ Next => ScreenOnly'
<1> SUFFICES ASSUME CursorInv, Next, ~reporting',
                    NEW i \in Memory \ Screen
             PROVE  buffer'[i] = "?"
  BY DEF ScreenOnly
<1>1. TypeOK /\ CursorSound /\ ScreenOnly
  BY DEF CursorInv
<1>2. ~reporting
  BY <1>1 DEF Next, TypeOK, terminal_initialize, PutEntry, PutNewline, Advance, Wrap,
     LineFeed, Back, ScrollRow, ClearRow, Exception
<1>3. buffer[i] = "?"
  BY <1>1, <1>2 DEF ScreenOnly
<1>4. ASSUME NEW c \in Glyphs, PutEntry(c)
      PROVE  buffer'[i] = "?"
  <2>1. x \in 0 .. width - 1 /\ y \in Nat /\ y < height
    BY <1>1, <1>2, <1>4, Sizes DEF PutEntry, CursorSound, TypeOK, Bottom
  <2>2. Index(x, y) \in Screen
    BY <2>1, CellOfRow DEF Index
  <2>3. QED
    BY <1>1, <1>3, <1>4, <2>2 DEF PutEntry, TypeOK
<1>5. CASE ScrollRow
  <2>1. row - 1 \in Nat /\ row - 1 < height
    BY <1>1, <1>5, Sizes DEF ScrollRow, LastMoved, CursorSound, TypeOK
  <2>2. i \div width # row - 1
    <3>1. PICK c \in 0 .. width - 1 : i = (i \div width) * width + c
      BY CellInRow
    <3>2. (row - 1) * width + c \in Screen
      BY <2>1, CellOfRow
    <3>3. QED
      BY <3>1, <3>2
  <2>3. QED
    BY <1>3, <1>5, <2>2 DEF ScrollRow
<1>6. QED
  BY <1>3, <1>4, <1>5 DEF Next, terminal_initialize, PutNewline, Advance, Wrap,
     LineFeed, Back, ClearRow, Cleared, Exception

\* The cursor invariant holds in every state.
LEMMA SpecCursorInv == Spec => []CursorInv
<1>1. CursorInv /\ UNCHANGED vars => CursorInv'
  BY DEF CursorInv, TypeOK, CursorSound, ScreenOnly, vars, Bottom
<1>2. CursorInv /\ [Next]_vars => CursorInv'
  BY <1>1, TypeStep, CursorStep, ScreenStep DEF CursorInv
<1>3. QED
  BY <1>2, CursorInit, PTL DEF Spec

\* Between two characters the cursor of the thread is on the screen, and that
\* of a report never below it unless the exception came before "--y"
\* (terminal.c:58-87), for every size of the screen.
THEOREM SpecCursorOnScreen == Spec => []CursorOnScreen
<1>1. CursorInv => CursorOnScreen
  BY Sizes DEF CursorInv, TypeOK, CursorSound, CursorOnScreen, Bottom
<1>2. QED
  BY <1>1, SpecCursorInv, PTL

\* What the thread prints never reaches the memory behind the screen
\* (terminal.c:46-111).
THEOREM SpecScreenOnly == Spec => []ScreenOnly
<1>1. CursorInv => ScreenOnly
  BY DEF CursorInv
<1>2. QED
  BY <1>1, SpecCursorInv, PTL

-----------------------------------------------------------------------------
(* The invariant of the last character printed.                            *)

\* It stands in its cell, unless that is the first one behind the screen.
Stands == cell \in Screen => buffer[cell] = last

\* Its cell is the last one of row r, or the one behind it.
EndOfRow(r) == cell = Index(width - 1, r) \/ (cut = "wrap" /\ cell = Index(width, r))

\* A screen with one row is cleared as soon as it is full.
LastSound ==
  last # Newline /\ cut # "back" =>
    /\ at = "idle" => /\ cell \in Screen \/ (cut = "wrap" /\ cell = width * height)
                      /\ Stands
    /\ at = "advance" => cell = Index(x, y) /\ Stands
    /\ at \in {"wrap", "linefeed"} => EndOfRow(y) /\ Stands
    /\ at = "back" => EndOfRow(height - 1) /\ Stands
    /\ at = "scroll" =>
         /\ EndOfRow(height - 1)
         /\ cell \in Screen =>
              buffer[IF row = height THEN cell - width ELSE cell] = last

\* Where the first cell behind a row is: in the next row, or behind the screen.
LEMMA BehindRow ==
  ASSUME NEW r \in Nat, r < height
  PROVE  /\ Index(width, r) \in Int /\ Index(width - 1, r) \in Screen
         /\ Index(width, r) = (r + 1) * width
         /\ r + 1 < height => Index(width, r) \in Screen
         /\ r + 1 = height => Index(width, r) = width * height
                             /\ Index(width, r) \notin Screen
<1>1. Index(width - 1, r) \in Screen
  BY CellOfRow, Sizes DEF Index
<1>2. r * width \in Nat /\ (r + 1) * width = r * width + width
  BY Sizes
<1>3. ASSUME r + 1 < height
      PROVE  (r + 1) * width + 0 \in Screen
  <2>1. 0 \in 0 .. width - 1 /\ r + 1 \in Nat
    BY Sizes
  <2>2. QED
    BY <1>3, <2>1, CellOfRow
<1>4. r + 1 = height => (r + 1) * width = width * height
  BY Sizes
<1>5. width * height \notin Screen
  BY Sizes DEF Screen
<1>6. QED
  BY <1>1, <1>2, <1>3, <1>4, <1>5, Sizes DEF Index

\* The last cell of the last row, which terminal_scrolldown moves up.
LEMMA LastCell ==
  ASSUME height > 1
  PROVE  /\ Index(width - 1, height - 1) \div width = height - 1
         /\ Index(width - 1, height - 1) - width = Index(width - 1, height - 2)
         /\ Index(width - 1, height - 2) \in Screen
         /\ Index(width - 1, height - 2) \div width = height - 2
         /\ Index(width - 1, height - 1) \in Screen
<1> DEFINE h == height - 1
           w == width - 1
<1>1. h \in Nat /\ h - 1 \in Nat /\ h < height /\ h - 1 < height
      /\ w \in 0 .. width - 1
  BY Sizes
<1>2. Index(w, h) \in Screen /\ Index(w, h) \div width = h
  BY <1>1, CellOfRow, RowOfCell DEF Index
<1>3. Index(w, h - 1) \in Screen /\ Index(w, h - 1) \div width = h - 1
  BY <1>1, CellOfRow, RowOfCell DEF Index
<1>4. Index(w, h) - width = Index(w, h - 1)
  <2>1. h * width = (h - 1) * width + width /\ (h - 1) * width \in Nat
    BY <1>1, Sizes
  <2>2. QED
    BY <1>1, <2>1, Sizes DEF Index
<1>5. h - 1 = height - 2
  BY Sizes
<1>6. QED
  BY <1>2, <1>3, <1>4, <1>5

LEMMA LastInit == Init => LastSound
BY DEF Init, LastSound

LEMMA LastStep ==
  ASSUME height > 1, CursorInv, LastSound, Next
  PROVE  LastSound'
<1>1. TypeOK /\ CursorSound
  BY DEF CursorInv
<1> USE DEF LastSound, Stands
<1>2. ASSUME NEW flagged \in BOOLEAN, NEW text \in BOOLEAN,
             terminal_initialize(flagged, text)
      PROVE  LastSound'
  BY <1>1, <1>2 DEF terminal_initialize, CursorSound, Stopped
<1>3. ASSUME NEW c \in Glyphs, PutEntry(c)
      PROVE  LastSound'
  <2>1. Index(x, y) \in Screen => Index(x, y) \in Memory
    BY Sizes DEF Screen, Memory
  <2>2. Index(x, y) \in Screen => buffer'[Index(x, y)] = c
    BY <1>1, <1>3, <2>1 DEF PutEntry, TypeOK
  <2>3. QED
    BY <1>3, <2>2 DEF PutEntry, Index
<1>4. CASE PutNewline
  BY <1>4 DEF PutNewline
<1>5. CASE Advance
  <2>1. x + 1 < width => Index(x, y) \in Screen \/ cut = "back"
    BY <1>1, <1>5, CellOfRow, Sizes DEF Advance, CursorSound, Bottom, TypeOK, Index
  <2>2. x = width - 1 \/ x + 1 < width \/ (cut = "wrap" /\ x = width)
    BY <1>1, <1>5, Sizes DEF Advance, CursorSound, TypeOK
  <2>3. at' = IF x + 1 < width THEN "idle" ELSE "wrap"
    BY <1>1, <1>5, Sizes DEF Advance, LineFull, TypeOK
  <2>4. QED
    BY <1>5, <2>1, <2>2, <2>3 DEF Advance, EndOfRow, Index
<1>6. CASE Wrap
  BY <1>6 DEF Wrap, EndOfRow, Index
<1>7. CASE LineFeed
  <2>1. SUFFICES ASSUME last # Newline, cut # "back"
                 PROVE  LastSound'
    BY <1>7 DEF LineFeed
  <2>2. y \in Nat /\ y < height /\ height \in Nat
    BY <1>1, <1>7, <2>1, Sizes DEF LineFeed, CursorSound, Bottom, TypeOK
  <2>3. at' = IF y + 1 < height THEN "idle" ELSE "back"
    BY <1>7, <2>2 DEF LineFeed, ScreenFull
  <2>4. EndOfRow(y) /\ Stands
    BY <1>7, <2>1 DEF LineFeed
  <2>5. y + 1 < height => cell \in Screen
    BY <2>2, <2>4, BehindRow DEF EndOfRow
  <2>6. ~(y + 1 < height) => y = height - 1
    BY <2>2
  <2>7. QED
    BY <1>7, <2>2, <2>3, <2>4, <2>5, <2>6 DEF LineFeed, EndOfRow, Index
<1>8. CASE Back
  <2>1. height # 1 /\ height - 1 # 0
    BY Sizes
  <2>2. cell \in Screen => cell \in Memory
    BY Sizes DEF Screen, Memory
  <2>3. QED
    BY <1>8, <2>1 DEF Back, EndOfRow, Index
<1>9. CASE ScrollRow
  <2>1. SUFFICES ASSUME last # Newline, cut # "back", cell \in Screen
                 PROVE  buffer'[IF row + 1 = height THEN cell - width ELSE cell] = last
    BY <1>9 DEF ScrollRow, EndOfRow, Index
  <2>2. row \in 1 .. height - 1 /\ row - 1 \in Nat
    BY <1>1, <1>9, Sizes DEF ScrollRow, LastMoved, CursorSound, TypeOK
  <2>3. cell = Index(width - 1, height - 1) /\ buffer[cell] = last
    <3>1. height - 1 \in Nat /\ height - 1 < height /\ (height - 1) + 1 = height
      BY Sizes
    <3>2. Index(width, height - 1) \notin Screen
      BY <3>1, BehindRow
    <3>3. row # height
      BY <2>2, Sizes
    <3>4. QED
      BY <1>9, <2>1, <3>2, <3>3 DEF ScrollRow, EndOfRow
  <2>4. cell \in Memory /\ cell - width \in Memory /\ cell - width + width = cell
    BY <2>3, LastCell, Sizes DEF Screen, Memory
  <2>5. cell \div width = height - 1 /\ (cell - width) \div width = height - 2
    BY <2>3, LastCell
  <2>6. CASE row + 1 = height
    <3>1. (cell - width) \div width = row - 1
      BY <2>2, <2>5, <2>6, Sizes
    <3>2. buffer'[cell - width] = buffer[cell - width + width]
      BY <1>9, <2>4, <3>1 DEF ScrollRow
    <3>3. QED
      BY <2>3, <2>4, <2>6, <3>2
  <2>7. CASE row + 1 # height
    <3>1. cell \div width # row - 1
      BY <2>2, <2>5, <2>7, Sizes
    <3>2. buffer'[cell] = buffer[cell]
      BY <1>9, <2>4, <3>1 DEF ScrollRow
    <3>3. QED
      BY <2>3, <2>7, <3>2
  <2>8. QED
    BY <2>6, <2>7
<1>10. CASE ClearRow
  <2>1. SUFFICES ASSUME last # Newline, cut # "back"
                 PROVE  /\ cell' \in Screen \/ (cut = "wrap" /\ cell' = width * height)
                        /\ cell' \in Screen => buffer'[cell'] = last
    BY <1>10 DEF ClearRow
  <2>2. row = height
    BY <1>1, <1>10, Sizes DEF ClearRow, LastMoved, CursorSound, TypeOK
  <2>3. height - 1 \in Nat /\ height - 1 < height /\ (height - 1) + 1 = height
    BY Sizes
  <2>4. CASE cell \in Screen
    <3>1. Index(width, height - 1) \notin Screen
      BY <2>3, BehindRow
    <3>2. cell = Index(width - 1, height - 1) /\ buffer[cell - width] = last
      BY <1>10, <2>1, <2>2, <2>4, <3>1 DEF ClearRow, EndOfRow
    <3>3. cell - width \in Screen /\ (cell - width) \div width = height - 2
      BY <3>2, LastCell
    <3>4. cell - width \in Memory /\ cell - width \notin Cleared
      BY <3>3, Sizes DEF Screen, Memory, Cleared
    <3>5. QED
      BY <1>10, <2>4, <3>2, <3>3, <3>4 DEF ClearRow
  <2>5. CASE cell \notin Screen
    <3>1. cut = "wrap" /\ cell = width * height
      BY <1>10, <2>1, <2>3, <2>5, BehindRow DEF ClearRow, EndOfRow
    <3>2. QED
      BY <1>10, <2>5, <3>1 DEF ClearRow
  <2>6. QED
    BY <2>4, <2>5
<1>11. CASE Exception
  BY <1>11 DEF Exception
<1>12. QED
  BY <1>2, <1>3, <1>4, <1>5, <1>6, <1>7, <1>8, <1>9, <1>10, <1>11 DEF Next

\* Whatever has scrolled since, the last character printed is in a cell of the
\* screen, on every screen with more than one row (terminal.c:58-111): one row
\* is cleared as soon as it is full.
THEOREM SpecLastCharacterShown ==
  ASSUME height > 1
  PROVE  Spec => []LastCharacterShown
<1>1. LastSound => LastCharacterShown
  BY DEF LastSound, Stands, LastCharacterShown
<1>2. LastSound /\ UNCHANGED vars => LastSound'
  BY DEF LastSound, Stands, EndOfRow, Index, vars
<1>3. CursorInv /\ LastSound /\ [Next]_vars => LastSound'
  BY <1>2, LastStep
<1>4. QED
  BY <1>1, <1>3, LastInit, SpecCursorInv, PTL DEF Spec

-----------------------------------------------------------------------------
(* The invariant of the roll: what is on the screen while a character of   *)
(* the thread is being printed, in terms of the roll before it.            *)

Line     == [1 .. width -> Cell]
BlankRow == [i \in 1 .. width |-> Blank]

\* The roll, once the character being printed has been put in its cell.
Written ==
  IF last = Newline THEN roll.rows
  ELSE [roll.rows EXCEPT ![Len(roll.rows)][roll.column + 1] = last]

\* The rows below the cursor have not been used.
BlankBelow == \A r \in y + 1 .. height - 1 : Row(r) = BlankRow

\* The roll is that of before the character, and the screen shows it with the
\* character written; terminal_scrolldown has moved up the rows before "row".
Printing ==
  /\ roll.rows \in Seq(Line) /\ roll.column \in 0 .. width - 1
  /\ Len(roll.rows) = IF at = "back" THEN y ELSE y + 1
  /\ at = "advance" => roll.column = x
  /\ at \in {"advance", "wrap"} => last # Newline
  /\ at # "advance" => last = Newline \/ roll.column + 1 = width
  /\ \A r \in 1 .. Len(roll.rows) :
       Row(r - 1) = IF at = "scroll" /\ r < row THEN Written[r + 1] ELSE Written[r]

RollSound ==
  ~reporting /\ at # "aborted" =>
    /\ at = "off" => roll = [rows |-> <<BlankRow>>, column |-> 0]
    /\ at # "off" => BlankBelow
    /\ at \notin {"off", "idle"} => Printing

-----------------------------------------------------------------------------
(* What the statements do to the rows.                                     *)

LEMMA RowCells ==
  ASSUME NEW r \in Nat, r <= height, NEW i \in 1 .. width
  PROVE  /\ r * width \in Nat
         /\ r * width + i - 1 \in Memory
         /\ (r * width + i - 1) \div width = r
         /\ r < height => r * width + i - 1 \in Screen
<1> DEFINE c == i - 1
<1>1. c \in 0 .. width - 1
  BY Sizes
<1>2. r * width \in Nat /\ r * width + c \in Memory
      /\ (r < height => r * width + c \in Screen)
  BY <1>1, CellOfRow
<1>3. (r * width + c) \div width = r
  BY <1>1, RowOfCell
<1>4. r * width + i - 1 = r * width + c
  BY <1>2, Sizes
<1>5. QED
  BY <1>2, <1>3, <1>4

LEMMA RowIsLine ==
  ASSUME TypeOK, NEW r \in Nat, r <= height
  PROVE  Row(r) \in Line
BY RowCells DEF Row, Line, TypeOK

\* terminal_putentryat writes one cell of one row.
LEMMA RowPut ==
  ASSUME TypeOK, NEW c, x < width, y < height,
         buffer' = [buffer EXCEPT ![Index(x, y)] = c],
         NEW r \in Nat, r < height
  PROVE  Row(r)' = IF r = y THEN [Row(r) EXCEPT ![x + 1] = c] ELSE Row(r)
<1>1. x \in Nat /\ y \in Nat /\ x \in 0 .. width - 1 /\ x + 1 \in 1 .. width
  BY Sizes DEF TypeOK
<1>2. Index(x, y) \in Memory /\ Index(x, y) \div width = y /\ y * width \in Nat
  <2>1. y <= height
    BY <1>1, Sizes
  <2>2. QED
    BY <1>1, <2>1, CellOfRow, RowOfCell DEF Index
<1>3. ASSUME NEW i \in 1 .. width
      PROVE  /\ r * width + i - 1 \in Memory
             /\ (r * width + i - 1 = Index(x, y)) <=> (r = y /\ i = x + 1)
  <2>1. r <= height
    BY Sizes
  <2>2. /\ r * width \in Nat /\ r * width + i - 1 \in Memory
        /\ (r * width + i - 1) \div width = r
    BY <2>1, RowCells
  <2>3. ASSUME r = y
        PROVE  (r * width + i - 1 = y * width + x) <=> (i = x + 1)
    BY <1>1, <1>2, <2>2, <2>3, Sizes
  <2>4. QED
    BY <1>2, <2>2, <2>3 DEF Index
<1>4. ASSUME NEW i \in 1 .. width
      PROVE  buffer'[r * width + i - 1] =
               IF r = y /\ i = x + 1 THEN c ELSE buffer[r * width + i - 1]
  BY <1>2, <1>3 DEF TypeOK
<1>5. QED
  BY <1>4 DEF Row

\* A step of the loop of terminal_scrolldown copies one row.
LEMMA RowScrolled ==
  ASSUME TypeOK, ScrollRow, row >= 1, NEW r \in Nat, r < height
  PROVE  Row(r)' = IF r = row - 1 THEN Row(r + 1) ELSE Row(r)
<1>1. row \in Nat /\ row < height
  BY Sizes DEF TypeOK, ScrollRow, LastMoved
<1>2. ASSUME NEW i \in 1 .. width
      PROVE  buffer'[r * width + i - 1] =
               IF r = row - 1 THEN buffer[(r + 1) * width + i - 1]
               ELSE buffer[r * width + i - 1]
  <2>1. r * width \in Nat /\ r * width + i - 1 \in Memory
        /\ (r * width + i - 1) \div width = r
    <3>1. r <= height
      BY Sizes
    <3>2. QED
      BY <3>1, RowCells
  <2>2. (r + 1) * width + i - 1 = r * width + i - 1 + width
    BY <2>1, Sizes
  <2>3. QED
    BY <2>1, <2>2 DEF ScrollRow
<1>3. QED
  BY <1>2 DEF Row

LEMMA RowCleared ==
  ASSUME ClearRow, NEW r \in Nat, r < height
  PROVE  Row(r)' = IF r = height - 1 THEN BlankRow ELSE Row(r)
<1>1. ASSUME NEW i \in 1 .. width
      PROVE  buffer'[r * width + i - 1] =
               IF r = height - 1 THEN Blank ELSE buffer[r * width + i - 1]
  <2>1. r <= height
    BY Sizes
  <2>2. r * width + i - 1 \in Screen /\ r * width + i - 1 \in Memory
        /\ (r * width + i - 1) \div width = r
    BY <2>1, RowCells
  <2>3. r * width + i - 1 \in Cleared <=> r = height - 1
    BY <2>2 DEF Cleared
  <2>4. QED
    BY <2>2, <2>3 DEF ClearRow
<1>2. QED
  BY <1>1 DEF Row, BlankRow

LEMMA RowInitialized ==
  ASSUME terminal_initialize(TRUE, TRUE), NEW r \in Nat, r < height
  PROVE  Row(r)' = BlankRow
<1>1. ASSUME NEW i \in 1 .. width
      PROVE  buffer'[r * width + i - 1] = Blank
  BY RowCells, Sizes DEF terminal_initialize
<1>2. QED
  BY <1>1 DEF Row, BlankRow

-----------------------------------------------------------------------------
(* The roll.                                                               *)

LEMMA WrittenRows ==
  ASSUME CursorInv, Printing
  PROVE  /\ Written \in Seq(Line) /\ Len(Written) = Len(roll.rows)
         /\ Len(roll.rows) \in Nat /\ Len(roll.rows) > 0
<1> DEFINE n == Len(roll.rows)
           k == roll.column + 1
<1>1. TypeOK /\ CursorSound
  BY DEF CursorInv
<1>2. roll.rows \in Seq(Line) /\ n \in Nat
  BY DEF Printing
<1>3. n > 0
  BY <1>1, Sizes DEF Printing, CursorSound, Bottom, TypeOK
<1>4. ASSUME last # Newline
      PROVE  [roll.rows[n] EXCEPT ![k] = last] \in Line
  <2>1. roll.rows[n] \in Line
    BY <1>2, <1>3
  <2>2. last \in Cell
    BY <1>1, <1>4 DEF TypeOK, Cell
  <2>3. QED
    BY <2>1, <2>2 DEF Line
<1>5. CASE last = Newline
  BY <1>2, <1>3, <1>5 DEF Written
<1>6. CASE last # Newline
  <2>1. Written = [roll.rows EXCEPT ![n] = [roll.rows[n] EXCEPT ![k] = last]]
    BY <1>2, <1>6 DEF Written
  <2>2. QED
    BY <1>2, <1>3, <1>4, <1>6, <2>1, ExceptSeq
<1>7. QED
  BY <1>5, <1>6

LEMMA SeqIsFunction ==
  ASSUME NEW S, NEW s \in Seq(S)
  PROVE  s = [i \in 1 .. Len(s) |-> s[i]]
OBVIOUS

\* The rows of a roll with a blank row added.
LEMMA FedRows ==
  ASSUME NEW q \in Seq(Line), NEW n \in Nat, Len(q) + 1 = n
  PROVE  Append(q, BlankRow) = [r \in 1 .. n |-> IF r = n THEN BlankRow ELSE q[r]]
<1> DEFINE fed == Append(q, BlankRow)
<1>1. BlankRow \in Line
  BY DEF BlankRow, Line, Cell
<1>2. fed \in Seq(Line) /\ Len(fed) = n
      /\ \A r \in 1 .. n : fed[r] = IF r = n THEN BlankRow ELSE q[r]
  BY <1>1, AppendProperties
<1>3. fed = [r \in 1 .. n |-> fed[r]]
  BY <1>2, SeqIsFunction
<1>4. QED
  BY <1>2, <1>3

\* What is on the screen is a roll between two characters.
LEMMA ScreenIsRoll ==
  ASSUME TypeOK, y < height
  PROVE  /\ RollNow.rows \in Seq(Line) /\ Len(RollNow.rows) = y + 1
         /\ RollNow.column = x
         /\ \A r \in 1 .. y + 1 : RollNow.rows[r] = Row(r - 1)
<1>1. \A r \in 1 .. y + 1 : Row(r - 1) \in Line
  BY RowIsLine, Sizes DEF TypeOK
<1>2. RollNow.rows = [r \in 1 .. y + 1 |-> Row(r - 1)] /\ RollNow.column = x
  BY DEF RollNow
<1>3. y + 1 \in Nat
  BY DEF TypeOK
<1>4. QED
  BY <1>1, <1>2, <1>3

LEMMA RollInit == Init => RollSound
BY DEF Init, RollSound, BlankRow

LEMMA RollStep ==
  ASSUME CursorInv, RollSound, Next
  PROVE  RollSound'
<1>1. TypeOK /\ CursorSound
  BY DEF CursorInv
<1>2. SUFFICES ASSUME ~reporting', at' # "aborted", at' # "off"
               PROVE  BlankBelow' /\ (at' # "idle" => Printing')
  <2>1. at' = "off" => UNCHANGED <<at, roll, reporting>>
    BY <1>1 DEF Next, TypeOK, Statement, Stopped, terminal_initialize, PutEntry,
       PutNewline, Advance, Wrap, LineFeed, Back, ScrollRow, ClearRow, Exception
  <2>2. QED
    BY <2>1 DEF RollSound
<1>3. ASSUME NEW flagged \in BOOLEAN, NEW text \in BOOLEAN,
             terminal_initialize(flagged, text)
      PROVE  BlankBelow' /\ (at' # "idle" => Printing')
  <2>1. at' = "idle" /\ terminal_initialize(TRUE, TRUE)
    BY <1>2, <1>3 DEF terminal_initialize
  <2>2. BlankBelow'
    BY <1>1, <1>3, <2>1, RowInitialized, Sizes DEF BlankBelow, terminal_initialize, TypeOK
  <2>3. QED
    BY <2>1, <2>2
<1>4. ASSUME ~reporting, at \notin Stopped
      PROVE  BlankBelow
  BY <1>4 DEF RollSound, Stopped
<1>5. ASSUME ~reporting, at \in Statement \ {"idle"}
      PROVE  Printing
  BY <1>5 DEF RollSound, Statement
<1>6. ASSUME NEW c \in Glyphs, PutEntry(c)
      PROVE  BlankBelow' /\ Printing'
  <2>1. ~reporting /\ x < width /\ y < height /\ x \in Nat /\ y \in Nat
    BY <1>1, <1>2, <1>6 DEF PutEntry, CursorSound, Bottom, TypeOK
  <2>2. \A r \in 0 .. height - 1 :
          Row(r)' = IF r = y THEN [Row(r) EXCEPT ![x + 1] = c] ELSE Row(r)
    <3>1. buffer' = [buffer EXCEPT ![Index(x, y)] = c]
      BY <1>6 DEF PutEntry
    <3>2. \A r \in 0 .. height - 1 : r \in Nat /\ r < height
      BY Sizes
    <3>3. QED
      BY <1>1, <2>1, <3>1, <3>2, RowPut
  <2>3. BlankBelow'
    <3>1. BlankBelow
      BY <1>4, <1>6, <2>1 DEF PutEntry, Stopped
    <3>2. QED
      BY <1>6, <2>1, <2>2, <3>1, Sizes DEF PutEntry, BlankBelow
  <2>4. roll' = RollNow /\ last' = c /\ at' = "advance" /\ c # Newline
        /\ x' = x /\ y' = y
    BY <1>6, <2>1, GlyphsAssumption DEF PutEntry, ThreadRoll
  <2>5. \A r \in 1 .. y + 1 : Row(r - 1)' = Written'[r]
    <3>1. Written' = [RollNow.rows EXCEPT ![y + 1][x + 1] = c]
      BY <1>1, <2>1, <2>4, ScreenIsRoll DEF Written
    <3>2. ASSUME NEW r \in 1 .. y + 1
          PROVE  Row(r - 1)' = Written'[r]
      <4>1. RollNow.rows[r] = Row(r - 1) /\ RollNow.rows \in Seq(Line)
            /\ Len(RollNow.rows) = y + 1
        BY <1>1, <2>1, ScreenIsRoll
      <4>2. Written'[r] = IF r = y + 1 THEN [Row(r - 1) EXCEPT ![x + 1] = c] ELSE Row(r - 1)
        BY <2>1, <3>1, <4>1
      <4>3. r - 1 \in 0 .. height - 1 /\ (r - 1 = y <=> r = y + 1)
        BY <2>1, Sizes
      <4>4. QED
        BY <2>2, <4>2, <4>3
    <3>3. QED
      BY <3>2
  <2>6. QED
    BY <1>1, <2>1, <2>3, <2>4, <2>5, ScreenIsRoll, Sizes DEF Printing
<1>7. CASE PutNewline
  <2>1. ~reporting /\ x < width /\ y < height /\ x \in Nat /\ y \in Nat
    BY <1>1, <1>2, <1>7 DEF PutNewline, CursorSound, Bottom, TypeOK
  <2>2. \A r : Row(r)' = Row(r)
    BY <1>7 DEF PutNewline, Row
  <2>3. BlankBelow'
    BY <1>4, <1>7, <2>1, <2>2 DEF PutNewline, Stopped, BlankBelow
  <2>4. roll' = RollNow /\ last' = Newline /\ at' = "linefeed" /\ y' = y
    BY <1>7, <2>1 DEF PutNewline, ThreadRoll
  <2>5. Written' = RollNow.rows
    BY <2>4 DEF Written
  <2>6. QED
    BY <1>1, <2>1, <2>2, <2>3, <2>4, <2>5, ScreenIsRoll, Sizes DEF Printing
<1>8. ASSUME Advance \/ Wrap \/ LineFeed \/ Back
      PROVE  BlankBelow' /\ (at' # "idle" => Printing')
  <2>1. ~reporting /\ at \in Statement \ {"idle"} /\ y \in Nat
    BY <1>1, <1>2, <1>8 DEF Advance, Wrap, LineFeed, Back, Statement, TypeOK
  <2>2. Printing /\ BlankBelow
    BY <2>1, <1>4, <1>5 DEF Statement, Stopped
  <2>3. (\A r : Row(r)' = Row(r)) /\ UNCHANGED <<last, roll>>
    BY <1>8 DEF Advance, Wrap, LineFeed, Back, Row
  <2>4. Written' = Written
    BY <2>3 DEF Written
  <2>5. BlankBelow'
    <3>1. y' >= y \/ y' + 1 >= height
      BY <1>1, <1>8, Sizes DEF Advance, Wrap, LineFeed, Back, CursorSound, Bottom, TypeOK
    <3>2. QED
      BY <1>8, <2>1, <2>2, <2>3, <3>1, Sizes DEF BlankBelow, Advance, Wrap, LineFeed, Back
  <2>6. ASSUME at' # "idle"
        PROVE  Printing'
    <3>1. CASE Advance
      BY <1>1, <2>1, <2>2, <2>3, <2>4, <2>6, <3>1, Sizes
         DEF Advance, LineFull, Printing, CursorSound, TypeOK
    <3>2. CASE Wrap
      BY <2>2, <2>3, <2>4, <3>2 DEF Wrap, Printing
    <3>3. CASE LineFeed
      BY <2>1, <2>2, <2>3, <2>4, <2>6, <3>3 DEF LineFeed, Printing
    <3>4. CASE Back
      BY <2>1, <2>2, <2>3, <2>4, <3>4 DEF Back, Printing
    <3>5. QED
      BY <1>8, <3>1, <3>2, <3>3, <3>4
  <2>7. QED
    BY <2>5, <2>6
<1>9. CASE ScrollRow
  <2>1. ~reporting /\ at = "scroll" /\ y = height - 1 /\ row \in 1 .. height - 1
    BY <1>1, <1>2, <1>9, Sizes DEF ScrollRow, LastMoved, CursorSound, Bottom, TypeOK
  <2>2. Printing
    BY <2>1, <1>5 DEF Statement
  <2>3. \A r \in 0 .. height - 1 : Row(r)' = IF r = row - 1 THEN Row(r + 1) ELSE Row(r)
    BY <1>1, <1>9, <2>1, RowScrolled, Sizes
  <2>4. UNCHANGED <<last, roll, x, y, at>> /\ row' = row + 1 /\ Written' = Written
    BY <1>9 DEF ScrollRow, Written
  <2>5. BlankBelow'
    BY <2>1, <2>4, Sizes DEF BlankBelow
  <2>6. \A r \in 1 .. height : Row(r - 1)' = IF r < row' THEN Written[r + 1] ELSE Written[r]
    <3>1. ASSUME NEW r \in 1 .. height
          PROVE  Row(r - 1)' = IF r < row + 1 THEN Written[r + 1] ELSE Written[r]
      <4>1. Len(roll.rows) = height /\ r - 1 \in 0 .. height - 1
        BY <2>1, <2>2, Sizes DEF Printing
      <4>2. CASE r = row
        <5>1. Row(r - 1)' = Row(r) /\ r + 1 \in 1 .. height
          BY <2>1, <2>3, <4>1, <4>2, Sizes
        <5>2. Row((r + 1) - 1) = Written[r + 1]
          BY <2>1, <2>2, <4>1, <4>2, <5>1, Sizes DEF Printing
        <5>3. QED
          BY <4>2, <5>1, <5>2, Sizes
      <4>3. CASE r # row
        <5>1. Row(r - 1)' = Row(r - 1)
          BY <2>1, <2>3, <4>1, <4>3, Sizes
        <5>2. QED
          BY <2>1, <2>2, <4>1, <4>3, <5>1, Sizes DEF Printing
      <4>4. QED
        BY <4>2, <4>3
    <3>2. QED
      BY <2>4, <3>1
  <2>7. QED
    BY <2>1, <2>2, <2>4, <2>5, <2>6, Sizes DEF Printing
<1>10. CASE ClearRow
  <2>1. at' = "idle" /\ y' = y /\ ~reporting /\ y = height - 1
    BY <1>1, <1>2, <1>10, Sizes DEF ClearRow, CursorSound, Bottom
  <2>2. QED
    BY <2>1, Sizes DEF BlankBelow
<1>11. CASE Exception
  BY <1>2, <1>11 DEF Exception
<1>12. QED
  BY <1>3, <1>6, <1>7, <1>8, <1>9, <1>10, <1>11 DEF Next

\* A step of the code is a step of the roll when it finishes a character of
\* the thread, and no step of the roll otherwise.
LEMMA RollSimulation ==
  ASSUME CursorInv, RollSound, Next
  PROVE  Roll!Next \/ UNCHANGED <<ThreadRoll.rows, ThreadRoll.column>>
<1>1. TypeOK /\ CursorSound
  BY DEF CursorInv
<1>2. ASSUME ~reporting, at \in Statement \ {"idle"}
      PROVE  /\ Printing /\ BlankBelow /\ ThreadRoll = roll
             /\ Written \in Seq(Line) /\ Len(Written) = Len(roll.rows)
             /\ last \in Glyphs \cup {Newline}
  BY <1>1, <1>2, WrittenRows DEF RollSound, Statement, ThreadRoll, TypeOK
\* The last step of a character in a row that is not full.
<1>3. ASSUME ~reporting, Advance, at' = "idle"
      PROVE  Roll!Next
  <2>1. Printing /\ ThreadRoll = roll /\ last \in Glyphs
        /\ Written \in Seq(Line) /\ Len(Written) = Len(roll.rows)
    BY <1>2, <1>3 DEF Advance, Statement, Printing
  <2>2. /\ y < height /\ y \in Nat /\ x \in Nat /\ roll.column = x
        /\ Len(roll.rows) = y + 1 /\ x + 1 < width
    BY <1>1, <1>3, <2>1, Sizes
       DEF Advance, LineFull, Printing, CursorSound, Bottom, TypeOK
  <2>3. ThreadRoll' = [rows |-> [r \in 1 .. y + 1 |-> Row(r - 1)], column |-> x + 1]
    BY <1>3 DEF Advance, ThreadRoll, RollNow, Row
  <2>4. ThreadRoll'.rows = Written
    <3>1. \A r \in 1 .. y + 1 : Row(r - 1) = Written[r]
      BY <1>3, <2>1, <2>2 DEF Printing, Advance
    <3>2. Written = [r \in 1 .. y + 1 |-> Written[r]]
      BY <2>1, <2>2
    <3>3. QED
      BY <2>3, <3>1, <3>2
  <2>5. last # Newline
    BY <2>1, GlyphsAssumption
  <2>6. Roll!Put(last)
    BY <2>1, <2>2, <2>3, <2>4, <2>5, Sizes DEF Roll!Put, Roll!Newline, Newline, Written
  <2>7. QED
    BY <2>1, <2>6 DEF Roll!Next
\* The last step of a newline, or of the last character of a row.
<1>4. ASSUME ~reporting, at \in {"linefeed", "scroll"}, at' = "idle",
             ThreadRoll'.rows = Roll!Fed(Written), ThreadRoll'.column = 0
      PROVE  Roll!Next
  <2>1. Printing /\ ThreadRoll = roll /\ last \in Glyphs \cup {Newline}
    BY <1>2, <1>4 DEF Statement
  <2>2. last = Newline \/ roll.column + 1 = width
    BY <1>4, <2>1 DEF Printing
  <2>3. CASE last = Newline
    BY <1>4, <2>1, <2>3 DEF Written, Roll!Put, Roll!Newline, Newline, Roll!Next
  <2>4. CASE last # Newline
    BY <1>4, <2>1, <2>2, <2>4 DEF Written, Roll!Put, Roll!Newline, Newline, Roll!Next
  <2>5. QED
    BY <2>3, <2>4
<1>5. ASSUME ~reporting, LineFeed, at' = "idle"
      PROVE  Roll!Next
  <2>1. /\ Printing /\ BlankBelow /\ Written \in Seq(Line)
        /\ Len(Written) = Len(roll.rows)
    BY <1>2, <1>5 DEF LineFeed, Statement
  <2>2. y \in Nat /\ x = 0 /\ Len(Written) = y + 1 /\ y + 1 < height
    BY <1>1, <1>5, <2>1, Sizes
       DEF LineFeed, ScreenFull, Printing, CursorSound, Bottom, TypeOK
  <2>3. ThreadRoll' = [rows |-> [r \in 1 .. y + 2 |-> Row(r - 1)], column |-> 0]
    <3>1. ThreadRoll' = [rows |-> [r \in 1 .. (y + 1) + 1 |-> Row(r - 1)], column |-> x]
      BY <1>5 DEF LineFeed, ThreadRoll, RollNow, Row
    <3>2. (y + 1) + 1 = y + 2
      BY <2>2
    <3>3. QED
      BY <2>2, <3>1, <3>2
  <2>4. \A r \in 1 .. y + 2 : Row(r - 1) = IF r = y + 2 THEN BlankRow ELSE Written[r]
    BY <1>5, <2>1, <2>2, Sizes DEF LineFeed, Printing, BlankBelow
  <2>5. ThreadRoll'.rows = Append(Written, BlankRow)
    <3>1. Append(Written, BlankRow) =
            [r \in 1 .. y + 2 |-> IF r = y + 2 THEN BlankRow ELSE Written[r]]
      BY <2>1, <2>2, FedRows
    <3>2. QED
      BY <2>3, <2>4, <3>1
  <2>6. Roll!Fed(Written) = Append(Written, BlankRow)
    BY <2>2, Sizes DEF Roll!Fed, Roll!BlankRow, BlankRow
  <2>7. QED
    BY <1>4, <1>5, <2>3, <2>5, <2>6 DEF LineFeed
<1>6. ASSUME ~reporting, ClearRow
      PROVE  Roll!Next
  <2>1. /\ Printing /\ Written \in Seq(Line) /\ Len(Written) = Len(roll.rows)
    BY <1>2, <1>6 DEF ClearRow, Statement
  <2>2. y = height - 1 /\ Len(Written) = height /\ row = height
    BY <1>1, <1>6, <2>1, Sizes
       DEF ClearRow, LastMoved, Printing, CursorSound, Bottom, TypeOK
  <2>3. ThreadRoll' = [rows |-> [r \in 1 .. height |-> Row(r - 1)'], column |-> 0]
    <3>1. ThreadRoll' = [rows |-> [r \in 1 .. y' + 1 |-> Row(r - 1)'], column |-> 0]
      BY <1>6 DEF ClearRow, ThreadRoll, RollNow
    <3>2. y' + 1 = height
      BY <1>6, <2>2, Sizes DEF ClearRow
    <3>3. QED
      BY <3>1, <3>2
  <2>4. \A r \in 1 .. height : Row(r - 1)' = IF r = height THEN BlankRow ELSE Written[r + 1]
    <3>1. ASSUME NEW r \in 1 .. height
          PROVE  Row(r - 1)' = IF r = height THEN BlankRow ELSE Written[r + 1]
      <4>1. r - 1 \in Nat /\ r - 1 < height /\ (r - 1 = height - 1 <=> r = height)
        BY Sizes
      <4>2. Row(r - 1)' = IF r = height THEN BlankRow ELSE Row(r - 1)
        BY <1>6, <4>1, RowCleared
      <4>3. r # height => Row(r - 1) = Written[r + 1]
        BY <1>6, <2>1, <2>2, Sizes DEF ClearRow, Printing
      <4>4. QED
        BY <4>2, <4>3
    <3>2. QED
      BY <3>1
  <2>5. ThreadRoll'.rows = Append(Tail(Written), BlankRow)
    <3>1. Append(Tail(Written), BlankRow) =
            [r \in 1 .. height |-> IF r = height THEN BlankRow ELSE Written[r + 1]]
      <4>1. Tail(Written) \in Seq(Line) /\ Len(Tail(Written)) = height - 1
            /\ \A r \in 1 .. height - 1 : Tail(Written)[r] = Written[r + 1]
        BY <2>1, <2>2, Sizes
      <4>2. Append(Tail(Written), BlankRow) =
              [r \in 1 .. height |-> IF r = height THEN BlankRow ELSE Tail(Written)[r]]
        <5>1. height \in Nat /\ Len(Tail(Written)) + 1 = height
          BY <4>1, Sizes
        <5>2. QED
          BY <4>1, <5>1, FedRows
      <4>3. \A r \in 1 .. height : r # height => r \in 1 .. height - 1
        BY Sizes
      <4>4. QED
        BY <4>1, <4>2, <4>3
    <3>2. QED
      BY <2>3, <2>4, <3>1
  <2>6. Roll!Fed(Written) = Append(Tail(Written), BlankRow)
    BY <2>2 DEF Roll!Fed, Roll!BlankRow, BlankRow
  <2>7. QED
    BY <1>4, <1>6, <2>3, <2>5, <2>6 DEF ClearRow
\* No other step can be seen in the roll.
<1>7. ASSUME ThreadRoll' = ThreadRoll
      PROVE  UNCHANGED <<ThreadRoll.rows, ThreadRoll.column>>
  BY <1>7
<1>8. ASSUME NEW flagged \in BOOLEAN, NEW text \in BOOLEAN,
             terminal_initialize(flagged, text)
      PROVE  UNCHANGED <<ThreadRoll.rows, ThreadRoll.column>>
  <2>1. /\ at = "off" /\ ~reporting /\ x = 0 /\ y = 0
        /\ UNCHANGED <<x, y, reporting, roll>>
    BY <1>1, <1>8 DEF terminal_initialize, CursorSound, Stopped
  <2>2. ThreadRoll = roll
    BY <2>1 DEF ThreadRoll
  <2>3. CASE at' = "idle"
    <3>1. terminal_initialize(TRUE, TRUE)
      BY <1>8, <2>3 DEF terminal_initialize
    <3>2. Row(0)' = BlankRow
      BY <3>1, RowInitialized, Sizes
    <3>3. ThreadRoll' = [rows |-> [r \in 1 .. 0 + 1 |-> Row(r - 1)'], column |-> 0]
      BY <2>1, <2>3 DEF ThreadRoll, RollNow
    <3>4. [r \in 1 .. 0 + 1 |-> Row(r - 1)'] = <<BlankRow>>
      BY <3>2
    <3>5. roll = [rows |-> <<BlankRow>>, column |-> 0]
      BY <2>1 DEF RollSound
    <3>6. QED
      BY <2>2, <3>3, <3>4, <3>5
  <2>4. CASE at' # "idle"
    BY <1>7, <2>1, <2>2, <2>4 DEF ThreadRoll
  <2>5. QED
    BY <2>3, <2>4
<1>9. ASSUME (\E c \in Glyphs : PutEntry(c)) \/ PutNewline \/ Exception
      PROVE  UNCHANGED <<ThreadRoll.rows, ThreadRoll.column>>
  <2>1. roll' = ThreadRoll /\ (at' # "idle" \/ reporting')
    BY <1>9 DEF PutEntry, PutNewline, Exception
  <2>2. QED
    BY <1>7, <2>1 DEF ThreadRoll
<1>10. ASSUME Advance \/ Wrap \/ LineFeed \/ Back \/ ScrollRow \/ ClearRow,
              reporting \/ at' # "idle"
       PROVE  UNCHANGED <<ThreadRoll.rows, ThreadRoll.column>>
  <2>1. UNCHANGED <<reporting, roll>> /\ at # "idle"
    BY <1>10 DEF Advance, Wrap, LineFeed, Back, ScrollRow, ClearRow
  <2>2. QED
    BY <1>7, <1>10, <2>1 DEF ThreadRoll
<1>11. Wrap \/ Back \/ ScrollRow => at' # "idle"
  BY DEF Wrap, Back, ScrollRow
<1>12. QED
  BY <1>3, <1>5, <1>6, <1>8, <1>9, <1>10, <1>11 DEF Next

\* To the thread the terminal is a roll of which the screen is the end: each
\* character takes effect once, in one step, whatever the statements that
\* print it do in between (terminal.c:58-111).
THEOREM SpecImplementsRoll == Spec => ImplementsRoll
<1>1. Init => Roll!Init
  <2>1. Init => ThreadRoll = roll /\ roll = [rows |-> <<BlankRow>>, column |-> 0]
    BY DEF Init, ThreadRoll, BlankRow
  <2>2. QED
    BY <2>1 DEF Roll!Init, Roll!BlankRow, BlankRow
<1>2. RollSound /\ UNCHANGED vars => RollSound'
  <2>1. UNCHANGED vars => Written' = Written /\ (\A r : Row(r)' = Row(r))
    BY DEF Written, Row, vars
  <2>2. QED
    BY <2>1 DEF RollSound, BlankBelow, Printing, vars
<1>3. CursorInv /\ RollSound /\ [Next]_vars => RollSound'
  BY <1>2, RollStep
<1>4. Spec => []RollSound
  BY <1>3, RollInit, SpecCursorInv, PTL DEF Spec
<1>5. UNCHANGED vars => UNCHANGED <<ThreadRoll.rows, ThreadRoll.column>>
  BY DEF vars, ThreadRoll, RollNow, Row
<1>6. CursorInv /\ RollSound /\ [Next]_vars
        => [Roll!Next]_<<ThreadRoll.rows, ThreadRoll.column>>
  BY <1>5, RollSimulation
<1>7. QED
  BY <1>1, <1>4, <1>6, SpecCursorInv, PTL DEF Spec, Roll!Spec, ImplementsRoll
=============================================================================
