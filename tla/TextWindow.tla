----------------------------- MODULE TextWindow -----------------------------
(***************************************************************************)
(* The text screen and the windows on it (Arch/Cga.cpp,                    *)
(* Arch/TextWindow.cpp).  A screen is the flat TEXT_BUFFER, a window a     *)
(* rectangle of it with a cursor of its own.  Attributes are left out, and *)
(* so is the hardware cursor: no window of the kernel is ever activated.   *)
(***************************************************************************)
EXTENDS Integers, Sequences, SequencesExt

CONSTANTS ROWS, COLUMNS      \* of the screen, Cga::ROWS and Cga::COLUMNS

NEWLINE == "newline"
BLANK == "blank"

\* The columns and rows of a window w; the upper bounds are exclusive.
GetWidth(w) == w.toColumn - w.fromColumn
GetHeight(w) == w.toRow - w.fromRow

ToOffset(column, row) == row * COLUMNS + column

OnScreen(column, row) == column < COLUMNS /\ row < ROWS

\* Cga::Show and Cga::Get at a position inside window w.
Show(screen, w, column, row, character) ==
    IF OnScreen(w.fromColumn + column, w.fromRow + row)
    THEN [screen EXCEPT ![ToOffset(w.fromColumn + column, w.fromRow + row)] = character]
    ELSE screen

Get(screen, w, column, row) ==
    IF OnScreen(w.fromColumn + column, w.fromRow + row)
    THEN screen[ToOffset(w.fromColumn + column, w.fromRow + row)]
    ELSE BLANK

Cells(w) == (0 .. GetWidth(w) - 1) \X (0 .. GetHeight(w) - 1)

\* The offsets of w that Show can write, and what each one is to hold: new, by column and row.
Redrawn(screen, w, new) ==
    [o \in DOMAIN screen |->
        IF \E c \in Cells(w) : OnScreen(w.fromColumn + c[1], w.fromRow + c[2])
                               /\ ToOffset(w.fromColumn + c[1], w.fromRow + c[2]) = o
        THEN LET at == CHOOSE c \in Cells(w) :
                           ToOffset(w.fromColumn + c[1], w.fromRow + c[2]) = o
             IN  new[at]
        ELSE screen[o]]

Reset(screen, w) == Redrawn(screen, w, [c \in Cells(w) |-> BLANK])

\* Mutant of Scroll: the bottom row keeps the text that moved up
ScrollKeeps(screen, w) ==
    LET Up == [c \in Cells(w) |-> Get(screen, w, c[1], IF c[2] = GetHeight(w) - 1 THEN c[2] ELSE c[2] + 1)]
    IN  Redrawn(screen, w, Up)

Scroll(screen, w) ==
    LET Up == [c \in Cells(w) |-> IF c[2] = GetHeight(w) - 1 THEN BLANK ELSE Get(screen, w, c[1], c[2] + 1)]
    IN  Redrawn(screen, w, Up)

\* The cursor behind a character, before the window scrolls.
Moved(w, at, character) ==
    IF character = NEWLINE \/ at.column + 1 >= GetWidth(w)
    THEN [column |-> 0, row |-> at.row + 1]
    ELSE [column |-> at.column + 1, row |-> at.row]

PastBottom(w, at) == at.row >= GetHeight(w)

\* One turn of the loop of Print: the screen and the cursor after it.
Printed(screen, w, at, character) ==
    LET shown == IF character = NEWLINE THEN screen
                 ELSE Show(screen, w, at.column, at.row, character)
        moved == Moved(w, at, character)
    IN  IF PastBottom(w, moved)
        THEN [screen |-> Scroll(shown, w), at |-> [moved EXCEPT !.row = GetHeight(w) - 1]]
        ELSE [screen |-> shown, at |-> moved]

-----------------------------------------------------------------------------
\* The reference: the lines of everything ever printed to a window, wrapped at
\* its width, of which it shows the last ones.

\* A stream's lines: a line ends with a newline or when it is full.
Wrapped(w, stream) ==
    FoldLeft(LAMBDA lines, character :
                 LET last == Len(lines)
                     line == IF character = NEWLINE THEN lines[last] ELSE Append(lines[last], character)
                 IN  IF character = NEWLINE \/ Len(line) = GetWidth(w)
                     THEN [lines EXCEPT ![last] = line] \o << <<>> >>
                     ELSE [lines EXCEPT ![last] = line],
             << <<>> >>, stream)

\* What the cell of w at (column, row) has to show after that stream.
Expected(w, stream, column, row) ==
    LET lines == Wrapped(w, stream)
        first == IF Len(lines) > GetHeight(w) THEN Len(lines) - GetHeight(w) ELSE 0
        line == first + row + 1
    IN  IF line <= Len(lines) /\ column + 1 <= Len(lines[line])
        THEN lines[line][column + 1] ELSE BLANK
=============================================================================
