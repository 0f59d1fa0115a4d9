------------------------------- MODULE ScreenText -------------------------------
(***************************************************************************)
(* The text screen (Screen.cpp 31-109, 162-305, 346-395): a ring of rows   *)
(* that begins at TopLine, a cursor, word wrap across the end of a row,    *)
(* rows at the top that do not scroll, and the [MORE] prompt; and how it   *)
(* is sent to the terminal as a 3270 data stream.                          *)
(*                                                                         *)
(* A screen is a record, and each method of the class an operator from     *)
(* records to records.  Besides the fields of the class it has             *)
(*   unread  the rows with text that no ReadInput has shown,               *)
(*   paged   no input has been echoed since the last prompt without echo,  *)
(*   lost    a row scrolled off unread, though the page was the first,     *)
(*   shown   the terminal showed the screen at each ReadInput.             *)
(***************************************************************************)
EXTENDS Integers, Sequences, FiniteSets, SequencesExt

CONSTANTS
    NUM_ROWS,
    NUM_COLS,
    ShortRun,       \* the longest run that is sent as it is, 4
    MaxPacketSize,
    MORE            \* the prompt, a sequence of characters

ASSUME SizesAssumption ==
    /\ NUM_ROWS \in Nat \ {0, 1} /\ NUM_COLS \in Nat \ {0, 1, 2}
    /\ ShortRun \in Nat /\ MaxPacketSize \in Nat
    /\ MORE \in Seq(STRING) /\ Len(MORE) < NUM_COLS

Rows == 0..(NUM_ROWS - 1)
Cols == 0..(NUM_COLS - 1)
Space == " "
EmptyRow == [col \in Cols |-> Space]

NewScreen ==
    [Row |-> [row \in Rows |-> EmptyRow], TopLine |-> 0, CursorRow |-> 0, CursorCol |-> 0,
     NonScrollingRows |-> 1, ScrollsWithoutInput |-> 0, bWordwrap |-> FALSE,
     unread |-> {}, paged |-> TRUE, lost |-> FALSE, shown |-> TRUE]

\* The row of the ring that is shown in a line of the terminal, and back.
RowOf(s, line) == (s.TopLine + line) % NUM_ROWS
LineOf(s, row) == (row - s.TopLine + NUM_ROWS) % NUM_ROWS

--------------------------------------------------------------------------------
(***************************************************************************)
(* The data stream: orders for the terminal, with their lengths in bytes.  *)
(***************************************************************************)
Size == NUM_ROWS * NUM_COLS

\* AddScreenAddress
Address(col, line) == (line * NUM_COLS + col) % Size

SBA(address) == [order |-> "SBA", address |-> address, data |-> Space, bytes |-> 3]
RA(address, char) == [order |-> "RA", address |-> address, data |-> char, bytes |-> 4]
SF(attribute) == [order |-> "SF", address |-> 0, data |-> attribute, bytes |-> 2]
IC == [order |-> "IC", address |-> 0, data |-> Space, bytes |-> 1]
Char(char) == [order |-> "char", address |-> 0, data |-> char, bytes |-> 1]

\* The repetition also takes the cell behind the run.
WriteOneMore(col, line, char, run) ==
    IF run <= ShortRun THEN [i \in 1..run |-> Char(char)]
    ELSE <<RA(Address(col + 1, line), char)>>

\* A run of equal characters that ends before a column.
WriteMultiple(col, line, char, run) ==
    IF run <= ShortRun THEN [i \in 1..run |-> Char(char)]
    ELSE <<RA(Address(col, line), char)>>

\* The columns first..last of a row, run by run.
WriteScreenData(row, line, first, last) ==
    LET ends == {col \in first..last : col = last \/ row[col + 1] # row[col]}
        RunTo(col) == LET before == {e \in ends : e < col} IN
                      IF before = {} THEN col - first + 1
                      ELSE col - (CHOOSE e \in before : \A f \in before : f <= e)
        Run(col) == IF col \in first..last /\ col \in ends
                    THEN WriteMultiple(col + 1, line, row[col], RunTo(col)) ELSE <<>>
    IN  FlattenSeq([i \in 1..NUM_COLS |-> Run(i - 1)])

\* The input field, from the cursor to the end of its line.
InputField(s, line) ==
    <<SBA(Address(s.CursorCol, line)), SF("editable"), IC,
      RA(Address(NUM_COLS - 1, line), "NUL"), SF("protected")>>

Line(s, line) ==
    IF line = 0
    THEN <<SF("bright")>> \o WriteScreenData(s.Row[RowOf(s, 0)], 0, 1, NUM_COLS - 2)
            \o <<SF("protected")>>
    ELSE WriteScreenData(s.Row[RowOf(s, line)], line, 0, NUM_COLS - 1)
            \o (IF RowOf(s, line) = s.CursorRow THEN InputField(s, line) ELSE <<>>)

Bytes(orders) == FoldLeft(LAMBDA sum, order : sum + order.bytes, 0, orders)

\* A line that does not fit in the packet begins the next one.
AddLine(packets, orders) ==
    IF Bytes(Last(packets)) + Bytes(orders) > MaxPacketSize
    THEN Append(packets, orders)
    ELSE Front(packets) \o <<Last(packets) \o orders>>

\* The write command and its control character take two bytes.
Header == <<[SBA(0) EXCEPT !.bytes = 5]>>

SerializeScreen3270(s) ==
    FoldLeft(AddLine, <<Header>>, [i \in 1..NUM_ROWS |-> Line(s, i - 1)])

(***************************************************************************)
(* The terminal writes a chain into its buffer, cell by cell; attributes   *)
(* take a cell too.  Repeat to address goes on until it comes to the       *)
(* address, round the end of the screen if need be.                        *)
(***************************************************************************)
Repeated(from, to) ==
    IF from < to THEN from..(to - 1) ELSE (0..(to - 1)) \cup (from..(Size - 1))

Execute(t, o) ==
    CASE o.order = "SBA" -> [t EXCEPT !.at = o.address]
      [] o.order = "IC" -> [t EXCEPT !.cursor = t.at]
      [] o.order = "RA" ->
            [t EXCEPT !.at = o.address,
                      !.cells = [a \in DOMAIN t.cells |->
                                    IF a \in Repeated(t.at, o.address) THEN o.data
                                    ELSE t.cells[a]]]
      [] OTHER -> [t EXCEPT !.at = (t.at + 1) % Size, !.cells[t.at] = o.data]

Display(packets) ==
    FoldLeft(Execute, [at |-> 0, cursor |-> 0, cells |-> [a \in 0..(Size - 1) |-> Space]],
             FlattenSeq(packets))

\* What the user should see: the lines, and the input field at the cursor.
Cell(s, line, col) ==
    CASE line = 0 /\ col = 0 -> "bright"
      [] line = 0 /\ col = NUM_COLS - 1 -> "protected"
      [] line > 0 /\ RowOf(s, line) = s.CursorRow /\ col >= s.CursorCol ->
            IF col = s.CursorCol THEN "editable"
            ELSE IF col = NUM_COLS - 1 THEN "protected" ELSE "NUL"
      [] OTHER -> s.Row[RowOf(s, line)][col]

ShowsScreen(s) ==
    LET packets == SerializeScreen3270(s) IN
    /\ \A i \in DOMAIN packets : Bytes(packets[i]) <= MaxPacketSize
    /\ \A line \in Rows, col \in Cols :
          Display(packets).cells[line * NUM_COLS + col] = Cell(s, line, col)
    /\ LineOf(s, s.CursorRow) > 0
          => Display(packets).cursor
                = Address(s.CursorCol + 1, LineOf(s, s.CursorRow))

--------------------------------------------------------------------------------
(***************************************************************************)
(* The screen.                                                             *)
(***************************************************************************)

\* Behind the last row are the packets, which are built anew each time.
Put(s, row, col, char) ==
    IF row \in Rows
    THEN [s EXCEPT !.Row[row][col] = char,
                   !.unread = IF char = Space THEN @ ELSE @ \cup {row}]
    ELSE s

\* ReadInput up to the wait: MessageTask shows the screen.
Ask(s) == [s EXCEPT !.ScrollsWithoutInput = 0, !.unread = {}, !.shown = @ /\ ShowsScreen(s)]

\* The ring is not gone round.
SetCursorUnwrapped(s, x, y) ==
    [s EXCEPT !.bWordwrap = FALSE, !.CursorCol = x, !.CursorRow = y + s.TopLine]

SetCursorPosition(s, x, y) ==
    LET row == y + s.TopLine IN
    [s EXCEPT !.bWordwrap = FALSE, !.CursorCol = x,
              !.CursorRow = IF row >= NUM_ROWS THEN row - NUM_ROWS ELSE row]

\* The rows that do not scroll stay where they were.
ScrollAll(s) ==
    [s EXCEPT !.TopLine = (@ + 1) % NUM_ROWS, !.ScrollsWithoutInput = @ + 1]

\* The rows that do not scroll are moved along, over the first one that does.
Scroll(s) ==
    LET kept == {RowOf(s, line + 1) : line \in 0..(s.NonScrollingRows - 1)}
        first == RowOf(s, s.NonScrollingRows)
    IN  [s EXCEPT !.Row = [row \in Rows |->
                              IF row \in kept THEN s.Row[(row - 1 + NUM_ROWS) % NUM_ROWS]
                              ELSE s.Row[row]],
                  !.unread = @ \ (kept \cup {first}),
                  !.lost = @ \/ (first \in s.unread /\ ~s.paged),
                  !.TopLine = (@ + 1) % NUM_ROWS,
                  !.ScrollsWithoutInput = @ + 1]

\* The prompt is one row too late.
MoreTooLate(s) == s.ScrollsWithoutInput > NUM_ROWS - s.NonScrollingRows + 1

NeedsMore(s) == s.ScrollsWithoutInput > NUM_ROWS - s.NonScrollingRows

PutMore(s, i) == Put(s, s.CursorRow, i - 1, MORE[i])

\* The user reads the page and presses ENTER, which is not echoed.
More(s) ==
    LET prompt == FoldLeft(PutMore, s, [i \in DOMAIN MORE |-> i])
    IN  [Ask([prompt EXCEPT !.CursorCol = Len(MORE), !.bWordwrap = FALSE])
            EXCEPT !.CursorCol = 0, !.bWordwrap = s.bWordwrap, !.paged = TRUE]

ClearRow(s, row) == [s EXCEPT !.Row[row] = EmptyRow, !.unread = @ \ {row}]

ConditionalScroll(s) ==
    LET row == IF s.CursorRow + 1 >= NUM_ROWS THEN 0 ELSE s.CursorRow + 1
        moved == [s EXCEPT !.CursorCol = 0, !.CursorRow = row]
        scrolled == IF row = s.TopLine THEN Scroll(moved) ELSE moved
        read == IF NeedsMore(scrolled) THEN More(scrolled) ELSE scrolled
    IN  ClearRow(read, row)

PutAtCursor(s, char) == [Put(s, s.CursorRow, s.CursorCol, char) EXCEPT !.CursorCol = @ + 1]

RowBefore(s) == (s.CursorRow - 1 + NUM_ROWS) % NUM_ROWS

\* The last row's end is copied to the new row and stays where it was.
CopyWord(s) == PutAtCursor(s, s.Row[RowBefore(s)][NUM_COLS - 1])

MoveChar(s, col) == Put(PutAtCursor(s, s.Row[RowBefore(s)][col]), RowBefore(s), col, Space)

\* The word that was cut off moves to the new row, from behind the last space, comma
\* or full stop in the right half, or its last letter does, behind a hyphen.
MoveWord(s) ==
    LET last == RowBefore(s)
        ends == {col \in (NUM_COLS \div 2 + 1)..(NUM_COLS - 1) :
                    s.Row[last][col] \in {Space, ",", "."}}
        end == CHOOSE col \in ends : \A c \in ends : c <= col
    IN  IF ends # {}
        THEN FoldLeft(MoveChar, s, [i \in 1..(NUM_COLS - 1 - end) |-> end + i])
        ELSE Put(PutAtCursor(s, s.Row[last][NUM_COLS - 1]), last, NUM_COLS - 1, "-")

PrintAtCursor(s, char) ==
    LET put == PutAtCursor(s, char) IN
    IF put.CursorCol >= NUM_COLS
    THEN ConditionalScroll([put EXCEPT !.bWordwrap = char # Space]) ELSE put

ScreenPrintChar(s, char) ==
    LET unwrapped == [s EXCEPT !.bWordwrap = FALSE] IN
    IF char = "\n" THEN ConditionalScroll(unwrapped)
    ELSE IF ~s.bWordwrap THEN PrintAtCursor(s, char)
    ELSE IF char = Space THEN unwrapped
    ELSE PrintAtCursor(MoveWord(unwrapped), char)

ScreenPrint(s, chars) == FoldLeft(ScreenPrintChar, s, chars)

\* ReadInput with an echo of what was entered, and without.
ReadInput(s, input) ==
    [ScreenPrint([Ask(s) EXCEPT !.paged = FALSE], <<Space>> \o input \o <<"\n", "\n">>)
        EXCEPT !.unread = {}]
ReadSilently(s) == [Ask(s) EXCEPT !.paged = TRUE]

=============================================================================
