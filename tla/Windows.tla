--------------------------------- MODULE Windows ---------------------------------
(***************************************************************************)
(* The windows of the Z-machine on the text screen (zops.c 85-217,         *)
(* 611-627, 1131-1173, 2073-2238): the scrolling text of window 0 below    *)
(* the upper window 1 and, in version 3, the status line, window 2.  A     *)
(* game prints, splits the screen, moves between the windows, erases them  *)
(* and reads input.                                                        *)
(***************************************************************************)
EXTENDS ScreenText

CONSTANTS
    MaxSplit,     \* bound: lines of the upper window
    MaxPrinted,   \* bound: characters the game prints
    MaxMoves,     \* bound: times it splits, changes windows, erases or reads
    Tidy          \* the game splits and unsplits the screen and reads lines from window 0,
                  \* with three columns left after its prompt, prints to window 1 within its
                  \* lines, and erases from a window that begins at the top of the screen,
                  \* all windows at once (-1) only from window 0

ASSUME WindowsAssumption ==
    /\ MaxSplit \in 0..(NUM_ROWS - 3) /\ MaxPrinted \in Nat /\ MaxMoves \in Nat
    /\ Tidy \in BOOLEAN

VARIABLES
    screen,
    curWindow,
    cursorX,        \* where the cursor was when each window was left
    cursorY,
    windowStart,    \* the first line of each window
    bHasStatus,     \* the game is of version 3
    printed,        \* how many characters it has printed
    moves           \* how many moves it has made

windowVars == <<curWindow, cursorX, cursorY, windowStart>>
vars == <<screen, windowVars, bHasStatus, printed, moves>>

WindowNums == 0..2

--------------------------------------------------------------------------------
(***************************************************************************)
(* The functions io..., from a record w of the screen and the windows.     *)
(***************************************************************************)
Now == [screen |-> screen, curWindow |-> curWindow, cursorX |-> cursorX,
        cursorY |-> cursorY, windowStart |-> windowStart]

ioPrintChar(w, char) == [w EXCEPT !.screen = ScreenPrintChar(w.screen, char)]
PrintSpaces(w, n) == FoldLeft(ioPrintChar, w, [i \in 1..n |-> Space])

ioSetCursor(w, x, y) ==
    [w EXCEPT !.screen = SetCursorPosition(w.screen, x, y + w.windowStart[w.curWindow])]

\* ioGetCursor, into cursorX and cursorY.
SaveCursor(w) ==
    [w EXCEPT !.cursorX[w.curWindow] = w.screen.CursorCol,
              !.cursorY[w.curWindow] =
                  LineOf(w.screen, w.screen.CursorRow) - w.windowStart[w.curWindow]]
RestoreCursor(w) == ioSetCursor(w, w.cursorX[w.curWindow], w.cursorY[w.curWindow])

SplitAt(w, line) ==
    [w EXCEPT !.windowStart[0] = line, !.screen.NonScrollingRows = line,
              !.screen.paged = TRUE]
ioSplitWindow(w, numLines) == SplitAt(w, numLines + w.windowStart[1])
ioUnsplitWindow(w) == SplitAt(w, w.windowStart[1])

ioSetWindow(w, windowNum, reset) ==
    LET left == [SaveCursor(w) EXCEPT !.curWindow = windowNum]
    IN  RestoreCursor(IF reset THEN [left EXCEPT !.cursorX[windowNum] = 0,
                                                 !.cursorY[windowNum] = 0]
                      ELSE left)

\* The lines of a window, each as a line of the current window.
LinesOf(w, windowNum) ==
    w.windowStart[windowNum]..
        ((IF windowNum = 0 THEN NUM_ROWS ELSE w.windowStart[windowNum - 1]) - 1)

EraseLine(w, line) == PrintSpaces(ioSetCursor(w, 0, line), NUM_COLS)

ioEraseWindow(w, windowNum) ==
    LET lines == LinesOf(w, windowNum)
        first == w.windowStart[windowNum]
    IN  RestoreCursor(FoldLeft(EraseLine, SaveCursor(w),
                               [i \in 1..Cardinality(lines) |-> first + i - 1]))

ioEraseToEndOfLine(w) ==
    LET saved == SaveCursor(w)
    IN  RestoreCursor(PrintSpaces(saved, NUM_COLS - saved.cursorX[saved.curWindow]))

ioReset(w, status) ==
    LET start == [i \in WindowNums |-> IF i < 2 /\ status THEN 1 ELSE 0]
        reset == [w EXCEPT !.curWindow = 0, !.windowStart = start,
                           !.cursorX = [i \in WindowNums |-> 0],
                           !.cursorY = [i \in WindowNums |-> IF i = 0 THEN NUM_ROWS - 1 ELSE 0]]
    IN  FoldLeft(ioEraseWindow, reset, <<2, 0>>)

\* The name of the room, then spaces and the score, up to the end of the line.
updateStatus(w) ==
    LET status == ioEraseWindow(ioSetWindow(w, 2, TRUE), 2)
        text == <<Space, "room">> \o [i \in 1..(NUM_COLS - 4) |-> Space] \o <<"score", Space>>
    IN  IF bHasStatus
        THEN ioSetWindow(FoldLeft(ioPrintChar, status, text), w.curWindow, FALSE)
        ELSE w

--------------------------------------------------------------------------------
Become(w) ==
    /\ screen' = w.screen
    /\ curWindow' = w.curWindow
    /\ cursorX' = w.cursorX
    /\ cursorY' = w.cursorY
    /\ windowStart' = w.windowStart
    /\ UNCHANGED bHasStatus

\* The menu of FrontEnd fills the screen, and its ReadInput is echoed.
MenuLine == <<"menu", "\n">>
Menu == [i \in 1..(2 * (NUM_ROWS - 1)) |-> MenuLine[((i - 1) % 2) + 1]]
Show == ReadInput(ScreenPrint(SetCursorPosition(NewScreen, 0, 0), Menu), <<"1">>)

\* zopsMain; a game of version 4 or later may split the screen at once.
Start(status, numLines) ==
    LET reset == ioReset([screen |-> Show, curWindow |-> 0, cursorX |-> <<>>,
                          cursorY |-> <<>>, windowStart |-> <<>>], status)
    IN  IF numLines = 0 THEN reset ELSE ioSplitWindow(reset, numLines)

Init ==
    \E status \in BOOLEAN, numLines \in 0..MaxSplit :
      \E start \in {Start(status, IF status THEN 0 ELSE numLines)} :
        /\ bHasStatus = status
        /\ screen = [start.screen EXCEPT !.paged = FALSE]
        /\ curWindow = start.curWindow
        /\ cursorX = start.cursorX
        /\ cursorY = start.cursorY
        /\ windowStart = start.windowStart
        /\ printed = 0
        /\ moves = 0

\* The words differ, so that their order can be seen.
NextWord == IF printed % 2 = 0 THEN <<"a", "b">> ELSE <<"c", ",">>
NewLine == <<"\n">>

\* printText, with printToStream sending each character to the screen.
printText(text) ==
    /\ printed < MaxPrinted
    /\ Tidy /\ curWindow = 1
          => /\ LineOf(screen, screen.CursorRow) \in LinesOf(Now, 1)
             /\ text # NewLine /\ screen.CursorCol + Len(text) <= NUM_COLS
    /\ printed' = printed + 1
    /\ Become(FoldLeft(ioPrintChar, Now, text))
    /\ UNCHANGED moves

Move(w) ==
    /\ moves < MaxMoves
    /\ moves' = moves + 1
    /\ Become(w)
    /\ UNCHANGED printed

\* Version 3 erases the upper window that it makes.
split_window(numLines) ==
    /\ Tidy => curWindow = 0 /\ (bHasStatus => numLines = 0)
    /\ Move(IF numLines = 0 THEN ioUnsplitWindow(Now)
            ELSE IF bHasStatus THEN ioEraseWindow(ioSplitWindow(Now, numLines), 1)
            ELSE ioSplitWindow(Now, numLines))

set_window(windowNum) ==
    /\ windowNum = 1 => windowStart[0] > windowStart[1]
    /\ Move(ioSetWindow(Now, windowNum, windowNum = 1))

\* The instruction is of version 4.
erase_window(windowNum) ==
    /\ ~bHasStatus
    /\ Tidy => windowStart[curWindow] = 0 /\ (windowNum = -1 => curWindow = 0)
    /\ Move(CASE windowNum = -1 -> ioEraseWindow(ioUnsplitWindow(Now), 0)
              [] windowNum = -2 -> FoldLeft(ioEraseWindow, Now, <<0, 1>>)
              [] OTHER -> ioEraseWindow(Now, windowNum))

erase_line ==
    /\ ~bHasStatus
    /\ Move(ioEraseToEndOfLine(Now))

\* Within the upper window.
set_cursor(line, column) ==
    /\ curWindow = 1 /\ line - 1 \in LinesOf(Now, 1)
    /\ Move(ioSetCursor(Now, column - 1, line - 1 - windowStart[1]))

\* The user's input is not looked at here.
sread ==
    /\ Tidy => curWindow = 0
    /\ \E w \in {updateStatus(Now)} :
       /\ Tidy => w.screen.CursorCol <= NUM_COLS - 3
       /\ Move([w EXCEPT !.screen = ReadInput(@, <<>>)])

read_char ==
    LET w == ioSetCursor(ioSetWindow(Now, 2, FALSE), NUM_COLS - 3, NUM_ROWS - 1)
        read == [w EXCEPT !.screen = ReadSilently(@)]
    IN  Move(ioSetWindow(read, curWindow, FALSE))

Next ==
    \/ \E text \in {NextWord, <<Space>>, NewLine} : printText(text)
    \/ \E numLines \in 0..MaxSplit : split_window(numLines)
    \/ \E windowNum \in 0..1 : set_window(windowNum)
    \/ \E windowNum \in (-2)..1 : erase_window(windowNum)
    \/ erase_line
    \/ \E line \in 1..NUM_ROWS, column \in 1..NUM_COLS : set_cursor(line, column)
    \/ sread
    \/ read_char

Spec == Init /\ [][Next]_vars

--------------------------------------------------------------------------------
(***************************************************************************)
(* Properties.                                                             *)
(***************************************************************************)
TypeOK ==
    /\ screen.TopLine \in Rows
    /\ screen.CursorRow \in Rows
    /\ screen.CursorCol \in Cols
    /\ screen.NonScrollingRows \in Rows
    /\ screen.ScrollsWithoutInput \in 0..NUM_ROWS
    /\ curWindow \in WindowNums
    /\ windowStart \in [WindowNums -> Rows]
    /\ cursorX \in [WindowNums -> Cols]
    /\ bHasStatus \in BOOLEAN

LineText(s, line) == s.Row[RowOf(s, line)]

\* What is printed to window 0, and each prompt, leaves the lines above it alone, however
\* the text wraps and scrolls (Screen.cpp 74-101, 375-382).
StatusKept ==
    [][curWindow = 0 /\ UNCHANGED <<curWindow, windowStart>>
          /\ (printed' > printed \/ ~bHasStatus)
        => \A line \in 0..(windowStart[0] - 1) :
              LineText(screen', line) = LineText(screen, line)]_vars

\* The letters in window 0 from its top to the cursor.
LettersOf(s, line) ==
    LET before == IF line = LineOf(s, s.CursorRow) THEN s.CursorCol ELSE NUM_COLS
    IN  SelectSeq([i \in 1..before |-> LineText(s, line)[i - 1]],
                  LAMBDA char : char \in {"a", "b", "c", ","})
Text(s) ==
    LET first == s.NonScrollingRows
    IN  FlattenSeq([i \in 1..(LineOf(s, s.CursorRow) - first + 1) |->
                        LettersOf(s, first + i - 1)])

\* What is printed in window 0 comes after what is there, which all stays and stays in
\* order, except the line that scrolls off (Screen.cpp 54-109, 367-395).
TextKept ==
    [][curWindow = 0 /\ printed' = printed + 1 =>
        LET scrolled == screen'.TopLine # screen.TopLine
            off == IF scrolled THEN LettersOf(screen, screen.NonScrollingRows) ELSE <<>>
        IN  \E text \in {NextWord, <<>>} : off \o Text(screen') = Text(screen) \o text]_vars

\* On the first page after an input no line scrolls off before the user was asked to
\* read it (Screen.cpp 113, 384-393).
FirstPageIsRead == ~screen.lost

\* The terminal shows the screen as it is at each ReadInput, with the input field at the
\* cursor, in packets it can take (Screen.cpp 162-209, 217-305).
ShownAsIs == screen.shown

=============================================================================
