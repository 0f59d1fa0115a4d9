---------------------------- MODULE Windows_proofs ----------------------------
(***************************************************************************)
(* Proofs about the windows, for screens of every size and games of any    *)
(* length: the types, that printing leaves the lines above window 0 alone, *)
(* and that no line of the first page scrolls off before it is read.       *)
(*                                                                         *)
(* First what the methods of the screen do to its rows and its cursor,     *)
(* then the functions io... of the windows, each instruction, and the      *)
(* initial states; in the second half the same for the page.               *)
(***************************************************************************)
EXTENDS Windows, FiniteSetTheorems, TLAPS

\* The folds of the model, each with the operator it folds.
Printing == INSTANCE Folding WITH op <- ScreenPrintChar
Prompting == INSTANCE Folding WITH op <- PutMore
Moving == INSTANCE Folding WITH op <- MoveChar
Writing == INSTANCE Folding WITH op <- ioPrintChar
Blanking == INSTANCE Folding WITH op <- EraseLine
Erasing == INSTANCE Folding WITH op <- ioEraseWindow

--------------------------------------------------------------------------------
(***************************************************************************)
(* The screen: what the steps of printing change.                          *)
(***************************************************************************)
\* What the model prints.
Chars == {Space, "-", ",", ".", "a", "b", "c", "1", "menu", "room", "score", "\n"}
            \cup {MORE[i] : i \in DOMAIN MORE}

\* The screens that the operators are defined on, in the middle of a method too: a
\* letter may be behind the last column, and a scroll counted beyond the last row.
Screens ==
    [Row : [Rows -> [Cols -> Chars]], TopLine : Rows, CursorRow : Rows,
     CursorCol : 0..NUM_COLS, NonScrollingRows : Rows,
     ScrollsWithoutInput : 0..(NUM_ROWS + 1), bWordwrap : BOOLEAN,
     unread : SUBSET Rows, paged : BOOLEAN, lost : BOOLEAN, shown : BOOLEAN]

\* Between two characters neither is so, and a word is wrapped only at a row's
\* beginning.
AtRest(s) ==
    /\ s \in Screens
    /\ s.CursorCol \in Cols
    /\ s.ScrollsWithoutInput \in 0..NUM_ROWS
    /\ s.bWordwrap => s.CursorCol = 0

\* The folds of the model are those of the instances.
LEMMA FoldsAgree ==
    ASSUME NEW base, NEW seq
    PROVE  /\ FoldLeft(ScreenPrintChar, base, seq) = Printing!Folded(base, seq)
           /\ FoldLeft(PutMore, base, seq) = Prompting!Folded(base, seq)
           /\ FoldLeft(MoveChar, base, seq) = Moving!Folded(base, seq)
           /\ FoldLeft(ioPrintChar, base, seq) = Writing!Folded(base, seq)
           /\ FoldLeft(EraseLine, base, seq) = Blanking!Folded(base, seq)
           /\ FoldLeft(ioEraseWindow, base, seq) = Erasing!Folded(base, seq)
<1>1. FoldLeft(ScreenPrintChar, base, seq) = Printing!Folded(base, seq)
  BY DEF FoldLeft, MapThenFoldSet, Max, Printing!Folded, Printing!FoldLeft,
         Printing!MapThenFoldSet, Printing!Max
<1>2. FoldLeft(PutMore, base, seq) = Prompting!Folded(base, seq)
  BY DEF FoldLeft, MapThenFoldSet, Max, Prompting!Folded, Prompting!FoldLeft,
         Prompting!MapThenFoldSet, Prompting!Max
<1>3. FoldLeft(MoveChar, base, seq) = Moving!Folded(base, seq)
  BY DEF FoldLeft, MapThenFoldSet, Max, Moving!Folded, Moving!FoldLeft,
         Moving!MapThenFoldSet, Moving!Max
<1>4. FoldLeft(ioPrintChar, base, seq) = Writing!Folded(base, seq)
  BY DEF FoldLeft, MapThenFoldSet, Max, Writing!Folded, Writing!FoldLeft,
         Writing!MapThenFoldSet, Writing!Max
<1>5. FoldLeft(EraseLine, base, seq) = Blanking!Folded(base, seq)
  BY DEF FoldLeft, MapThenFoldSet, Max, Blanking!Folded, Blanking!FoldLeft,
         Blanking!MapThenFoldSet, Blanking!Max
<1>6. FoldLeft(ioEraseWindow, base, seq) = Erasing!Folded(base, seq)
  BY DEF FoldLeft, MapThenFoldSet, Max, Erasing!Folded, Erasing!FoldLeft,
         Erasing!MapThenFoldSet, Erasing!Max
<1> QED
  BY <1>1, <1>2, <1>3, <1>4, <1>5, <1>6

\* The assumptions on the constants, as the proofs use them.
LEMMA SizeFacts ==
    /\ NUM_ROWS \in Nat /\ NUM_ROWS >= 3 /\ NUM_COLS \in Nat /\ NUM_COLS >= 3
    /\ MaxSplit \in 0..(NUM_ROWS - 3) /\ Len(MORE) < NUM_COLS
    /\ DOMAIN MORE = 1..Len(MORE) /\ Len(MORE) \in Nat
    /\ \A i \in DOMAIN MORE : MORE[i] \in Chars
<1>1. MORE \in Seq(STRING) /\ Len(MORE) < NUM_COLS
  BY SizesAssumption
<1>2. DOMAIN MORE = 1..Len(MORE) /\ Len(MORE) \in Nat
  BY <1>1
<1>3. MaxSplit \in 0..(NUM_ROWS - 3) /\ NUM_ROWS \in Nat /\ NUM_COLS \in Nat \ {0, 1, 2}
  BY SizesAssumption, WindowsAssumption
<1>4. NUM_ROWS >= 3 /\ NUM_COLS \in Nat /\ NUM_COLS >= 3
  BY <1>3
<1>5. \A i \in DOMAIN MORE : MORE[i] \in Chars
  BY DEF Chars
<1> QED
  BY <1>1, <1>2, <1>3, <1>4, <1>5

\* The fields of a screen have their types.
LEMMA ScreenFields ==
    ASSUME NEW s \in Screens
    PROVE  /\ s.Row \in [Rows -> [Cols -> Chars]]
           /\ s.TopLine \in Rows /\ s.CursorRow \in Rows /\ s.NonScrollingRows \in Rows
           /\ s.CursorCol \in 0..NUM_COLS /\ s.ScrollsWithoutInput \in 0..(NUM_ROWS + 1)
           /\ s.bWordwrap \in BOOLEAN /\ s.paged \in BOOLEAN /\ s.lost \in BOOLEAN
           /\ s.shown \in BOOLEAN /\ s.unread \in SUBSET Rows
BY DEF Screens


\* From s to t at most the row named row, the column and what is unread change.
WritesRow(s, t, row) ==
    /\ t \in Screens
    /\ t.TopLine = s.TopLine /\ t.CursorRow = s.CursorRow
    /\ t.NonScrollingRows = s.NonScrollingRows /\ t.bWordwrap = s.bWordwrap
    /\ t.ScrollsWithoutInput = s.ScrollsWithoutInput
    /\ t.paged = s.paged /\ t.lost = s.lost
    /\ t.unread \subseteq s.unread \cup {row}
    /\ \A r \in Rows \ {row} : t.Row[r] = s.Row[r]

\* A letter that is put in a row changes only that row.
LEMMA PutKeeps ==
    ASSUME NEW s \in Screens, NEW row \in Rows, NEW col \in Cols, NEW char \in Chars
    PROVE  /\ WritesRow(s, Put(s, row, col, char), row)
           /\ Put(s, row, col, char).CursorCol = s.CursorCol
           /\ char = Space => Put(s, row, col, char).unread = s.unread
<1> DEFINE p == Put(s, row, col, char)
<1>1. p = [s EXCEPT !.Row[row][col] = char,
                    !.unread = IF char = Space THEN s.unread ELSE s.unread \cup {row}]
  BY DEF Put
<1>2. s.Row \in [Rows -> [Cols -> Chars]] /\ s.unread \in SUBSET Rows
  BY DEF Screens
<1> HIDE DEF p
<1>3. p.Row = [s.Row EXCEPT ![row][col] = char]
  BY <1>1, <1>2 DEF Screens
<1>4. p.Row \in [Rows -> [Cols -> Chars]] /\ \A r \in Rows \ {row} : p.Row[r] = s.Row[r]
  BY <1>2, <1>3
<1>5. /\ p.unread \in SUBSET Rows /\ p.unread \subseteq s.unread \cup {row}
      /\ char = Space => p.unread = s.unread
  BY <1>1, <1>2 DEF Screens
<1>6. p = [s EXCEPT !.Row = p.Row, !.unread = p.unread]
  BY <1>1, <1>3 DEF Screens
<1>7. p \in Screens
  BY <1>4, <1>5, <1>6 DEF Screens
<1>8. WritesRow(s, p, row) /\ p.CursorCol = s.CursorCol
  BY <1>4, <1>5, <1>6, <1>7 DEF Screens, WritesRow
<1> QED
  BY <1>5, <1>8 DEF p

\* A letter at the cursor changes only the cursor's row, and the cursor goes on by a
\* column.
LEMMA PutAtCursorKeeps ==
    ASSUME NEW s \in Screens, s.CursorCol \in Cols, NEW char \in Chars
    PROVE  /\ WritesRow(s, PutAtCursor(s, char), s.CursorRow)
           /\ PutAtCursor(s, char).CursorCol = s.CursorCol + 1
           /\ char = Space => PutAtCursor(s, char).unread = s.unread
<1> DEFINE q == Put(s, s.CursorRow, s.CursorCol, char)
           p == PutAtCursor(s, char)
<1>1. s.CursorRow \in Rows
  BY ScreenFields
<1>2. /\ WritesRow(s, q, s.CursorRow) /\ q.CursorCol = s.CursorCol
      /\ char = Space => q.unread = s.unread
  BY <1>1, PutKeeps
<1>3. p = [q EXCEPT !.CursorCol = q.CursorCol + 1]
  BY DEF PutAtCursor
<1> HIDE DEF q, p
<1>4. s.CursorCol + 1 \in 0..NUM_COLS
  BY SizeFacts DEF Cols
<1>5. q \in Screens
  BY <1>2 DEF WritesRow
<1>6. p = [q EXCEPT !.CursorCol = s.CursorCol + 1]
  BY <1>2, <1>3
<1>7. p \in Screens /\ p.CursorCol = s.CursorCol + 1 /\ p.unread = q.unread
  BY <1>4, <1>5, <1>6 DEF Screens
<1>8. WritesRow(s, p, s.CursorRow)
  BY <1>2, <1>5, <1>6, <1>7 DEF Screens, WritesRow
<1> QED
  BY <1>2, <1>7, <1>8 DEF p

\* From s to t the user has read the page.
Pages(s, t) ==
    /\ t \in Screens
    /\ t.TopLine = s.TopLine /\ t.CursorRow = s.CursorRow
    /\ t.NonScrollingRows = s.NonScrollingRows
    /\ t.ScrollsWithoutInput = 0 /\ t.unread = {} /\ t.lost = s.lost

\* Waiting for input shows the page, and changes no text.
LEMMA AskKeeps ==
    ASSUME NEW s \in Screens
    PROVE  /\ Pages(s, Ask(s))
           /\ Ask(s).Row = s.Row /\ Ask(s).CursorCol = s.CursorCol
           /\ Ask(s).paged = s.paged /\ Ask(s).bWordwrap = s.bWordwrap
<1> DEFINE a == Ask(s)
           shown == s.shown /\ ShowsScreen(s)
<1>1. shown \in BOOLEAN
  OBVIOUS
<1>2. a = [s EXCEPT !.ScrollsWithoutInput = 0, !.unread = {}, !.shown = shown]
  BY DEF Ask
<1>3. 0 \in 0..(NUM_ROWS + 1) /\ {} \in SUBSET Rows
  BY SizeFacts
<1> HIDE DEF a, shown
<1>4. a \in Screens
  BY <1>1, <1>2, <1>3 DEF Screens
<1>5. /\ Pages(s, a) /\ a.Row = s.Row /\ a.CursorCol = s.CursorCol
      /\ a.paged = s.paged /\ a.bWordwrap = s.bWordwrap
  BY <1>2, <1>4 DEF Screens, Pages
<1> QED
  BY <1>5 DEF a

\* The [MORE] prompt shows the page, and changes only the row it is written in.
LEMMA MoreKeeps ==
    ASSUME NEW s \in Screens
    PROVE  /\ Pages(s, More(s))
           /\ More(s).CursorCol = 0 /\ More(s).bWordwrap = s.bWordwrap
           /\ More(s).paged = TRUE
           /\ \A r \in Rows \ {s.CursorRow} : More(s).Row[r] = s.Row[r]
<1> DEFINE seq == [i \in DOMAIN MORE |-> i]
           Like == {t \in Screens : WritesRow(s, t, s.CursorRow)}
           prompt == FoldLeft(PutMore, s, seq)
           waiting == [prompt EXCEPT !.CursorCol = Len(MORE), !.bWordwrap = FALSE]
           asked == Ask(waiting)
           m == More(s)
<1>1. s \in Like
  BY DEF WritesRow
<1>2. ASSUME NEW t \in Like, NEW i \in 1..Len(MORE) PROVE PutMore(t, seq[i]) \in Like
  <2>1. t \in Screens /\ t.CursorRow = s.CursorRow /\ s.CursorRow \in Rows
    BY ScreenFields DEF WritesRow
  <2>2. seq[i] = i /\ i - 1 \in Cols /\ MORE[i] \in Chars
    BY SizeFacts DEF Cols
  <2> DEFINE p == Put(t, s.CursorRow, i - 1, MORE[i])
  <2>3. PutMore(t, seq[i]) = p
    BY <2>1, <2>2 DEF PutMore
  <2>4. WritesRow(t, p, s.CursorRow)
    BY <2>1, <2>2, PutKeeps
  <2> HIDE DEF p
  <2>5. WritesRow(s, p, s.CursorRow)
    BY <2>4 DEF WritesRow
  <2> QED
    BY <2>3, <2>5 DEF WritesRow
<1>3. prompt = Prompting!Folded(s, seq)
  BY FoldsAgree, Zenon
<1>4. DOMAIN seq = 1..Len(MORE) /\ Len(MORE) \in Nat
  BY SizeFacts
<1> HIDE DEF seq, Like, prompt
<1>5. prompt \in Like
  BY <1>1, <1>2, <1>3, <1>4, Prompting!FoldKeeps
<1>6. prompt \in Screens /\ WritesRow(s, prompt, s.CursorRow)
  BY <1>5 DEF Like
<1>7. waiting \in Screens
  <2>1. Len(MORE) \in 0..NUM_COLS /\ FALSE \in BOOLEAN
    BY SizeFacts
  <2> QED
    BY <1>6, <2>1 DEF Screens
<1>8. /\ waiting.Row = prompt.Row /\ waiting.TopLine = prompt.TopLine
      /\ waiting.CursorRow = prompt.CursorRow /\ waiting.lost = prompt.lost
      /\ waiting.NonScrollingRows = prompt.NonScrollingRows
  BY <1>6 DEF Screens
<1>9. m = [asked EXCEPT !.CursorCol = 0, !.bWordwrap = s.bWordwrap, !.paged = TRUE]
  BY DEF More, seq, prompt
<1> HIDE DEF waiting
<1>10. Pages(waiting, asked) /\ asked.Row = waiting.Row
  BY <1>7, AskKeeps
<1> HIDE DEF asked, m
<1>11. asked \in Screens
  BY <1>10 DEF Pages
<1>12. 0 \in 0..NUM_COLS /\ s.bWordwrap \in BOOLEAN /\ TRUE \in BOOLEAN
  BY SizeFacts, ScreenFields
<1>13. m \in Screens
  BY <1>9, <1>11, <1>12 DEF Screens
<1>14. /\ m.CursorCol = 0 /\ m.bWordwrap = s.bWordwrap /\ m.paged = TRUE
       /\ m.Row = asked.Row /\ m.TopLine = asked.TopLine
       /\ m.CursorRow = asked.CursorRow /\ m.lost = asked.lost
       /\ m.NonScrollingRows = asked.NonScrollingRows /\ m.unread = asked.unread
       /\ m.ScrollsWithoutInput = asked.ScrollsWithoutInput
  BY <1>9, <1>11 DEF Screens
<1>15. Pages(s, m)
  BY <1>6, <1>8, <1>10, <1>13, <1>14 DEF Pages, WritesRow
<1>16. \A r \in Rows \ {s.CursorRow} : m.Row[r] = s.Row[r]
  BY <1>6, <1>8, <1>10, <1>14 DEF WritesRow
<1> QED
  BY <1>14, <1>15, <1>16 DEF m

--------------------------------------------------------------------------------
\* The steps of ConditionalScroll, each with a name: the row behind the cursor's, the
\* cursor there, the ring moved along if that is its first row, and the prompt.
NextRow(s) == IF s.CursorRow + 1 >= NUM_ROWS THEN 0 ELSE s.CursorRow + 1
Moved(s) == [s EXCEPT !.CursorCol = 0, !.CursorRow = NextRow(s)]
Scrolled(s) == IF NextRow(s) = s.TopLine THEN Scroll(Moved(s)) ELSE Moved(s)
Read(s) == IF NeedsMore(Scrolled(s)) THEN More(Scrolled(s)) ELSE Scrolled(s)

\* The remainders that the rows of the ring are found by.
LEMMA RingFacts ==
    ASSUME NEW top \in Rows
    PROVE  /\ \A line \in 0..NUM_ROWS :
                (top + line) % NUM_ROWS
                    = IF top + line >= NUM_ROWS THEN top + line - NUM_ROWS ELSE top + line
           /\ \A row \in Rows :
                /\ (row - top + NUM_ROWS) % NUM_ROWS
                    = IF row - top < 0 THEN row - top + NUM_ROWS ELSE row - top
                /\ (row - 1 + NUM_ROWS) % NUM_ROWS
                    = IF row = 0 THEN NUM_ROWS - 1 ELSE row - 1
<1>1. /\ top \in Nat /\ top < NUM_ROWS /\ NUM_ROWS \in Nat
      /\ NUM_ROWS > 0
  BY SizeFacts DEF Rows
<1>2. ASSUME NEW x \in Int, x >= 0, x < 2 * NUM_ROWS
      PROVE  x % NUM_ROWS = IF x >= NUM_ROWS THEN x - NUM_ROWS ELSE x
  BY <1>1, <1>2
<1> QED
  BY <1>1, <1>2 DEF Rows

\* One row on in a ring of n rows that begins one later is the same row.
LEMMA RingStep ==
    ASSUME NEW n \in Nat, NEW a \in 0..(n - 1), NEW k \in 0..(n - 2),
           NEW top, top = IF a + 1 = n THEN 0 ELSE a + 1,
           NEW x, x = IF top + k >= n THEN top + k - n ELSE top + k
    PROVE  /\ x = IF a + (k + 1) >= n THEN a + (k + 1) - n ELSE a + (k + 1)
           /\ (IF x = 0 THEN n - 1 ELSE x - 1) = IF a + k >= n THEN a + k - n ELSE a + k
OBVIOUS

\* The cursor at the next row.
LEMMA MovedFacts ==
    ASSUME NEW s \in Screens
    PROVE  /\ NextRow(s) \in Rows
           /\ Moved(s) \in Screens
           /\ Moved(s).CursorCol = 0 /\ Moved(s).CursorRow = NextRow(s)
           /\ Moved(s).Row = s.Row /\ Moved(s).TopLine = s.TopLine
           /\ Moved(s).NonScrollingRows = s.NonScrollingRows
           /\ Moved(s).ScrollsWithoutInput = s.ScrollsWithoutInput
           /\ Moved(s).bWordwrap = s.bWordwrap /\ Moved(s).unread = s.unread
           /\ Moved(s).paged = s.paged /\ Moved(s).lost = s.lost
<1>1. NextRow(s) \in Rows
  BY SizeFacts, ScreenFields DEF NextRow, Rows
<1>2. 0 \in 0..NUM_COLS
  BY SizeFacts
<1> DEFINE row == NextRow(s)
<1> HIDE DEF row
<1>3. Moved(s) = [s EXCEPT !.CursorCol = 0, !.CursorRow = row] /\ row \in Rows
  BY <1>1 DEF Moved, row
<1>4. /\ Moved(s) \in Screens
      /\ Moved(s).CursorCol = 0 /\ Moved(s).CursorRow = row
      /\ Moved(s).Row = s.Row /\ Moved(s).TopLine = s.TopLine
      /\ Moved(s).NonScrollingRows = s.NonScrollingRows
      /\ Moved(s).ScrollsWithoutInput = s.ScrollsWithoutInput
      /\ Moved(s).bWordwrap = s.bWordwrap /\ Moved(s).unread = s.unread
      /\ Moved(s).paged = s.paged /\ Moved(s).lost = s.lost
  BY <1>2, <1>3 DEF Screens
<1> QED
  BY <1>1, <1>4 DEF row

\* From s to t the ring has moved one row along, below the rows that do not scroll.
Scrolls(s, t) ==
    /\ t \in Screens
    /\ t.TopLine = (s.TopLine + 1) % NUM_ROWS
    /\ t.CursorRow = s.CursorRow /\ t.CursorCol = s.CursorCol
    /\ t.NonScrollingRows = s.NonScrollingRows /\ t.bWordwrap = s.bWordwrap
    /\ t.ScrollsWithoutInput = s.ScrollsWithoutInput + 1
    /\ t.paged = s.paged
    /\ \A line \in 0..(s.NonScrollingRows - 1) : LineText(t, line) = LineText(s, line)
    /\ \A row \in t.unread :
          row \in s.unread /\ LineOf(s, row) \in {0} \cup (s.NonScrollingRows + 1)..(NUM_ROWS - 1)
    /\ t.lost => s.lost \/ (RowOf(s, s.NonScrollingRows) \in s.unread /\ ~s.paged)

\* Scroll (Screen.cpp 346-382) moves the rows that do not scroll along, and loses the
\* first one that does.
LEMMA ScrollScrolls ==
    ASSUME NEW s \in Screens, s.ScrollsWithoutInput \in 0..NUM_ROWS
    PROVE  Scrolls(s, Scroll(s))
<1> DEFINE kept == {RowOf(s, line + 1) : line \in 0..(s.NonScrollingRows - 1)}
           first == RowOf(s, s.NonScrollingRows)
           rows == [row \in Rows |->
                       IF row \in kept THEN s.Row[(row - 1 + NUM_ROWS) % NUM_ROWS]
                       ELSE s.Row[row]]
           unread == s.unread \ (kept \cup {first})
           lost == s.lost \/ (first \in s.unread /\ ~s.paged)
           top == (s.TopLine + 1) % NUM_ROWS
           scrolls == s.ScrollsWithoutInput + 1
           t == Scroll(s)
<1>1. t = [s EXCEPT !.Row = rows, !.unread = unread, !.lost = lost, !.TopLine = top,
                    !.ScrollsWithoutInput = scrolls]
  BY DEF Scroll
<1>2. /\ s.TopLine \in Rows /\ s.NonScrollingRows \in Rows /\ s.unread \in SUBSET Rows
      /\ s.Row \in [Rows -> [Cols -> Chars]] /\ NUM_ROWS \in Nat /\ NUM_ROWS >= 3
  BY ScreenFields, SizeFacts
<1>3. top = IF s.TopLine + 1 = NUM_ROWS THEN 0 ELSE s.TopLine + 1
  <2>1. 1 \in 0..NUM_ROWS
    BY <1>2
  <2>2. top = IF s.TopLine + 1 >= NUM_ROWS THEN s.TopLine + 1 - NUM_ROWS ELSE s.TopLine + 1
    BY <1>2, <2>1, RingFacts
  <2> QED
    BY <1>2, <2>2 DEF Rows
<1>4. ASSUME NEW row \in Rows PROVE (row - 1 + NUM_ROWS) % NUM_ROWS \in Rows
  BY <1>2 DEF Rows
<1>5. rows \in [Rows -> [Cols -> Chars]]
  BY <1>2, <1>4
<1>6. unread \in SUBSET Rows /\ lost \in BOOLEAN /\ scrolls \in 0..(NUM_ROWS + 1)
  BY <1>2
<1>7. top \in Rows
  BY <1>2, <1>3 DEF Rows
<1>8. ASSUME NEW line \in 0..(s.NonScrollingRows - 1)
      PROVE  /\ (top + line) % NUM_ROWS \in Rows
             /\ (top + line) % NUM_ROWS = RowOf(s, line + 1)
             /\ (((top + line) % NUM_ROWS) - 1 + NUM_ROWS) % NUM_ROWS = RowOf(s, line)
  <2>1. line \in 0..NUM_ROWS /\ line + 1 \in 0..NUM_ROWS
    BY <1>2 DEF Rows
  <2>2. (top + line) % NUM_ROWS
            = IF top + line >= NUM_ROWS THEN top + line - NUM_ROWS ELSE top + line
    BY <1>7, <2>1, RingFacts
  <2>3. /\ RowOf(s, line) = IF s.TopLine + line >= NUM_ROWS
                            THEN s.TopLine + line - NUM_ROWS ELSE s.TopLine + line
        /\ RowOf(s, line + 1) = IF s.TopLine + (line + 1) >= NUM_ROWS
                                THEN s.TopLine + (line + 1) - NUM_ROWS
                                ELSE s.TopLine + (line + 1)
    BY <1>2, <2>1, RingFacts DEF RowOf
  <2> HIDE DEF top
  <2> DEFINE x == (top + line) % NUM_ROWS
  <2>4. x \in Rows
    BY <1>2, <1>7, <2>1, <2>2 DEF Rows
  <2>5. (x - 1 + NUM_ROWS) % NUM_ROWS = IF x = 0 THEN NUM_ROWS - 1 ELSE x - 1
    BY <2>4, RingFacts
  <2>6. s.TopLine \in Int /\ line \in Int
    BY <1>2, <2>1 DEF Rows
  <2> HIDE DEF x
  <2>7. /\ x = IF top + line >= NUM_ROWS THEN top + line - NUM_ROWS ELSE top + line
        /\ (x - 1 + NUM_ROWS) % NUM_ROWS = IF x = 0 THEN NUM_ROWS - 1 ELSE x - 1
    BY <2>2, <2>5 DEF x
  <2>8. x = RowOf(s, line + 1) /\ (x - 1 + NUM_ROWS) % NUM_ROWS = RowOf(s, line)
    <3>1. s.TopLine \in 0..(NUM_ROWS - 1) /\ line \in 0..(NUM_ROWS - 2)
      BY <1>2 DEF Rows
    <3>2. x = IF top + line >= NUM_ROWS THEN top + line - NUM_ROWS ELSE top + line
      BY <2>7
    <3> QED
      BY <1>2, <1>3, <2>3, <2>7, <3>1, <3>2, RingStep
  <2> QED
    BY <2>4, <2>8 DEF x
<1> HIDE DEF t
<1>9. /\ t.Row = rows /\ t.unread = unread /\ t.lost = lost /\ t.TopLine = top
      /\ t.ScrollsWithoutInput = scrolls
      /\ t.CursorRow = s.CursorRow /\ t.CursorCol = s.CursorCol
      /\ t.NonScrollingRows = s.NonScrollingRows /\ t.bWordwrap = s.bWordwrap
      /\ t.paged = s.paged
  BY <1>1 DEF Screens
<1>10. t \in Screens
  <2> HIDE DEF rows, unread, lost, top, scrolls
  <2> QED
    BY <1>1, <1>5, <1>6, <1>7 DEF Screens
<1>11. ASSUME NEW line \in 0..(s.NonScrollingRows - 1)
       PROVE  LineText(t, line) = LineText(s, line)
  <2> DEFINE x == (top + line) % NUM_ROWS
  <2>1. x \in Rows /\ x \in kept /\ (x - 1 + NUM_ROWS) % NUM_ROWS = RowOf(s, line)
    BY <1>8
  <2> HIDE DEF x
  <2>2. rows[x] = s.Row[RowOf(s, line)]
    BY <2>1
  <2> QED
    BY <1>9, <2>2 DEF LineText, RowOf, x
<1>12. ASSUME NEW row \in t.unread
       PROVE  /\ row \in s.unread
              /\ LineOf(s, row) \in {0} \cup (s.NonScrollingRows + 1)..(NUM_ROWS - 1)
  <2>1. row \in Rows /\ row \in s.unread /\ row \notin kept /\ row # first
    BY <1>2, <1>9
  <2>2. LineOf(s, row) = IF row - s.TopLine < 0 THEN row - s.TopLine + NUM_ROWS
                         ELSE row - s.TopLine
    BY <1>2, <2>1, RingFacts DEF LineOf
  <2>3. LineOf(s, row) \in Rows
    BY <1>2, <2>1, <2>2 DEF Rows
  <2>4. RowOf(s, LineOf(s, row)) = row
    <3>1. LineOf(s, row) \in 0..NUM_ROWS
      BY <1>2, <2>3 DEF Rows
    <3>2. RowOf(s, LineOf(s, row))
            = IF s.TopLine + LineOf(s, row) >= NUM_ROWS
              THEN s.TopLine + LineOf(s, row) - NUM_ROWS ELSE s.TopLine + LineOf(s, row)
      BY <1>2, <3>1, RingFacts DEF RowOf
    <3> QED
      BY <1>2, <2>1, <2>2, <3>2 DEF Rows
  <2>5. LineOf(s, row) # s.NonScrollingRows
    BY <2>1, <2>4
  <2>6. ASSUME LineOf(s, row) \in 1..(s.NonScrollingRows - 1) PROVE FALSE
    <3>1. LineOf(s, row) - 1 \in 0..(s.NonScrollingRows - 1)
      BY <1>2, <2>3, <2>6 DEF Rows
    <3>2. RowOf(s, (LineOf(s, row) - 1) + 1) \in kept
      BY <3>1
    <3>3. (LineOf(s, row) - 1) + 1 = LineOf(s, row)
      BY <2>3 DEF Rows
    <3> QED
      BY <2>1, <2>4, <3>2, <3>3
  <2> QED
    BY <1>2, <2>1, <2>3, <2>5, <2>6 DEF Rows
<1>13. t.lost => s.lost \/ (RowOf(s, s.NonScrollingRows) \in s.unread /\ ~s.paged)
  BY <1>9
<1> QED
  BY <1>9, <1>10, <1>11, <1>12, <1>13 DEF Scrolls, t

\* The next row is the first of the ring.
Scrolling(s) == NextRow(s) = s.TopLine

\* The screen before the prompt.
LEMMA ScrolledFacts ==
    ASSUME NEW s \in Screens, s.ScrollsWithoutInput \in 0..NUM_ROWS
    PROVE  LET t == Scrolled(s) IN
           /\ t \in Screens
           /\ t.CursorRow = NextRow(s) /\ t.CursorCol = 0
           /\ t.NonScrollingRows = s.NonScrollingRows /\ t.bWordwrap = s.bWordwrap
           /\ t.paged = s.paged
           /\ Scrolling(s) => Scrolls(Moved(s), t)
           /\ ~Scrolling(s) => t = Moved(s)
<1>1. CASE Scrolling(s)
  <2>1. Scrolled(s) = Scroll(Moved(s))
    BY <1>1 DEF Scrolling, Scrolled
  <2>2. Scrolls(Moved(s), Scroll(Moved(s)))
    BY MovedFacts, ScrollScrolls
  <2> QED
    BY <1>1, <2>1, <2>2, MovedFacts DEF Scrolls
<1>2. CASE ~Scrolling(s)
  <2>1. Scrolled(s) = Moved(s)
    BY <1>2 DEF Scrolling, Scrolled
  <2> QED
    BY <1>2, <2>1, MovedFacts
<1> QED
  BY <1>1, <1>2

\* From s to c the cursor has gone to the next row, with a scroll if that is the first
\* row of the ring.
StepsDown(s, c) ==
    /\ AtRest(c) /\ c.CursorCol = 0 /\ c.CursorRow = NextRow(s)
    /\ c.NonScrollingRows = s.NonScrollingRows /\ c.bWordwrap = s.bWordwrap
\* Of the text only the new row changes, or the lines at the top stay.
KeepsRows(s, c) ==
    /\ ~Scrolling(s) => /\ c.TopLine = s.TopLine
                        /\ \A r \in Rows \ {NextRow(s)} : c.Row[r] = s.Row[r]
    /\ Scrolling(s) => /\ c.TopLine = (s.TopLine + 1) % NUM_ROWS
                       /\ \A line \in 0..(s.NonScrollingRows - 1) :
                             LineText(c, line) = LineText(s, line)

\* What of it the user has to read.
Counted(s) == s.ScrollsWithoutInput + (IF Scrolling(s) THEN 1 ELSE 0)
KeepsUnread(s, c) ==
    /\ \/ /\ c.paged = TRUE /\ c.unread = {} /\ c.ScrollsWithoutInput = 0
          /\ Counted(s) > NUM_ROWS - s.NonScrollingRows
       \/ /\ c.paged = s.paged /\ c.ScrollsWithoutInput = Counted(s)
          /\ Counted(s) <= NUM_ROWS - s.NonScrollingRows
          /\ \A r \in c.unread :
                /\ r \in s.unread /\ r # NextRow(s)
                /\ Scrolling(s)
                      => LineOf(s, r) \in (s.NonScrollingRows + 1)..(NUM_ROWS - 1)
    /\ c.lost => \/ s.lost
                 \/ /\ Scrolling(s) /\ ~s.paged
                    /\ RowOf(s, s.NonScrollingRows) \in s.unread

\* A row that is cleared is all that changes, and nothing in it is left to read.
LEMMA ClearRowFacts ==
    ASSUME NEW s \in Screens, NEW row \in Rows
    PROVE  LET c == ClearRow(s, row) IN
           /\ c \in Screens
           /\ c.TopLine = s.TopLine /\ c.CursorRow = s.CursorRow
           /\ c.CursorCol = s.CursorCol /\ c.NonScrollingRows = s.NonScrollingRows
           /\ c.ScrollsWithoutInput = s.ScrollsWithoutInput
           /\ c.bWordwrap = s.bWordwrap /\ c.paged = s.paged /\ c.lost = s.lost
           /\ c.unread = s.unread \ {row}
           /\ \A r \in Rows \ {row} : c.Row[r] = s.Row[r]
<1> DEFINE rows == [s.Row EXCEPT ![row] = EmptyRow]
           unread == s.unread \ {row}
           c == ClearRow(s, row)
<1>1. s.Row \in [Rows -> [Cols -> Chars]] /\ s.unread \in SUBSET Rows
  BY ScreenFields
<1>2. EmptyRow \in [Cols -> Chars]
  BY DEF EmptyRow, Chars
<1>3. rows \in [Rows -> [Cols -> Chars]] /\ unread \in SUBSET Rows
  BY <1>1, <1>2
<1>4. \A r \in Rows \ {row} : rows[r] = s.Row[r]
  BY <1>1
<1>5. c = [s EXCEPT !.Row = rows, !.unread = unread]
  BY DEF ClearRow
<1> HIDE DEF c, rows, unread
<1>6. /\ c \in Screens /\ c.Row = rows /\ c.unread = unread
      /\ c.TopLine = s.TopLine /\ c.CursorRow = s.CursorRow
      /\ c.CursorCol = s.CursorCol /\ c.NonScrollingRows = s.NonScrollingRows
      /\ c.ScrollsWithoutInput = s.ScrollsWithoutInput
      /\ c.bWordwrap = s.bWordwrap /\ c.paged = s.paged /\ c.lost = s.lost
  BY <1>3, <1>5 DEF Screens
<1> QED
  BY <1>4, <1>6 DEF c, unread

\* ConditionalScroll (Screen.cpp 367-395) does these three things.
LEMMA StepDown ==
    ASSUME NEW s \in Screens, s.ScrollsWithoutInput \in 0..NUM_ROWS
    PROVE  /\ StepsDown(s, ConditionalScroll(s))
           /\ KeepsRows(s, ConditionalScroll(s))
           /\ KeepsUnread(s, ConditionalScroll(s))
<1> DEFINE m == Moved(s)
           t == Scrolled(s)
           q == Read(s)
           c == ConditionalScroll(s)
           next == NextRow(s)
<1>1. /\ next \in Rows /\ m \in Screens /\ m.Row = s.Row /\ m.TopLine = s.TopLine
      /\ m.NonScrollingRows = s.NonScrollingRows /\ m.unread = s.unread
      /\ m.ScrollsWithoutInput = s.ScrollsWithoutInput
      /\ m.paged = s.paged /\ m.lost = s.lost
  BY MovedFacts
<1>2. /\ t \in Screens
      /\ t.CursorRow = next /\ t.CursorCol = 0
      /\ t.NonScrollingRows = s.NonScrollingRows /\ t.bWordwrap = s.bWordwrap
      /\ t.paged = s.paged
      /\ Scrolling(s) => Scrolls(m, t)
      /\ ~Scrolling(s) => t = m
  BY ScrolledFacts
<1>3. c = ClearRow(q, next)
  BY DEF ConditionalScroll, Read, Scrolled, Moved, NextRow
<1>4. q = IF NeedsMore(t) THEN More(t) ELSE t
  BY DEF Read
<1>5. Pages(t, More(t)) /\ More(t).CursorCol = 0 /\ More(t).bWordwrap = t.bWordwrap
      /\ More(t).paged = TRUE /\ \A r \in Rows \ {next} : More(t).Row[r] = t.Row[r]
  BY <1>2, MoreKeeps
<1> HIDE DEF m, t, q, c, next
<1>6. t.ScrollsWithoutInput = Counted(s)
  BY <1>1, <1>2 DEF Counted, Scrolls
<1>7. NeedsMore(t) <=> Counted(s) > NUM_ROWS - s.NonScrollingRows
  BY <1>2, <1>6 DEF NeedsMore
<1>8. /\ q \in Screens /\ q.CursorRow = next /\ q.CursorCol = 0 /\ q.TopLine = t.TopLine
      /\ q.NonScrollingRows = s.NonScrollingRows /\ q.bWordwrap = s.bWordwrap
      /\ q.lost = t.lost
      /\ \A r \in Rows \ {next} : q.Row[r] = t.Row[r]
  BY <1>2, <1>4, <1>5 DEF Pages
<1>9. \/ /\ q.paged = TRUE /\ q.unread = {} /\ q.ScrollsWithoutInput = 0
         /\ Counted(s) > NUM_ROWS - s.NonScrollingRows
      \/ /\ q.paged = s.paged /\ q.unread = t.unread
         /\ q.ScrollsWithoutInput = Counted(s)
         /\ ~(Counted(s) > NUM_ROWS - s.NonScrollingRows)
  BY <1>2, <1>4, <1>5, <1>6, <1>7 DEF Pages
<1>10. /\ c \in Screens /\ c.CursorRow = next /\ c.CursorCol = 0
       /\ c.TopLine = t.TopLine /\ c.NonScrollingRows = s.NonScrollingRows
       /\ c.bWordwrap = s.bWordwrap /\ c.lost = t.lost /\ c.paged = q.paged
       /\ c.ScrollsWithoutInput = q.ScrollsWithoutInput /\ c.unread = q.unread \ {next}
       /\ \A r \in Rows \ {next} : c.Row[r] = t.Row[r]
  BY <1>1, <1>3, <1>8, ClearRowFacts
<1>11. NUM_ROWS \in Nat /\ NUM_ROWS >= 3 /\ NUM_COLS >= 3 /\ NUM_COLS \in Nat
  BY SizeFacts
<1>12. s.NonScrollingRows \in Rows /\ s.TopLine \in Rows
  BY ScreenFields
<1>13. Counted(s) \in Nat
  BY DEF Counted
<1>14. StepsDown(s, c)
  <2>1. c.ScrollsWithoutInput \in 0..NUM_ROWS
    BY <1>9, <1>10, <1>11, <1>12, <1>13 DEF Rows
  <2>2. 0 \in Cols
    BY <1>11 DEF Cols
  <2> QED
    BY <1>10, <2>1, <2>2 DEF StepsDown, AtRest, next
<1>15. KeepsRows(s, c)
  <2>1. CASE ~Scrolling(s)
    BY <1>1, <1>2, <1>10, <2>1 DEF KeepsRows, next
  <2>2. CASE Scrolling(s)
    <3>1. c.TopLine = (s.TopLine + 1) % NUM_ROWS /\ next = s.TopLine
      BY <1>1, <1>2, <1>10, <2>2 DEF Scrolls, Scrolling, next
    <3>2. ASSUME NEW line \in 0..(s.NonScrollingRows - 1)
          PROVE  LineText(c, line) = LineText(s, line)
      <4>1. LineText(t, line) = LineText(s, line)
        BY <1>1, <1>2, <2>2 DEF Scrolls, LineText, RowOf
      <4>2. line \in 0..NUM_ROWS /\ 1 \in 0..NUM_ROWS /\ line < NUM_ROWS - 1
        BY <1>11, <1>12 DEF Rows
      <4>3. c.TopLine = IF s.TopLine + 1 >= NUM_ROWS THEN s.TopLine + 1 - NUM_ROWS
                        ELSE s.TopLine + 1
        BY <1>12, <3>1, <4>2, RingFacts
      <4>4. c.TopLine \in Rows
        BY <1>10, ScreenFields
      <4>5. RowOf(c, line) = IF c.TopLine + line >= NUM_ROWS
                             THEN c.TopLine + line - NUM_ROWS ELSE c.TopLine + line
        BY <4>2, <4>4, RingFacts DEF RowOf
      <4>6. RowOf(c, line) \in Rows /\ RowOf(c, line) # next
        BY <1>11, <1>12, <3>1, <4>2, <4>3, <4>4, <4>5 DEF Rows
      <4>7. LineText(c, line) = LineText(t, line)
        BY <1>10, <4>6 DEF LineText, RowOf
      <4> QED
        BY <4>1, <4>7
    <3> QED
      BY <2>2, <3>1, <3>2 DEF KeepsRows
  <2> QED
    BY <2>1, <2>2
<1>16. KeepsUnread(s, c)
  <2>1. c.lost => \/ s.lost
                  \/ /\ Scrolling(s) /\ ~s.paged
                     /\ RowOf(s, s.NonScrollingRows) \in s.unread
    <3>1. CASE ~Scrolling(s)
      BY <1>1, <1>2, <1>10, <3>1
    <3>2. CASE Scrolling(s)
      BY <1>1, <1>2, <1>10, <3>2 DEF Scrolls, RowOf
    <3> QED
      BY <3>1, <3>2
  <2>2. CASE /\ q.paged = TRUE /\ q.unread = {} /\ q.ScrollsWithoutInput = 0
             /\ Counted(s) > NUM_ROWS - s.NonScrollingRows
    BY <1>10, <2>1, <2>2 DEF KeepsUnread
  <2>3. CASE /\ q.paged = s.paged /\ q.unread = t.unread
             /\ q.ScrollsWithoutInput = Counted(s)
             /\ ~(Counted(s) > NUM_ROWS - s.NonScrollingRows)
    <3>1. ASSUME NEW r \in c.unread
          PROVE  /\ r \in s.unread /\ r # next
                 /\ Scrolling(s)
                      => LineOf(s, r) \in (s.NonScrollingRows + 1)..(NUM_ROWS - 1)
      <4>1. r \in t.unread /\ r # next
        BY <1>10, <2>3
      <4>2. CASE ~Scrolling(s)
        BY <1>1, <1>2, <4>1, <4>2
      <4>3. CASE Scrolling(s)
        <5>1. /\ r \in s.unread
              /\ LineOf(s, r) \in {0} \cup (s.NonScrollingRows + 1)..(NUM_ROWS - 1)
          BY <1>1, <1>2, <4>1, <4>3 DEF Scrolls, LineOf
        <5>2. r \in Rows
          BY <5>1, ScreenFields
        <5>3. LineOf(s, r) # 0
          <6>1. LineOf(s, r) = IF r - s.TopLine < 0 THEN r - s.TopLine + NUM_ROWS
                               ELSE r - s.TopLine
            BY <1>12, <5>2, RingFacts DEF LineOf
          <6>2. r # s.TopLine
            BY <4>1, <4>3 DEF Scrolling, next
          <6> QED
            BY <1>11, <1>12, <5>2, <6>1, <6>2 DEF Rows
        <5> QED
          BY <4>1, <5>1, <5>3
      <4> QED
        BY <4>2, <4>3
    <3>2. Counted(s) <= NUM_ROWS - s.NonScrollingRows
      BY <1>11, <1>12, <1>13, <2>3 DEF Rows
    <3> QED
      BY <1>10, <2>1, <2>3, <3>1, <3>2 DEF KeepsUnread, next
  <2> QED
    BY <1>9, <2>2, <2>3
<1> QED
  BY <1>14, <1>15, <1>16 DEF c

--------------------------------------------------------------------------------
\* From s to t at most the row of the cursor and the one before it change.
WritesTwoRows(s, t) ==
    /\ t \in Screens
    /\ t.TopLine = s.TopLine /\ t.CursorRow = s.CursorRow
    /\ t.NonScrollingRows = s.NonScrollingRows /\ t.bWordwrap = s.bWordwrap
    /\ t.ScrollsWithoutInput = s.ScrollsWithoutInput
    /\ t.paged = s.paged /\ t.lost = s.lost
    /\ t.unread \subseteq s.unread \cup {s.CursorRow, RowBefore(s)}
    /\ \A r \in Rows \ {s.CursorRow, RowBefore(s)} : t.Row[r] = s.Row[r]

\* The row before a row of the ring is one.
LEMMA RowBeforeIn == ASSUME NEW s \in Screens PROVE RowBefore(s) \in Rows
<1>1. s.CursorRow \in Rows /\ NUM_ROWS \in Nat /\ NUM_ROWS >= 3
  BY ScreenFields, SizeFacts
<1>2. RowBefore(s) = IF s.CursorRow = 0 THEN NUM_ROWS - 1 ELSE s.CursorRow - 1
  BY <1>1, RingFacts DEF RowBefore
<1> QED
  BY <1>1, <1>2 DEF Rows

\* One letter moves, and a letter or a space is left.
LEMMA MoveOne ==
    ASSUME NEW s, NEW t \in Screens, WritesTwoRows(s, t), t.CursorCol \in Cols,
           s \in Screens, NEW col \in Cols, NEW char \in Chars
    PROVE  LET m == Put(PutAtCursor(t, t.Row[RowBefore(t)][col]), RowBefore(t), col, char)
           IN  WritesTwoRows(s, m) /\ m.CursorCol = t.CursorCol + 1
<1>1. RowBefore(t) = RowBefore(s)
  BY DEF RowBefore, WritesTwoRows
<1>2. RowBefore(t) \in Rows
  BY RowBeforeIn
<1> DEFINE moved == t.Row[RowBefore(t)][col]
           p == PutAtCursor(t, moved)
           m == Put(p, RowBefore(t), col, char)
<1>3. moved \in Chars
  <2>1. t.Row \in [Rows -> [Cols -> Chars]]
    BY ScreenFields
  <2> QED
    BY <1>2, <2>1
<1> HIDE DEF moved
<1>4. WritesRow(t, p, t.CursorRow) /\ p.CursorCol = t.CursorCol + 1
  BY <1>3, PutAtCursorKeeps
<1> HIDE DEF p
<1>5. p \in Screens
  BY <1>4 DEF WritesRow
<1>6. WritesRow(p, m, RowBefore(t)) /\ m.CursorCol = p.CursorCol
  BY <1>2, <1>5, PutKeeps
<1> HIDE DEF m
<1>7. WritesTwoRows(s, m)
  BY <1>1, <1>4, <1>6 DEF WritesRow, WritesTwoRows
<1>8. m.CursorCol = t.CursorCol + 1
  BY <1>4, <1>6
<1> QED
  BY <1>7, <1>8 DEF m, p, moved

\* The word that is wrapped changes only two rows, and leaves two columns free.
LEMMA MoveWordKeeps ==
    ASSUME NEW s \in Screens, s.CursorCol = 0
    PROVE  /\ WritesTwoRows(s, MoveWord(s))
           /\ MoveWord(s).CursorCol \in 0..(NUM_COLS - 2)
<1> DEFINE last == RowBefore(s)
           half == NUM_COLS \div 2 + 1
           ends == {col \in half..(NUM_COLS - 1) : s.Row[last][col] \in {Space, ",", "."}}
           end == CHOOSE col \in ends : \A c \in ends : c <= col
           seq == [i \in 1..(NUM_COLS - 1 - end) |-> end + i]
           m == MoveWord(s)
<1>1. m = IF ends # {} THEN FoldLeft(MoveChar, s, seq)
          ELSE Put(PutAtCursor(s, s.Row[last][NUM_COLS - 1]), last, NUM_COLS - 1, "-")
  BY DEF MoveWord
<1>2. NUM_COLS \in Nat /\ NUM_COLS >= 3 /\ half \in Nat /\ half >= 2
  BY SizeFacts
<1>3. WritesTwoRows(s, s)
  BY DEF WritesTwoRows
<1>4. 0 \in Cols /\ NUM_COLS - 1 \in Cols /\ "-" \in Chars /\ Space \in Chars
  BY <1>2 DEF Cols, Chars
<1> HIDE DEF m, half
<1>5. CASE ends = {}
  <2> DEFINE h == Put(PutAtCursor(s, s.Row[last][NUM_COLS - 1]), last, NUM_COLS - 1, "-")
  <2>1. WritesTwoRows(s, h) /\ h.CursorCol = s.CursorCol + 1
    BY <1>3, <1>4, MoveOne
  <2>2. m = h
    BY <1>1, <1>5
  <2> HIDE DEF h
  <2>3. m.CursorCol = 1
    BY <2>1, <2>2
  <2> QED
    BY <1>2, <2>1, <2>2, <2>3 DEF m
<1>6. CASE ends # {}
  <2>1. \E col \in ends : \A c \in ends : c <= col
    <3> DEFINE flipped == {NUM_COLS - col : col \in ends}
    <3>0. ends \in SUBSET (half..(NUM_COLS - 1))
      OBVIOUS
    <3> HIDE DEF ends
    <3>1. flipped \in SUBSET Nat /\ flipped # {}
      <4>1. \A col \in ends : NUM_COLS - col \in Nat
        BY <1>2, <3>0
      <4> QED
        BY <1>6, <4>1
    <3>2. PICK x \in flipped : \A y \in flipped : x <= y
      BY <3>1, Moving!LeastNumber
    <3>3. PICK col \in ends : x = NUM_COLS - col
      BY <3>2
    <3>4. ASSUME NEW c \in ends PROVE c <= col
      <4>1. NUM_COLS - col <= NUM_COLS - c
        BY <3>2, <3>3
      <4>2. c \in Int /\ col \in Int
        BY <1>2, <3>0
      <4> QED
        BY <1>2, <4>1, <4>2
    <3> QED
      BY <3>4
  <2>2. end \in ends
    BY <2>1
  <2>3. end \in half..(NUM_COLS - 1)
    BY <2>2
  <2> HIDE DEF end
  <2> DEFINE n == NUM_COLS - 1 - end
  <2>4. n \in 0..(NUM_COLS - 3)
    BY <1>2, <2>3
  <2>5. end \in Nat /\ end + n = NUM_COLS - 1
    BY <1>2, <2>3
  <2> HIDE DEF n
  <2>6. seq = [i \in 1..n |-> end + i] /\ DOMAIN seq = 1..n
    BY DEF n
  <2> DEFINE Part == [k \in 0..n |-> {t \in Screens : WritesTwoRows(s, t) /\ t.CursorCol = k}]
  <2>7. s \in Part[0]
    BY <1>3, <2>4
  <2>8. ASSUME NEW k \in 0..(n - 1), NEW t \in Part[k]
        PROVE  MoveChar(t, seq[k + 1]) \in Part[k + 1]
    <3>1. t \in Screens /\ WritesTwoRows(s, t) /\ t.CursorCol = k
      BY <2>4
    <3>2. k + 1 \in 1..n /\ seq[k + 1] = end + (k + 1)
      <4>1. k + 1 \in 1..n
        BY <2>4
      <4> HIDE DEF seq
      <4> QED
        BY <2>6, <4>1
    <3>3. end + (k + 1) \in Cols /\ k \in Cols
      BY <1>2, <2>4, <2>5 DEF Cols
    <3> DEFINE col == end + (k + 1)
               r == Put(PutAtCursor(t, t.Row[RowBefore(t)][col]), RowBefore(t), col, Space)
    <3>4. MoveChar(t, seq[k + 1]) = r
      BY <3>2 DEF MoveChar
    <3>5. WritesTwoRows(s, r) /\ r.CursorCol = t.CursorCol + 1
      BY <1>4, <3>1, <3>3, MoveOne
    <3> HIDE DEF r
    <3>6. r \in Screens /\ WritesTwoRows(s, r) /\ r.CursorCol = k + 1
      BY <3>1, <3>5 DEF WritesTwoRows
    <3>7. k + 1 \in 0..n
      BY <2>4
    <3> QED
      BY <3>4, <3>6, <3>7
  <2>9. FoldLeft(MoveChar, s, seq) = Moving!Folded(s, seq)
    BY FoldsAgree, Zenon
  <2> HIDE DEF seq, Part, ends
  <2>10. n \in Nat
    BY <2>4
  <2>11. Moving!Folded(s, seq) \in Part[n]
    BY <2>6, <2>7, <2>8, <2>10, Moving!FoldGoes
  <2>12. m \in Part[n]
    BY <1>1, <1>6, <2>9, <2>11
  <2>13. WritesTwoRows(s, m) /\ m.CursorCol = n
    BY <2>4, <2>12 DEF Part
  <2>14. m.CursorCol \in 0..(NUM_COLS - 2)
    BY <1>2, <2>4, <2>13
  <2> QED
    BY <2>13, <2>14 DEF m
<1> QED
  BY <1>5, <1>6

--------------------------------------------------------------------------------
\* The characters that leave nothing to read.
Blank == {Space, "\n"}

\* The rows that a character goes to.
Touched(s, char) ==
    IF char \in Blank THEN {}
    ELSE IF s.bWordwrap THEN {s.CursorRow, RowBefore(s)} ELSE {s.CursorRow}

\* From s to w a character has been put, before any step to the next row.
Puts(s, w, char) ==
    /\ w \in Screens
    /\ w.TopLine = s.TopLine /\ w.CursorRow = s.CursorRow
    /\ w.NonScrollingRows = s.NonScrollingRows
    /\ w.ScrollsWithoutInput = s.ScrollsWithoutInput
    /\ w.paged = s.paged /\ w.lost = s.lost
    /\ w.bWordwrap => char \notin Blank
    /\ w.unread \subseteq s.unread \cup Touched(s, char)
    /\ \A r \in Rows \ {s.CursorRow, RowBefore(s)} : w.Row[r] = s.Row[r]

\* The cursor has stayed in its row, or is about to go to the next.
Stays(s, w, char) ==
    /\ AtRest(w) /\ ~w.bWordwrap /\ char # "\n"
    /\ ~s.bWordwrap => w.CursorCol = s.CursorCol + 1
GoesDown(s, w, char) ==
    char = "\n" \/ (~s.bWordwrap /\ s.CursorCol = NUM_COLS - 1)

\* The flag of the word wrap is all that changes.
LEMMA UnwrappedFacts ==
    ASSUME NEW s \in Screens, NEW wrap \in BOOLEAN
    PROVE  LET u == [s EXCEPT !.bWordwrap = wrap] IN
           /\ u \in Screens /\ u.bWordwrap = wrap /\ u.Row = s.Row
           /\ u.TopLine = s.TopLine /\ u.CursorRow = s.CursorRow
           /\ u.CursorCol = s.CursorCol /\ u.NonScrollingRows = s.NonScrollingRows
           /\ u.ScrollsWithoutInput = s.ScrollsWithoutInput
           /\ u.paged = s.paged /\ u.lost = s.lost /\ u.unread = s.unread
BY DEF Screens

\* A letter is put, and if it was the last of the row the cursor steps down.
LEMMA PrintAtCursorSplits ==
    ASSUME NEW s \in Screens, ~s.bWordwrap, s.CursorCol \in Cols,
           s.ScrollsWithoutInput \in 0..NUM_ROWS, NEW char \in Chars, char # "\n"
    PROVE  \E w :
              /\ Puts(s, w, char)
              /\ \/ PrintAtCursor(s, char) = w /\ Stays(s, w, char)
                 \/ /\ PrintAtCursor(s, char) = ConditionalScroll(w)
                    /\ s.CursorCol = NUM_COLS - 1
<1> DEFINE p == PutAtCursor(s, char)
           wrap == char # Space
           u == [p EXCEPT !.bWordwrap = wrap]
<1>1. /\ WritesRow(s, p, s.CursorRow) /\ p.CursorCol = s.CursorCol + 1
      /\ char = Space => p.unread = s.unread
  BY PutAtCursorKeeps
<1>2. PrintAtCursor(s, char) = IF p.CursorCol >= NUM_COLS THEN ConditionalScroll(u) ELSE p
  BY DEF PrintAtCursor
<1>3. wrap \in BOOLEAN
  OBVIOUS
<1> HIDE DEF p
<1>4. p \in Screens
  BY <1>1 DEF WritesRow
<1>5. NUM_COLS \in Nat /\ s.CursorCol \in 0..(NUM_COLS - 1)
  BY SizeFacts DEF Cols
<1>6. p.unread \subseteq s.unread \cup Touched(s, char)
  BY <1>1 DEF WritesRow, Touched, Blank
<1>7. CASE p.CursorCol >= NUM_COLS
  <2>1. /\ u \in Screens /\ u.bWordwrap = wrap /\ u.Row = p.Row
        /\ u.TopLine = p.TopLine /\ u.CursorRow = p.CursorRow
        /\ u.CursorCol = p.CursorCol /\ u.NonScrollingRows = p.NonScrollingRows
        /\ u.ScrollsWithoutInput = p.ScrollsWithoutInput
        /\ u.paged = p.paged /\ u.lost = p.lost /\ u.unread = p.unread
    BY <1>3, <1>4, UnwrappedFacts
  <2>2. PrintAtCursor(s, char) = ConditionalScroll(u)
    BY <1>2, <1>7
  <2> HIDE DEF u
  <2>3. Puts(s, u, char)
    BY <1>1, <1>6, <2>1 DEF Puts, WritesRow, Blank
  <2>4. s.CursorCol = NUM_COLS - 1
    BY <1>1, <1>5, <1>7
  <2> QED
    BY <2>2, <2>3, <2>4
<1>8. CASE ~(p.CursorCol >= NUM_COLS)
  <2>1. PrintAtCursor(s, char) = p
    BY <1>2, <1>8
  <2>2. ~p.bWordwrap
    BY <1>1 DEF WritesRow
  <2>3. Puts(s, p, char)
    BY <1>1, <1>4, <1>6, <2>2 DEF Puts, WritesRow
  <2>4. p.CursorCol \in Cols
    BY <1>1, <1>5, <1>8 DEF Cols
  <2>5. Stays(s, p, char)
    BY <1>1, <1>4, <2>2, <2>4 DEF Stays, AtRest, WritesRow
  <2> QED
    BY <2>1, <2>3, <2>5
<1> QED
  BY <1>7, <1>8

\* PrintChar (Screen.cpp 54-109) puts a character, if it is one to be seen, and may
\* then step down to the next row.
LEMMA PrintSplits ==
    ASSUME NEW s, AtRest(s), NEW char \in Chars
    PROVE  \E w :
              /\ Puts(s, w, char)
              /\ \/ ScreenPrintChar(s, char) = w /\ Stays(s, w, char)
                 \/ /\ ScreenPrintChar(s, char) = ConditionalScroll(w)
                    /\ GoesDown(s, w, char)
<1> DEFINE u == [s EXCEPT !.bWordwrap = FALSE]
<1>1. s \in Screens /\ s.CursorCol \in Cols /\ s.ScrollsWithoutInput \in 0..NUM_ROWS
  BY DEF AtRest
<1>2. /\ u \in Screens /\ u.bWordwrap = FALSE /\ u.Row = s.Row
      /\ u.TopLine = s.TopLine /\ u.CursorRow = s.CursorRow
      /\ u.CursorCol = s.CursorCol /\ u.NonScrollingRows = s.NonScrollingRows
      /\ u.ScrollsWithoutInput = s.ScrollsWithoutInput
      /\ u.paged = s.paged /\ u.lost = s.lost /\ u.unread = s.unread
  BY <1>1, UnwrappedFacts
<1>3. ScreenPrintChar(s, char)
        = IF char = "\n" THEN ConditionalScroll(u)
          ELSE IF ~s.bWordwrap THEN PrintAtCursor(s, char)
          ELSE IF char = Space THEN u ELSE PrintAtCursor(MoveWord(u), char)
  BY DEF ScreenPrintChar
<1> HIDE DEF u
<1>4. Puts(s, u, char)
  BY <1>2 DEF Puts
<1>5. CASE char = "\n"
  BY <1>3, <1>4, <1>5 DEF GoesDown
<1>6. CASE char # "\n" /\ ~s.bWordwrap
  <2>1. PICK w : /\ Puts(s, w, char)
                 /\ \/ PrintAtCursor(s, char) = w /\ Stays(s, w, char)
                    \/ /\ PrintAtCursor(s, char) = ConditionalScroll(w)
                       /\ s.CursorCol = NUM_COLS - 1
    BY <1>1, <1>6, PrintAtCursorSplits
  <2> QED
    BY <1>3, <1>6, <2>1 DEF GoesDown
<1>7. CASE char = Space /\ s.bWordwrap
  <2>1. char # "\n"
    BY <1>7 DEF Space
  <2>2. ScreenPrintChar(s, char) = u
    BY <1>3, <1>7, <2>1
  <2>3. Stays(s, u, char)
    BY <1>1, <1>2, <1>7, <2>1 DEF Stays, AtRest
  <2> QED
    BY <1>4, <2>2, <2>3
<1>8. CASE char \notin Blank /\ s.bWordwrap
  <2> DEFINE m == MoveWord(u)
  <2>1. s.CursorCol = 0
    BY <1>8 DEF AtRest
  <2>2. WritesTwoRows(u, m) /\ m.CursorCol \in 0..(NUM_COLS - 2)
    BY <1>2, <2>1, MoveWordKeeps
  <2>3. ScreenPrintChar(s, char) = PrintAtCursor(m, char)
    BY <1>3, <1>8 DEF Blank
  <2> HIDE DEF m
  <2>4. /\ m \in Screens /\ ~m.bWordwrap /\ m.CursorCol \in Cols
        /\ m.ScrollsWithoutInput \in 0..NUM_ROWS /\ m.CursorCol # NUM_COLS - 1
        /\ char # "\n"
    BY <1>1, <1>2, <1>8, <2>2, SizeFacts DEF WritesTwoRows, Cols, Blank
  <2>5. PICK w : /\ Puts(m, w, char)
                 /\ \/ PrintAtCursor(m, char) = w /\ Stays(m, w, char)
                    \/ /\ PrintAtCursor(m, char) = ConditionalScroll(w)
                       /\ m.CursorCol = NUM_COLS - 1
    BY <2>4, PrintAtCursorSplits
  <2>6. ScreenPrintChar(s, char) = w /\ Stays(m, w, char)
    BY <2>3, <2>4, <2>5
  <2>7. Stays(s, w, char)
    BY <1>8, <2>6 DEF Stays
  <2>8. RowBefore(m) = RowBefore(s) /\ m.CursorRow = s.CursorRow /\ RowBefore(u) = RowBefore(s)
    BY <1>2, <2>2 DEF RowBefore, WritesTwoRows
  <2>9. Puts(s, w, char)
    <3>1. w.unread \subseteq s.unread \cup Touched(s, char)
      BY <1>2, <1>8, <2>2, <2>4, <2>5, <2>8 DEF Puts, WritesTwoRows, Touched
    <3>2. \A r \in Rows \ {s.CursorRow, RowBefore(s)} : w.Row[r] = s.Row[r]
      BY <1>2, <2>2, <2>5, <2>8 DEF Puts, WritesTwoRows
    <3> QED
      BY <1>2, <2>2, <2>5, <2>8, <3>1, <3>2 DEF Puts, WritesTwoRows
  <2> QED
    BY <2>6, <2>7, <2>9
<1> QED
  BY <1>5, <1>6, <1>7, <1>8 DEF Blank

\* A screen at rest stays so, whatever is printed on it.
LEMMA PrintRests ==
    ASSUME NEW s, AtRest(s), NEW char \in Chars
    PROVE  /\ AtRest(ScreenPrintChar(s, char))
           /\ ScreenPrintChar(s, char).NonScrollingRows = s.NonScrollingRows
<1> DEFINE r == ScreenPrintChar(s, char)
<1>1. PICK w : /\ Puts(s, w, char)
               /\ \/ r = w /\ Stays(s, w, char)
                  \/ r = ConditionalScroll(w) /\ GoesDown(s, w, char)
  BY PrintSplits
<1> HIDE DEF r
<1>2. /\ w \in Screens /\ w.ScrollsWithoutInput \in 0..NUM_ROWS
      /\ w.NonScrollingRows = s.NonScrollingRows
  BY <1>1 DEF Puts, AtRest
<1>3. CASE r = w /\ Stays(s, w, char)
  BY <1>2, <1>3 DEF Stays, r
<1>4. CASE r = ConditionalScroll(w)
  BY <1>2, <1>4, StepDown DEF StepsDown, r
<1> QED
  BY <1>1, <1>3, <1>4

--------------------------------------------------------------------------------
(***************************************************************************)
(* Lines of the terminal: what is printed in the last one leaves those     *)
(* that do not scroll alone.                                               *)
(***************************************************************************)
\* The cursor is in the last line.
AtBottom(s) == s.CursorRow = RowOf(s, NUM_ROWS - 1)

\* The lines that do not scroll are the same in s and in t.
KeepsAbove(s, t) ==
    /\ t.NonScrollingRows = s.NonScrollingRows
    /\ \A line \in 0..(s.NonScrollingRows - 1) : LineText(t, line) = LineText(s, line)

\* Lines and rows are the same things in another order.
LEMMA LineFacts ==
    ASSUME NEW s \in Screens
    PROVE  /\ \A line \in Rows :
                /\ RowOf(s, line) \in Rows
                /\ RowOf(s, line) = IF s.TopLine + line >= NUM_ROWS
                                    THEN s.TopLine + line - NUM_ROWS ELSE s.TopLine + line
                /\ LineOf(s, RowOf(s, line)) = line
           /\ \A row \in Rows :
                /\ LineOf(s, row) \in Rows
                /\ LineOf(s, row) = IF row - s.TopLine < 0 THEN row - s.TopLine + NUM_ROWS
                                    ELSE row - s.TopLine
                /\ RowOf(s, LineOf(s, row)) = row
<1>1. s.TopLine \in Rows /\ NUM_ROWS \in Nat /\ NUM_ROWS >= 3
  BY ScreenFields, SizeFacts
<1>2. ASSUME NEW line \in Rows
      PROVE  /\ RowOf(s, line) \in Rows
             /\ RowOf(s, line) = IF s.TopLine + line >= NUM_ROWS
                                 THEN s.TopLine + line - NUM_ROWS ELSE s.TopLine + line
  <2>1. line \in 0..NUM_ROWS
    BY <1>1 DEF Rows
  <2>2. RowOf(s, line) = IF s.TopLine + line >= NUM_ROWS
                         THEN s.TopLine + line - NUM_ROWS ELSE s.TopLine + line
    BY <1>1, <2>1, RingFacts DEF RowOf
  <2> QED
    BY <1>1, <2>1, <2>2 DEF Rows
<1>3. ASSUME NEW row \in Rows
      PROVE  /\ LineOf(s, row) \in Rows
             /\ LineOf(s, row) = IF row - s.TopLine < 0 THEN row - s.TopLine + NUM_ROWS
                                 ELSE row - s.TopLine
  <2>1. LineOf(s, row) = IF row - s.TopLine < 0 THEN row - s.TopLine + NUM_ROWS
                         ELSE row - s.TopLine
    BY <1>1, RingFacts DEF LineOf
  <2> QED
    BY <1>1, <2>1 DEF Rows
<1>4. ASSUME NEW line \in Rows PROVE LineOf(s, RowOf(s, line)) = line
  <2> DEFINE row == RowOf(s, line)
  <2>1. /\ row \in Rows
        /\ row = IF s.TopLine + line >= NUM_ROWS
                 THEN s.TopLine + line - NUM_ROWS ELSE s.TopLine + line
    BY <1>2
  <2> HIDE DEF row
  <2>2. LineOf(s, row) = IF row - s.TopLine < 0 THEN row - s.TopLine + NUM_ROWS
                         ELSE row - s.TopLine
    BY <1>3, <2>1
  <2>3. LineOf(s, row) = line
    BY <1>1, <2>1, <2>2 DEF Rows
  <2> QED
    BY <2>3 DEF row
<1>5. ASSUME NEW row \in Rows PROVE RowOf(s, LineOf(s, row)) = row
  <2> DEFINE line == LineOf(s, row)
  <2>1. /\ line \in Rows
        /\ line = IF row - s.TopLine < 0 THEN row - s.TopLine + NUM_ROWS
                  ELSE row - s.TopLine
    BY <1>3
  <2> HIDE DEF line
  <2>2. RowOf(s, line) = IF s.TopLine + line >= NUM_ROWS
                         THEN s.TopLine + line - NUM_ROWS ELSE s.TopLine + line
    BY <1>2, <2>1
  <2>3. RowOf(s, line) = row
    BY <1>1, <2>1, <2>2 DEF Rows
  <2> QED
    BY <2>3 DEF line
<1> QED
  BY <1>2, <1>3, <1>4, <1>5

\* The ring moves exactly when the cursor leaves the last line.
LEMMA BottomScrolls ==
    ASSUME NEW s \in Screens
    PROVE  AtBottom(s) <=> Scrolling(s)
<1>1. NUM_ROWS - 1 \in Rows /\ NUM_ROWS \in Nat /\ NUM_ROWS >= 3
  BY SizeFacts DEF Rows
<1>2. s.TopLine \in Rows /\ s.CursorRow \in Rows
  BY ScreenFields
<1>3. RowOf(s, NUM_ROWS - 1) = IF s.TopLine + (NUM_ROWS - 1) >= NUM_ROWS
                               THEN s.TopLine + (NUM_ROWS - 1) - NUM_ROWS
                               ELSE s.TopLine + (NUM_ROWS - 1)
  BY <1>1, LineFacts
<1> QED
  BY <1>1, <1>2, <1>3 DEF AtBottom, Scrolling, NextRow, Rows

\* What is printed in the last line stays there, and leaves the lines that do not
\* scroll alone.
LEMMA PrintKeepsAbove ==
    ASSUME NEW s, AtRest(s), AtBottom(s), s.NonScrollingRows \in 0..(NUM_ROWS - 2),
           NEW char \in Chars
    PROVE  AtBottom(ScreenPrintChar(s, char)) /\ KeepsAbove(s, ScreenPrintChar(s, char))
<1> DEFINE r == ScreenPrintChar(s, char)
<1>1. PICK w : /\ Puts(s, w, char)
               /\ \/ r = w /\ Stays(s, w, char)
                  \/ r = ConditionalScroll(w) /\ GoesDown(s, w, char)
  BY PrintSplits
<1> HIDE DEF r
<1>2. /\ w \in Screens /\ w.ScrollsWithoutInput \in 0..NUM_ROWS
      /\ w.NonScrollingRows = s.NonScrollingRows
      /\ w.TopLine = s.TopLine /\ w.CursorRow = s.CursorRow
      /\ s \in Screens
  BY <1>1 DEF Puts, AtRest
<1>3. AtBottom(w)
  BY <1>2 DEF AtBottom, RowOf
<1>4. NUM_ROWS \in Nat /\ NUM_ROWS >= 3 /\ s.TopLine \in Rows /\ s.CursorRow \in Rows
  BY <1>2, SizeFacts, ScreenFields
<1>5. ASSUME NEW line \in 0..(s.NonScrollingRows - 1)
      PROVE  LineText(w, line) = LineText(s, line)
  <2>1. line \in Rows /\ NUM_ROWS - 1 \in Rows /\ line < NUM_ROWS - 2
    BY <1>4 DEF Rows
  <2>2. RowOf(s, line) \in Rows /\ LineOf(s, RowOf(s, line)) = line
    BY <1>2, <2>1, LineFacts
  <2>3. LineOf(s, s.CursorRow) = NUM_ROWS - 1
    BY <1>2, <2>1, LineFacts DEF AtBottom
  <2>4. RowOf(s, line) # s.CursorRow
    BY <1>4, <2>1, <2>2, <2>3
  <2>5. RowOf(s, line) # RowBefore(s)
    <3>1. RowBefore(s) = IF s.CursorRow = 0 THEN NUM_ROWS - 1 ELSE s.CursorRow - 1
      BY <1>4, RingFacts DEF RowBefore
    <3>2. /\ RowOf(s, line) = IF s.TopLine + line >= NUM_ROWS
                              THEN s.TopLine + line - NUM_ROWS ELSE s.TopLine + line
          /\ s.CursorRow = IF s.TopLine + (NUM_ROWS - 1) >= NUM_ROWS
                           THEN s.TopLine + (NUM_ROWS - 1) - NUM_ROWS
                           ELSE s.TopLine + (NUM_ROWS - 1)
      BY <1>2, <2>1, LineFacts DEF AtBottom
    <3> QED
      BY <1>4, <2>1, <3>1, <3>2 DEF Rows
  <2>6. w.Row[RowOf(s, line)] = s.Row[RowOf(s, line)]
    BY <1>1, <2>2, <2>4, <2>5 DEF Puts
  <2> QED
    BY <1>2, <2>6 DEF LineText, RowOf
<1>6. CASE r = w
  BY <1>2, <1>3, <1>5, <1>6 DEF KeepsAbove, r
<1>7. CASE r = ConditionalScroll(w)
  <2>1. StepsDown(w, r) /\ KeepsRows(w, r)
    BY <1>2, <1>7, StepDown
  <2>2. Scrolling(w)
    BY <1>2, <1>3, BottomScrolls
  <2>3. KeepsAbove(s, r)
    BY <1>2, <1>5, <2>1, <2>2 DEF KeepsAbove, KeepsRows, StepsDown
  <2>4. AtBottom(r)
    <3>1. r \in Screens /\ r.CursorRow = w.TopLine
      BY <2>1, <2>2 DEF StepsDown, AtRest, Scrolling
    <3>2. r.TopLine = (w.TopLine + 1) % NUM_ROWS
      BY <2>1, <2>2 DEF KeepsRows
    <3>3. 1 \in Rows /\ NUM_ROWS - 1 \in Rows
      BY <1>4 DEF Rows
    <3>4. r.TopLine = IF w.TopLine + 1 >= NUM_ROWS THEN w.TopLine + 1 - NUM_ROWS
                      ELSE w.TopLine + 1
      BY <1>2, <3>2, <3>3, LineFacts DEF RowOf
    <3>5. RowOf(r, NUM_ROWS - 1) = IF r.TopLine + (NUM_ROWS - 1) >= NUM_ROWS
                                   THEN r.TopLine + (NUM_ROWS - 1) - NUM_ROWS
                                   ELSE r.TopLine + (NUM_ROWS - 1)
      BY <3>1, <3>3, LineFacts
    <3> QED
      BY <1>2, <1>4, <3>1, <3>4, <3>5 DEF AtBottom, Rows
  <2> QED
    BY <2>3, <2>4 DEF r
<1> QED
  BY <1>1, <1>6, <1>7

--------------------------------------------------------------------------------
(***************************************************************************)
(* The functions io... of the windows.                                     *)
(***************************************************************************)
\* The screens between two characters.
Resting == {s \in Screens : AtRest(s)}

\* The screen with the windows, as the functions io... take and return it.
Windowed ==
    [screen : Resting, curWindow : WindowNums, cursorX : [WindowNums -> Cols],
     cursorY : [WindowNums -> Int], windowStart : [WindowNums -> Rows]]

\* The line of the cursor on the terminal.
CursorLine(s) == LineOf(s, s.CursorRow)

\* The fields of the windows have their types.
LEMMA WindowFields ==
    ASSUME NEW w \in Windowed
    PROVE  /\ w.screen \in Resting /\ w.screen \in Screens /\ AtRest(w.screen)
           /\ w.curWindow \in WindowNums
           /\ w.cursorX \in [WindowNums -> Cols] /\ w.cursorY \in [WindowNums -> Int]
           /\ w.windowStart \in [WindowNums -> Rows]
           /\ w.screen.CursorRow \in Rows /\ w.screen.CursorCol \in Cols
           /\ CursorLine(w.screen) \in Rows
<1>1. /\ w.screen \in Resting
      /\ w.curWindow \in WindowNums
      /\ w.cursorX \in [WindowNums -> Cols] /\ w.cursorY \in [WindowNums -> Int]
      /\ w.windowStart \in [WindowNums -> Rows]
  BY DEF Windowed
<1>2. w.screen \in Screens /\ AtRest(w.screen)
  BY <1>1 DEF Resting
<1>3. w.screen.CursorRow \in Rows /\ w.screen.CursorCol \in Cols
  BY <1>2, ScreenFields DEF AtRest
<1>4. CursorLine(w.screen) \in Rows
  BY <1>2, <1>3, LineFacts DEF CursorLine
<1> QED
  BY <1>1, <1>2, <1>3, <1>4

\* From w to v only the screen changes, and not how much of it scrolls.
OnlyScreen(w, v) ==
    /\ v \in Windowed
    /\ v.curWindow = w.curWindow /\ v.windowStart = w.windowStart
    /\ v.cursorX = w.cursorX /\ v.cursorY = w.cursorY
    /\ v.screen.NonScrollingRows = w.screen.NonScrollingRows

\* A screen that scrolls no more and no less may be put in.
LEMMA NewScreenKeeps ==
    ASSUME NEW w \in Windowed, NEW s \in Resting,
           s.NonScrollingRows = w.screen.NonScrollingRows
    PROVE  OnlyScreen(w, [w EXCEPT !.screen = s]) /\ [w EXCEPT !.screen = s].screen = s
<1>1. [w EXCEPT !.screen = s] \in Windowed /\ [w EXCEPT !.screen = s].screen = s
  BY DEF Windowed
<1> QED
  BY <1>1 DEF Windowed, OnlyScreen

\* A character changes only the screen.
LEMMA ioPrintCharKeeps ==
    ASSUME NEW w \in Windowed, NEW char \in Chars
    PROVE  /\ OnlyScreen(w, ioPrintChar(w, char))
           /\ ioPrintChar(w, char).screen = ScreenPrintChar(w.screen, char)
<1> DEFINE s == ScreenPrintChar(w.screen, char)
<1>1. AtRest(s) /\ s.NonScrollingRows = w.screen.NonScrollingRows
  BY WindowFields, PrintRests
<1>2. s \in Resting
  BY <1>1 DEF Resting, AtRest
<1>3. ioPrintChar(w, char) = [w EXCEPT !.screen = s]
  BY DEF ioPrintChar
<1> HIDE DEF s
<1>4. OnlyScreen(w, [w EXCEPT !.screen = s]) /\ [w EXCEPT !.screen = s].screen = s
  BY <1>1, <1>2, NewScreenKeeps
<1> QED
  BY <1>3, <1>4 DEF s

\* From w to v text has been printed; if the cursor was in the last line it still is,
\* and the lines above have stayed.
Writes(w, v) ==
    /\ OnlyScreen(w, v)
    /\ AtBottom(w.screen) /\ w.screen.NonScrollingRows <= NUM_ROWS - 2
          => AtBottom(v.screen) /\ KeepsAbove(w.screen, v.screen)

\* A text changes only the screen, and if the cursor is in the last line the lines
\* above stay.
LEMMA WriteAll ==
    ASSUME NEW w \in Windowed, NEW seq, NEW n \in Nat, DOMAIN seq = 1..n,
           \A i \in 1..n : seq[i] \in Chars
    PROVE  Writes(w, FoldLeft(ioPrintChar, w, seq))
<1> DEFINE S == {v \in Windowed : Writes(w, v)}
<1>1. w \in S
  BY DEF Writes, OnlyScreen, KeepsAbove
<1>2. ASSUME NEW v \in S, NEW i \in 1..n PROVE ioPrintChar(v, seq[i]) \in S
  <2> DEFINE u == ioPrintChar(v, seq[i])
  <2>1. v \in Windowed /\ Writes(w, v) /\ seq[i] \in Chars
    OBVIOUS
  <2>2. OnlyScreen(v, u) /\ u.screen = ScreenPrintChar(v.screen, seq[i])
    BY <2>1, ioPrintCharKeeps
  <2> HIDE DEF u
  <2>3. OnlyScreen(w, u)
    BY <2>1, <2>2 DEF Writes, OnlyScreen
  <2>4. ASSUME AtBottom(w.screen), w.screen.NonScrollingRows <= NUM_ROWS - 2
        PROVE  AtBottom(u.screen) /\ KeepsAbove(w.screen, u.screen)
    <3>1. AtBottom(v.screen) /\ KeepsAbove(w.screen, v.screen)
      BY <2>1, <2>4 DEF Writes
    <3>2. v.screen.NonScrollingRows = w.screen.NonScrollingRows
      BY <2>1 DEF Writes, OnlyScreen
    <3>3. AtRest(v.screen) /\ v.screen.NonScrollingRows \in 0..(NUM_ROWS - 2)
      <4>1. v.screen \in Screens /\ AtRest(v.screen)
        BY <2>1, WindowFields
      <4>2. v.screen.NonScrollingRows \in Rows
        BY <4>1, ScreenFields
      <4> QED
        BY <2>4, <3>2, <4>1, <4>2, SizeFacts DEF Rows
    <3>4. AtBottom(u.screen) /\ KeepsAbove(v.screen, u.screen)
      BY <2>1, <2>2, <3>1, <3>3, PrintKeepsAbove
    <3> QED
      BY <3>1, <3>2, <3>4 DEF KeepsAbove
  <2>5. u \in Windowed /\ Writes(w, u)
    BY <2>3, <2>4 DEF Writes, OnlyScreen
  <2> QED
    BY <2>5 DEF u
<1>3. FoldLeft(ioPrintChar, w, seq) = Writing!Folded(w, seq)
  BY FoldsAgree, Zenon
<1> HIDE DEF S
<1>4. Writing!Folded(w, seq) \in S
  BY <1>1, <1>2, Writing!FoldKeeps
<1> QED
  BY <1>3, <1>4 DEF S

\* So do spaces.
LEMMA SpacesKeep ==
    ASSUME NEW w \in Windowed, NEW n \in Nat
    PROVE  Writes(w, PrintSpaces(w, n))
<1> DEFINE seq == [i \in 1..n |-> Space]
<1>1. DOMAIN seq = 1..n /\ \A i \in 1..n : seq[i] \in Chars
  BY DEF Chars
<1>2. PrintSpaces(w, n) = FoldLeft(ioPrintChar, w, seq)
  BY DEF PrintSpaces
<1> HIDE DEF seq
<1> QED
  BY <1>1, <1>2, WriteAll

\* The cursor is set to a line, and the text stays.
LEMMA SetCursorFacts ==
    ASSUME NEW s \in Resting, NEW x \in Cols, NEW y \in 0..NUM_ROWS
    PROVE  LET t == SetCursorPosition(s, x, y) IN
           /\ t \in Resting
           /\ t.NonScrollingRows = s.NonScrollingRows /\ t.TopLine = s.TopLine
           /\ t.Row = s.Row /\ t.CursorCol = x /\ ~t.bWordwrap
           /\ t.ScrollsWithoutInput = s.ScrollsWithoutInput
           /\ t.unread = s.unread /\ t.paged = s.paged /\ t.lost = s.lost
           /\ y < NUM_ROWS => CursorLine(t) = y
           /\ y = NUM_ROWS => CursorLine(t) = 0
<1> DEFINE row == IF y + s.TopLine >= NUM_ROWS THEN (y + s.TopLine) - NUM_ROWS
                  ELSE y + s.TopLine
           t == SetCursorPosition(s, x, y)
<1>1. t = [s EXCEPT !.bWordwrap = FALSE, !.CursorCol = x, !.CursorRow = row]
  BY DEF SetCursorPosition
<1>2. s \in Screens /\ s.TopLine \in Rows /\ NUM_ROWS \in Nat /\ NUM_ROWS >= 3
      /\ s.ScrollsWithoutInput \in 0..NUM_ROWS
  BY ScreenFields, SizeFacts DEF Resting, AtRest
<1>3. row \in Rows
  BY <1>2 DEF Rows
<1>4. x \in 0..NUM_COLS /\ FALSE \in BOOLEAN
  BY SizeFacts DEF Cols
<1> HIDE DEF t
<1>5. /\ t \in Screens
      /\ t.NonScrollingRows = s.NonScrollingRows /\ t.TopLine = s.TopLine
      /\ t.Row = s.Row /\ t.CursorCol = x /\ ~t.bWordwrap /\ t.CursorRow = row
      /\ t.ScrollsWithoutInput = s.ScrollsWithoutInput
      /\ t.unread = s.unread /\ t.paged = s.paged /\ t.lost = s.lost
  <2> HIDE DEF row
  <2> QED
    BY <1>1, <1>2, <1>3, <1>4 DEF Screens
<1>6. t \in Resting
  BY <1>2, <1>5 DEF Resting, AtRest
<1>7. CursorLine(t) = IF row - s.TopLine < 0 THEN row - s.TopLine + NUM_ROWS
                      ELSE row - s.TopLine
  BY <1>3, <1>5, LineFacts DEF CursorLine
<1>8. (y < NUM_ROWS => CursorLine(t) = y) /\ (y = NUM_ROWS => CursorLine(t) = 0)
  BY <1>2, <1>7 DEF Rows
<1> QED
  BY <1>5, <1>6, <1>8 DEF t

\* The cursor is set to a line of the current window.
LEMMA ioSetCursorKeeps ==
    ASSUME NEW w \in Windowed, NEW x \in Cols, NEW y \in Int,
           y + w.windowStart[w.curWindow] \in 0..NUM_ROWS
    PROVE  LET v == ioSetCursor(w, x, y)
               t == SetCursorPosition(w.screen, x, y + w.windowStart[w.curWindow])
           IN  OnlyScreen(w, v) /\ v.screen = t
<1> DEFINE t == SetCursorPosition(w.screen, x, y + w.windowStart[w.curWindow])
<1>1. ioSetCursor(w, x, y) = [w EXCEPT !.screen = t]
  BY DEF ioSetCursor
<1>2. t \in Resting /\ t.NonScrollingRows = w.screen.NonScrollingRows
  BY WindowFields, SetCursorFacts
<1> HIDE DEF t
<1>3. OnlyScreen(w, [w EXCEPT !.screen = t]) /\ [w EXCEPT !.screen = t].screen = t
  BY <1>2, NewScreenKeeps
<1> QED
  BY <1>1, <1>3 DEF t

\* From w to v the cursor of the current window is noted.
SavesCursor(w, v) ==
    /\ v \in Windowed
    /\ v.screen = w.screen /\ v.curWindow = w.curWindow /\ v.windowStart = w.windowStart
    /\ v.cursorX[w.curWindow] = w.screen.CursorCol
    /\ v.cursorY[w.curWindow] + w.windowStart[w.curWindow] = CursorLine(w.screen)
    /\ \A i \in WindowNums \ {w.curWindow} :
          v.cursorX[i] = w.cursorX[i] /\ v.cursorY[i] = w.cursorY[i]

\* ioGetCursor (zops.c 146-150) notes the cursor relative to its window.
LEMMA SaveCursorSaves ==
    ASSUME NEW w \in Windowed
    PROVE  SavesCursor(w, SaveCursor(w))
<1> DEFINE xs == [w.cursorX EXCEPT ![w.curWindow] = w.screen.CursorCol]
           line == CursorLine(w.screen)
           ys == [w.cursorY EXCEPT ![w.curWindow] = line - w.windowStart[w.curWindow]]
           v == SaveCursor(w)
<1>1. /\ w.curWindow \in WindowNums /\ w.cursorX \in [WindowNums -> Cols]
      /\ w.cursorY \in [WindowNums -> Int] /\ w.windowStart \in [WindowNums -> Rows]
      /\ w.screen.CursorCol \in Cols /\ line \in Rows
  BY WindowFields
<1>2. line \in Int /\ w.windowStart[w.curWindow] \in Int
  BY <1>1 DEF Rows
<1>3. v = [w EXCEPT !.cursorX = xs, !.cursorY = ys]
  BY DEF SaveCursor, CursorLine, Windowed
<1> HIDE DEF v, line
<1>4. /\ xs \in [WindowNums -> Cols] /\ ys \in [WindowNums -> Int]
      /\ xs[w.curWindow] = w.screen.CursorCol
      /\ ys[w.curWindow] + w.windowStart[w.curWindow] = line
      /\ \A i \in WindowNums \ {w.curWindow} :
            xs[i] = w.cursorX[i] /\ ys[i] = w.cursorY[i]
  BY <1>1, <1>2
<1> HIDE DEF xs, ys
<1>5. /\ v \in Windowed /\ v.cursorX = xs /\ v.cursorY = ys
      /\ v.screen = w.screen /\ v.curWindow = w.curWindow
      /\ v.windowStart = w.windowStart
  BY <1>3, <1>4 DEF Windowed
<1> QED
  BY <1>4, <1>5 DEF SavesCursor, v, line

\* From w to v the cursor goes where the current window was left.
LEMMA RestoreCursorKeeps ==
    ASSUME NEW w \in Windowed,
           w.cursorY[w.curWindow] + w.windowStart[w.curWindow] \in Rows
    PROVE  LET v == RestoreCursor(w) IN
           /\ OnlyScreen(w, v)
           /\ v.screen = SetCursorPosition(w.screen, w.cursorX[w.curWindow],
                             w.cursorY[w.curWindow] + w.windowStart[w.curWindow])
           /\ v.screen.Row = w.screen.Row /\ v.screen.TopLine = w.screen.TopLine
           /\ CursorLine(v.screen) = w.cursorY[w.curWindow] + w.windowStart[w.curWindow]
<1> DEFINE x == w.cursorX[w.curWindow]
           y == w.cursorY[w.curWindow]
           line == y + w.windowStart[w.curWindow]
           v == RestoreCursor(w)
<1>1. /\ x \in Cols /\ y \in Int /\ w.screen \in Resting
  BY WindowFields
<1>2. line \in 0..NUM_ROWS /\ line < NUM_ROWS
  BY SizeFacts DEF Rows
<1>3. v = ioSetCursor(w, x, y)
  BY DEF RestoreCursor
<1> HIDE DEF x, y
<1>4. OnlyScreen(w, ioSetCursor(w, x, y))
      /\ ioSetCursor(w, x, y).screen = SetCursorPosition(w.screen, x, line)
  BY <1>1, <1>2, ioSetCursorKeeps
<1> HIDE DEF v, line
<1>5. LET t == SetCursorPosition(w.screen, x, line) IN
      t.Row = w.screen.Row /\ t.TopLine = w.screen.TopLine /\ CursorLine(t) = line
  BY <1>1, <1>2, SetCursorFacts
<1>6. /\ OnlyScreen(w, v) /\ v.screen = SetCursorPosition(w.screen, x, line)
      /\ v.screen.Row = w.screen.Row /\ v.screen.TopLine = w.screen.TopLine
      /\ CursorLine(v.screen) = line
  BY <1>3, <1>4, <1>5
<1> QED
  BY <1>6 DEF v, x, y, line

\* A line of the screen becomes blank.
LEMMA EraseLineKeeps ==
    ASSUME NEW w \in Windowed, NEW line \in Int,
           line + w.windowStart[w.curWindow] \in 0..NUM_ROWS
    PROVE  OnlyScreen(w, EraseLine(w, line))
<1> DEFINE v == ioSetCursor(w, 0, line)
<1>1. 0 \in Cols /\ NUM_COLS \in Nat
  BY SizeFacts DEF Cols
<1>2. OnlyScreen(w, v)
  BY <1>1, ioSetCursorKeeps
<1>3. EraseLine(w, line) = PrintSpaces(v, NUM_COLS)
  BY DEF EraseLine
<1> HIDE DEF v
<1>4. v \in Windowed
  BY <1>2 DEF OnlyScreen
<1>5. OnlyScreen(v, PrintSpaces(v, NUM_COLS))
  BY <1>1, <1>4, SpacesKeep DEF Writes
<1> QED
  BY <1>2, <1>3, <1>5 DEF OnlyScreen

\* From w to v a window has been erased, and the cursor is in the line where it was.
Erases(w, v) ==
    /\ v \in Windowed
    /\ v.curWindow = w.curWindow /\ v.windowStart = w.windowStart
    /\ \A i \in WindowNums \ {w.curWindow} :
          v.cursorX[i] = w.cursorX[i] /\ v.cursorY[i] = w.cursorY[i]
    /\ v.screen.NonScrollingRows = w.screen.NonScrollingRows
    /\ CursorLine(v.screen) = CursorLine(w.screen)

\* A window's lines are lines of the terminal, counted one by one.
LEMMA LinesOfFacts ==
    ASSUME NEW w \in Windowed, NEW windowNum \in WindowNums
    PROVE  /\ Cardinality(LinesOf(w, windowNum)) \in Nat
           /\ \A i \in 1..Cardinality(LinesOf(w, windowNum)) :
                 w.windowStart[windowNum] + i - 1 \in LinesOf(w, windowNum)
           /\ LinesOf(w, windowNum) \subseteq Rows
<1> DEFINE first == w.windowStart[windowNum]
           last == (IF windowNum = 0 THEN NUM_ROWS ELSE w.windowStart[windowNum - 1]) - 1
<1>1. w.windowStart \in [WindowNums -> Rows] /\ NUM_ROWS \in Nat /\ NUM_ROWS >= 3
  BY WindowFields, SizeFacts
<1>2. first \in Nat
  BY <1>1 DEF Rows
<1>3. last \in Int /\ last < NUM_ROWS
  <2>1. CASE windowNum = 0
    BY <1>1, <2>1
  <2>2. CASE windowNum # 0
    <3>1. windowNum - 1 \in WindowNums
      BY <2>2 DEF WindowNums
    <3>2. w.windowStart[windowNum - 1] \in 0..(NUM_ROWS - 1)
      BY <1>1, <3>1 DEF Rows
    <3> QED
      BY <1>1, <2>2, <3>2
  <2> QED
    BY <2>1, <2>2
<1>4. LinesOf(w, windowNum) = first..last
  BY DEF LinesOf
<1> HIDE DEF first, last
<1>5. Cardinality(first..last) = IF first > last THEN 0 ELSE last - first + 1
  BY <1>2, <1>3, FS_Interval
<1>6. /\ Cardinality(first..last) \in Nat
      /\ \A i \in 1..Cardinality(first..last) : first + i - 1 \in first..last
  BY <1>2, <1>3, <1>5
<1>7. first..last \subseteq Rows
  BY <1>1, <1>2, <1>3 DEF Rows
<1> QED
  BY <1>4, <1>6, <1>7 DEF first

\* A window is erased (zops.c 177-189) and nothing else is moved, if each of its lines,
\* taken as a line of the current window, is on the terminal.
LEMMA ioEraseWindowErases ==
    ASSUME NEW w \in Windowed, NEW windowNum \in WindowNums,
           \A line \in LinesOf(w, windowNum) :
              line + w.windowStart[w.curWindow] \in 0..NUM_ROWS
    PROVE  Erases(w, ioEraseWindow(w, windowNum))
<1> DEFINE n == Cardinality(LinesOf(w, windowNum))
           seq == [i \in 1..n |-> w.windowStart[windowNum] + i - 1]
           saved == SaveCursor(w)
           S == {v \in Windowed : OnlyScreen(saved, v)}
           blank == FoldLeft(EraseLine, saved, seq)
           u == RestoreCursor(blank)
<1>1. n \in Nat /\ DOMAIN seq = 1..n /\ \A i \in 1..n : seq[i] \in LinesOf(w, windowNum)
  BY LinesOfFacts
<1>2. LinesOf(w, windowNum) \subseteq Int
  BY LinesOfFacts DEF Rows
<1>3. ioEraseWindow(w, windowNum) = u
  BY DEF ioEraseWindow
<1>4. SavesCursor(w, saved)
  BY SaveCursorSaves
<1>5. blank = Blanking!Folded(saved, seq)
  BY FoldsAgree, Zenon
<1> HIDE DEF n, seq, saved, blank
<1>6. saved \in S
  BY <1>4 DEF SavesCursor, OnlyScreen
<1>7. ASSUME NEW v \in S, NEW i \in 1..n PROVE EraseLine(v, seq[i]) \in S
  <2>1. v \in Windowed /\ OnlyScreen(saved, v) /\ seq[i] \in LinesOf(w, windowNum)
    BY <1>1
  <2>2. seq[i] \in Int /\ seq[i] + v.windowStart[v.curWindow] \in 0..NUM_ROWS
    BY <1>2, <1>4, <2>1 DEF OnlyScreen, SavesCursor
  <2>3. OnlyScreen(v, EraseLine(v, seq[i]))
    BY <2>1, <2>2, EraseLineKeeps
  <2> QED
    BY <2>1, <2>3 DEF OnlyScreen
<1> HIDE DEF S
<1>8. Blanking!Folded(saved, seq) \in S
  BY <1>1, <1>6, <1>7, Blanking!FoldKeeps
<1>9. blank \in Windowed /\ OnlyScreen(saved, blank)
  BY <1>5, <1>8 DEF S
<1>10. blank.cursorY[blank.curWindow] + blank.windowStart[blank.curWindow]
          = CursorLine(w.screen)
  BY <1>4, <1>9 DEF OnlyScreen, SavesCursor
<1>11. CursorLine(w.screen) \in Rows
  BY WindowFields
<1>12. OnlyScreen(blank, u) /\ CursorLine(u.screen) = CursorLine(w.screen)
  BY <1>9, <1>10, <1>11, RestoreCursorKeeps
<1> HIDE DEF u
<1>13. Erases(w, u)
  BY <1>4, <1>9, <1>12 DEF Erases, OnlyScreen, SavesCursor
<1> QED
  BY <1>3, <1>13

--------------------------------------------------------------------------------
(***************************************************************************)
(* The windows in place: what each function of the windows leaves so.      *)
(***************************************************************************)
\* The windows between two instructions.  The cursor of window 0 is in the last line,
\* where the game starts, and every other window was left within the screen.
Placed(w) ==
    /\ w \in Windowed
    /\ w.windowStart[2] = 0 /\ w.windowStart[1] \in 0..1
    /\ w.windowStart[1] <= w.windowStart[0]
    /\ w.windowStart[0] <= w.screen.NonScrollingRows
    /\ w.screen.NonScrollingRows <= NUM_ROWS - 2
    /\ \A i \in WindowNums \ {w.curWindow} : w.cursorY[i] + w.windowStart[i] \in Rows
    /\ w.curWindow = 0 => CursorLine(w.screen) = NUM_ROWS - 1
    /\ w.curWindow # 0 => w.cursorY[0] + w.windowStart[0] = NUM_ROWS - 1

\* The last row of the ring is the last line.
LEMMA BottomLine ==
    ASSUME NEW s \in Screens
    PROVE  AtBottom(s) <=> CursorLine(s) = NUM_ROWS - 1
<1>1. NUM_ROWS - 1 \in Rows /\ s.CursorRow \in Rows
  BY SizeFacts, ScreenFields DEF Rows
<1> QED
  BY <1>1, LineFacts DEF AtBottom, CursorLine

\* What is printed keeps the windows in place.
LEMMA PlacedWrites ==
    ASSUME NEW w, NEW v, Placed(w), Writes(w, v)
    PROVE  /\ Placed(v)
           /\ w.curWindow = 0 => KeepsAbove(w.screen, v.screen)
<1>1. /\ w \in Windowed /\ v \in Windowed /\ OnlyScreen(w, v)
      /\ w.screen.NonScrollingRows <= NUM_ROWS - 2
  BY DEF Placed, Writes, OnlyScreen
<1>2. w.screen \in Screens /\ v.screen \in Screens
  BY <1>1, WindowFields
<1>3. ASSUME w.curWindow = 0
      PROVE  CursorLine(v.screen) = NUM_ROWS - 1 /\ KeepsAbove(w.screen, v.screen)
  <2>1. AtBottom(w.screen)
    BY <1>2, <1>3, BottomLine DEF Placed
  <2>2. AtBottom(v.screen) /\ KeepsAbove(w.screen, v.screen)
    BY <1>1, <2>1 DEF Writes
  <2> QED
    BY <1>2, <2>2, BottomLine
<1>4. Placed(v)
  BY <1>1, <1>3 DEF Placed, OnlyScreen
<1> QED
  BY <1>3, <1>4

\* So does what is erased.
LEMMA PlacedErases ==
    ASSUME NEW w, NEW v, Placed(w), Erases(w, v) PROVE Placed(v)
<1>1. 0 \in WindowNums
  BY DEF WindowNums
<1> QED
  BY <1>1 DEF Placed, Erases

\* From w to v the game goes to another window; the text stays.
ChangesWindow(w, v, windowNum) ==
    /\ v \in Windowed
    /\ v.curWindow = windowNum /\ v.windowStart = w.windowStart
    /\ v.screen.Row = w.screen.Row /\ v.screen.TopLine = w.screen.TopLine
    /\ v.screen.NonScrollingRows = w.screen.NonScrollingRows
    /\ v.screen.ScrollsWithoutInput = w.screen.ScrollsWithoutInput
    /\ v.screen.unread = w.screen.unread /\ v.screen.paged = w.screen.paged
    /\ v.screen.lost = w.screen.lost /\ ~v.screen.bWordwrap

\* A change of windows (zops.c 191-206) keeps them in place and leaves the text.
LEMMA ioSetWindowPlaces ==
    ASSUME NEW w, Placed(w), NEW windowNum \in WindowNums, NEW reset \in BOOLEAN,
           reset => windowNum # 0
    PROVE  /\ Placed(ioSetWindow(w, windowNum, reset))
           /\ ChangesWindow(w, ioSetWindow(w, windowNum, reset), windowNum)
           /\ reset => /\ CursorLine(ioSetWindow(w, windowNum, reset).screen)
                              = w.windowStart[windowNum]
                       /\ ioSetWindow(w, windowNum, reset).screen.CursorCol = 0
<1> DEFINE saved == SaveCursor(w)
           left == [saved EXCEPT !.curWindow = windowNum]
           again == IF reset THEN [left EXCEPT !.cursorX[windowNum] = 0,
                                               !.cursorY[windowNum] = 0]
                    ELSE left
           v == RestoreCursor(again)
<1>1. w \in Windowed /\ w.curWindow \in WindowNums
  BY WindowFields DEF Placed
<1>2. SavesCursor(w, saved)
  BY <1>1, SaveCursorSaves
<1>3. ioSetWindow(w, windowNum, reset) = v
  BY DEF ioSetWindow
<1> HIDE DEF saved
<1>4. /\ left \in Windowed /\ left.curWindow = windowNum /\ left.screen = w.screen
      /\ left.windowStart = w.windowStart
      /\ left.cursorX = saved.cursorX /\ left.cursorY = saved.cursorY
  BY <1>2 DEF SavesCursor, Windowed
<1> HIDE DEF left
<1>5. 0 \in Cols /\ 0 \in Int /\ 0 \in WindowNums
  BY SizeFacts DEF Cols, WindowNums
<1>6. \A i \in WindowNums : left.cursorY[i] + w.windowStart[i] \in Rows
  <2>1. CursorLine(w.screen) \in Rows
    BY <1>1, WindowFields
  <2> QED
    BY <1>1, <1>2, <1>4, <2>1 DEF SavesCursor, Placed
<1>7. left.cursorY[0] + w.windowStart[0] = NUM_ROWS - 1
  <2>1. CASE w.curWindow = 0
    BY <1>2, <1>4, <2>1 DEF SavesCursor, Placed
  <2>2. CASE w.curWindow # 0
    BY <1>2, <1>4, <1>5, <2>2 DEF SavesCursor, Placed
  <2> QED
    BY <2>1, <2>2
<1>8. w.windowStart \in [WindowNums -> Rows]
  BY <1>1, WindowFields
<1>9. /\ again \in Windowed /\ again.curWindow = windowNum /\ again.screen = w.screen
      /\ again.windowStart = w.windowStart
      /\ \A i \in WindowNums : again.cursorY[i] + w.windowStart[i] \in Rows
      /\ again.cursorY[0] + w.windowStart[0] = NUM_ROWS - 1
      /\ reset => again.cursorX[windowNum] = 0 /\ again.cursorY[windowNum] = 0
  <2>1. CASE reset
    <3> DEFINE xs == [left.cursorX EXCEPT ![windowNum] = 0]
               ys == [left.cursorY EXCEPT ![windowNum] = 0]
    <3>1. left.cursorX \in [WindowNums -> Cols] /\ left.cursorY \in [WindowNums -> Int]
      BY <1>4, WindowFields
    <3>2. xs \in [WindowNums -> Cols] /\ ys \in [WindowNums -> Int]
      BY <1>5, <3>1
    <3>3. /\ ys[windowNum] = 0 /\ xs[windowNum] = 0
          /\ \A i \in WindowNums \ {windowNum} : ys[i] = left.cursorY[i]
      BY <3>1
    <3>4. again = [left EXCEPT !.cursorX = xs, !.cursorY = ys]
      BY <1>4, <2>1 DEF Windowed
    <3> HIDE DEF xs, ys, again
    <3>5. /\ again \in Windowed /\ again.cursorY = ys /\ again.curWindow = windowNum
          /\ again.cursorX = xs
          /\ again.screen = w.screen /\ again.windowStart = w.windowStart
      BY <1>4, <3>2, <3>4 DEF Windowed
    <3>6. 0 + w.windowStart[windowNum] \in Rows
      BY <1>8 DEF Rows
    <3>7. \A i \in WindowNums : again.cursorY[i] + w.windowStart[i] \in Rows
      BY <1>6, <3>3, <3>5, <3>6
    <3>8. again.cursorY[0] = left.cursorY[0]
      BY <1>5, <2>1, <3>3, <3>5
    <3> QED
      BY <1>7, <3>3, <3>5, <3>7, <3>8
  <2>2. CASE ~reset
    BY <1>4, <1>6, <1>7, <2>2
  <2> QED
    BY <2>1, <2>2
<1> HIDE DEF again
<1> DEFINE line == again.cursorY[windowNum] + w.windowStart[windowNum]
<1>10. line \in Rows
  BY <1>9
<1>11. /\ OnlyScreen(again, v)
       /\ v.screen = SetCursorPosition(w.screen, again.cursorX[windowNum], line)
       /\ CursorLine(v.screen) = line
  BY <1>9, <1>10, RestoreCursorKeeps
<1>12. again.cursorX[windowNum] \in Cols
  BY <1>9, WindowFields
<1>13. w.screen \in Resting /\ line \in 0..NUM_ROWS
  BY <1>1, <1>10, WindowFields, SizeFacts DEF Rows
<1> HIDE DEF v
<1>14. ChangesWindow(w, v, windowNum)
  <2> HIDE DEF line
  <2> DEFINE t == SetCursorPosition(w.screen, again.cursorX[windowNum], line)
  <2>1. /\ t.NonScrollingRows = w.screen.NonScrollingRows /\ t.TopLine = w.screen.TopLine
        /\ t.Row = w.screen.Row /\ ~t.bWordwrap
        /\ t.ScrollsWithoutInput = w.screen.ScrollsWithoutInput
        /\ t.unread = w.screen.unread /\ t.paged = w.screen.paged
        /\ t.lost = w.screen.lost
    BY <1>12, <1>13, SetCursorFacts
  <2> HIDE DEF t
  <2> QED
    BY <1>9, <1>11, <2>1 DEF ChangesWindow, OnlyScreen, t
<1>16. ASSUME reset
       PROVE  CursorLine(v.screen) = w.windowStart[windowNum] /\ v.screen.CursorCol = 0
  <2>1. again.cursorX[windowNum] = 0 /\ again.cursorY[windowNum] = 0
    BY <1>9, <1>16
  <2>2. SetCursorPosition(w.screen, again.cursorX[windowNum], line).CursorCol
            = again.cursorX[windowNum]
    <3> HIDE DEF line
    <3> QED
      BY <1>12, <1>13, SetCursorFacts
  <2>3. line = w.windowStart[windowNum]
    BY <1>8, <2>1 DEF Rows
  <2> QED
    BY <1>11, <2>1, <2>2, <2>3
<1>15. Placed(v)
  <2>1. windowNum = 0 => CursorLine(v.screen) = NUM_ROWS - 1
    BY <1>9, <1>11
  <2> QED
    BY <1>9, <1>11, <1>14, <2>1 DEF Placed, OnlyScreen, ChangesWindow
<1> QED
  BY <1>3, <1>14, <1>15, <1>16

--------------------------------------------------------------------------------
\* From s to t text has been printed, as in Writes.
Prints(s, t) ==
    /\ t \in Resting /\ t.NonScrollingRows = s.NonScrollingRows
    /\ AtBottom(s) /\ s.NonScrollingRows <= NUM_ROWS - 2
          => AtBottom(t) /\ KeepsAbove(s, t)

\* What is printed to the screen alone, as by ReadInput.
LEMMA ScreenPrintPrints ==
    ASSUME NEW s \in Resting, NEW seq, NEW n \in Nat, DOMAIN seq = 1..n,
           \A i \in 1..n : seq[i] \in Chars
    PROVE  Prints(s, ScreenPrint(s, seq))
<1> DEFINE S == {t \in Resting : Prints(s, t)}
<1>1. s \in S
  BY DEF Prints, KeepsAbove
<1>2. ASSUME NEW t \in S, NEW i \in 1..n PROVE ScreenPrintChar(t, seq[i]) \in S
  <2> DEFINE u == ScreenPrintChar(t, seq[i])
  <2>1. t \in Screens /\ AtRest(t) /\ Prints(s, t) /\ seq[i] \in Chars
    BY DEF Resting
  <2>2. AtRest(u) /\ u.NonScrollingRows = t.NonScrollingRows
    BY <2>1, PrintRests
  <2>3. t.NonScrollingRows \in Rows
    BY <2>1, ScreenFields
  <2>4. ASSUME AtBottom(s), s.NonScrollingRows <= NUM_ROWS - 2
        PROVE  AtBottom(u) /\ KeepsAbove(s, u)
    <3>1. AtBottom(t) /\ KeepsAbove(s, t) /\ t.NonScrollingRows = s.NonScrollingRows
      BY <2>1, <2>4 DEF Prints
    <3>2. t.NonScrollingRows \in 0..(NUM_ROWS - 2)
      BY <2>3, <2>4, <3>1, SizeFacts DEF Rows
    <3>3. AtBottom(u) /\ KeepsAbove(t, u)
      BY <2>1, <3>1, <3>2, PrintKeepsAbove
    <3> QED
      BY <3>1, <3>3 DEF KeepsAbove
  <2> HIDE DEF u
  <2>5. u \in Resting /\ Prints(s, u)
    BY <2>1, <2>2, <2>4 DEF Prints, Resting, AtRest
  <2> QED
    BY <2>5 DEF u
<1>3. ScreenPrint(s, seq) = Printing!Folded(s, seq)
  <2>1. FoldLeft(ScreenPrintChar, s, seq) = Printing!Folded(s, seq)
    BY FoldsAgree, Zenon
  <2> QED
    BY <2>1 DEF ScreenPrint
<1> HIDE DEF S
<1>4. Printing!Folded(s, seq) \in S
  BY <1>1, <1>2, Printing!FoldKeeps
<1> QED
  BY <1>3, <1>4 DEF S

\* The echo of an input is printed like any text.
LEMMA ReadInputPrints ==
    ASSUME NEW s \in Resting, NEW input, NEW seq, NEW n \in Nat, DOMAIN seq = 1..n,
           \A i \in 1..n : seq[i] \in Chars,
           <<Space>> \o input \o <<"\n", "\n">> = seq
    PROVE  Prints(s, ReadInput(s, input))
<1> DEFINE a == Ask(s)
           asked == [a EXCEPT !.paged = FALSE]
           p == ScreenPrint(asked, seq)
           r == ReadInput(s, input)
<1>1. r = [p EXCEPT !.unread = {}]
  BY DEF ReadInput
<1>2. s \in Screens /\ AtRest(s)
  BY DEF Resting
<1>3. /\ Pages(s, a) /\ a.Row = s.Row /\ a.CursorCol = s.CursorCol
      /\ a.bWordwrap = s.bWordwrap
  BY <1>2, AskKeeps
<1> HIDE DEF a
<1>4. /\ asked \in Screens /\ asked.Row = a.Row /\ asked.CursorCol = a.CursorCol
      /\ asked.bWordwrap = a.bWordwrap /\ asked.TopLine = a.TopLine
      /\ asked.CursorRow = a.CursorRow /\ asked.NonScrollingRows = a.NonScrollingRows
      /\ asked.ScrollsWithoutInput = a.ScrollsWithoutInput
  BY <1>3 DEF Screens, Pages
<1> HIDE DEF asked
<1>5. 0 \in 0..NUM_ROWS
  BY SizeFacts
<1>6. asked \in Resting
  BY <1>2, <1>3, <1>4, <1>5 DEF Resting, AtRest, Pages
<1>7. Prints(asked, p)
  BY <1>6, ScreenPrintPrints
<1> HIDE DEF p, r
<1>8. /\ r \in Screens /\ r.Row = p.Row /\ r.CursorCol = p.CursorCol
      /\ r.bWordwrap = p.bWordwrap /\ r.TopLine = p.TopLine
      /\ r.CursorRow = p.CursorRow /\ r.NonScrollingRows = p.NonScrollingRows
      /\ r.ScrollsWithoutInput = p.ScrollsWithoutInput
  BY <1>1, <1>7 DEF Screens, Prints, Resting
<1>9. r \in Resting
  BY <1>7, <1>8 DEF Resting, AtRest, Prints
<1>10. ASSUME AtBottom(s), s.NonScrollingRows <= NUM_ROWS - 2
       PROVE  AtBottom(r) /\ KeepsAbove(s, r)
  <2>1. AtBottom(asked) /\ KeepsAbove(s, asked)
        /\ asked.NonScrollingRows = s.NonScrollingRows
    BY <1>3, <1>4, <1>10 DEF AtBottom, KeepsAbove, LineText, RowOf, Pages
  <2>2. AtBottom(p) /\ KeepsAbove(asked, p)
    BY <1>7, <1>10, <2>1 DEF Prints
  <2>3. AtBottom(r) /\ KeepsAbove(p, r)
    BY <1>8, <2>2 DEF AtBottom, KeepsAbove, LineText, RowOf
  <2> QED
    BY <2>1, <2>2, <2>3 DEF KeepsAbove
<1>11. r.NonScrollingRows = s.NonScrollingRows
  BY <1>3, <1>4, <1>7, <1>8 DEF Prints, Pages
<1> QED
  BY <1>9, <1>10, <1>11 DEF Prints, r

--------------------------------------------------------------------------------
\* What an instruction makes of the windows w.
LeavesPlaced(w, v) ==
    /\ Placed(v)
    /\ w.curWindow = 0 /\ v.curWindow = 0 /\ v.windowStart = w.windowStart
          => \A line \in 0..(w.windowStart[0] - 1) :
                LineText(v.screen, line) = LineText(w.screen, line)

\* The lines above window 0 are among those that do not scroll.
LEMMA AboveIsAbove ==
    ASSUME NEW w, Placed(w), NEW v, KeepsAbove(w.screen, v.screen)
    PROVE  \A line \in 0..(w.windowStart[0] - 1) :
              LineText(v.screen, line) = LineText(w.screen, line)
<1>1. /\ w.windowStart \in [WindowNums -> Rows] /\ w.screen \in Screens
      /\ w.windowStart[0] <= w.screen.NonScrollingRows
  BY WindowFields DEF Placed
<1>2. /\ w.windowStart[0] \in Int /\ w.screen.NonScrollingRows \in Int
  BY <1>1, ScreenFields DEF WindowNums, Rows
<1>3. 0..(w.windowStart[0] - 1) \subseteq 0..(w.screen.NonScrollingRows - 1)
  BY <1>1, <1>2
<1> QED
  BY <1>3 DEF KeepsAbove

\* The screen is split or unsplit from window 0.
LEMMA SplitLeaves ==
    ASSUME NEW w, Placed(w), w.curWindow = 0, NEW line \in 0..(NUM_ROWS - 2),
           w.windowStart[1] <= line
    PROVE  /\ LeavesPlaced(w, SplitAt(w, line))
           /\ SplitAt(w, line).curWindow = 0
           /\ SplitAt(w, line).windowStart[0] = line
           /\ \A i \in WindowNums \ {0} :
                 SplitAt(w, line).windowStart[i] = w.windowStart[i]
<1> DEFINE starts == [w.windowStart EXCEPT ![0] = line]
           s == [w.screen EXCEPT !.NonScrollingRows = line, !.paged = TRUE]
           v == SplitAt(w, line)
<1>1. /\ w \in Windowed /\ w.windowStart \in [WindowNums -> Rows]
      /\ w.screen \in Screens /\ AtRest(w.screen)
  BY WindowFields DEF Placed
<1>2. line \in Rows /\ 0 \in WindowNums
  BY SizeFacts DEF Rows, WindowNums
<1>3. v = [w EXCEPT !.windowStart = starts, !.screen = s]
  BY <1>1 DEF SplitAt, Windowed
<1>4. /\ s \in Screens /\ s.NonScrollingRows = line /\ s.Row = w.screen.Row
      /\ s.TopLine = w.screen.TopLine /\ s.CursorRow = w.screen.CursorRow
      /\ s.CursorCol = w.screen.CursorCol /\ s.bWordwrap = w.screen.bWordwrap
      /\ s.ScrollsWithoutInput = w.screen.ScrollsWithoutInput
  BY <1>1, <1>2 DEF Screens
<1> HIDE DEF s
<1>5. s \in Resting
  BY <1>1, <1>4 DEF Resting, AtRest
<1>6. /\ starts \in [WindowNums -> Rows] /\ starts[0] = line
      /\ \A i \in WindowNums \ {0} : starts[i] = w.windowStart[i]
  BY <1>1, <1>2
<1> HIDE DEF starts, v
<1>7. /\ v \in Windowed /\ v.windowStart = starts /\ v.screen = s
      /\ v.curWindow = w.curWindow /\ v.cursorX = w.cursorX /\ v.cursorY = w.cursorY
  BY <1>3, <1>5, <1>6 DEF Windowed, Placed
<1>8. CursorLine(v.screen) = NUM_ROWS - 1
  BY <1>4, <1>7 DEF CursorLine, LineOf, Placed
<1>9. Placed(v)
  <2>1. starts[1] = w.windowStart[1] /\ starts[2] = w.windowStart[2]
    BY <1>6 DEF WindowNums
  <2> QED
    BY <1>4, <1>6, <1>7, <1>8, <2>1 DEF Placed
<1>10. \A l \in 0..(w.windowStart[0] - 1) : LineText(v.screen, l) = LineText(w.screen, l)
  BY <1>4, <1>7 DEF LineText, RowOf
<1> QED
  BY <1>6, <1>7, <1>9, <1>10 DEF LeavesPlaced, v

\* A text is printed.
LEMMA WriteLeaves ==
    ASSUME NEW w, Placed(w), NEW v, Writes(w, v)
    PROVE  LeavesPlaced(w, v)
BY PlacedWrites, AboveIsAbove DEF LeavesPlaced

\* The window is changed.
LEMMA SetWindowLeaves ==
    ASSUME NEW w, Placed(w), NEW windowNum \in WindowNums, NEW reset \in BOOLEAN,
           reset => windowNum # 0
    PROVE  LeavesPlaced(w, ioSetWindow(w, windowNum, reset))
BY ioSetWindowPlaces DEF LeavesPlaced, ChangesWindow, LineText, RowOf

\* A window is erased, from one that begins at the top.
LEMMA EraseLeaves ==
    ASSUME NEW w, Placed(w), NEW windowNum \in WindowNums,
           w.windowStart[w.curWindow] = 0
    PROVE  /\ LeavesPlaced(w, ioEraseWindow(w, windowNum))
           /\ Erases(w, ioEraseWindow(w, windowNum))
<1> DEFINE v == ioEraseWindow(w, windowNum)
<1>1. w \in Windowed
  BY DEF Placed
<1>2. ASSUME NEW line \in LinesOf(w, windowNum)
      PROVE  line + w.windowStart[w.curWindow] \in 0..NUM_ROWS
  <2>1. line \in Rows
    BY <1>1, LinesOfFacts
  <2> QED
    BY <2>1, SizeFacts DEF Rows
<1>3. Erases(w, v)
  BY <1>1, <1>2, ioEraseWindowErases
<1> HIDE DEF v
<1>4. Placed(v)
  BY <1>3, PlacedErases
<1>5. w.curWindow = 0 => 0..(w.windowStart[0] - 1) = {}
  OBVIOUS
<1>6. LeavesPlaced(w, v)
  BY <1>4, <1>5 DEF LeavesPlaced
<1> QED
  BY <1>3, <1>6 DEF v

\* A line is erased from the cursor on.
LEMMA EraseToEndOfLineLeaves ==
    ASSUME NEW w, Placed(w)
    PROVE  /\ LeavesPlaced(w, ioEraseToEndOfLine(w))
           /\ ioEraseToEndOfLine(w).curWindow = w.curWindow
<1> DEFINE saved == SaveCursor(w)
           p == PrintSpaces(saved, NUM_COLS - saved.cursorX[saved.curWindow])
           v == RestoreCursor(p)
<1>1. w \in Windowed /\ w.curWindow \in WindowNums /\ 0 \in WindowNums
  BY WindowFields DEF Placed, WindowNums
<1>2. SavesCursor(w, saved)
  BY <1>1, SaveCursorSaves
<1>3. ioEraseToEndOfLine(w) = v
  BY DEF ioEraseToEndOfLine
<1> HIDE DEF saved
<1>4. saved \in Windowed /\ saved.curWindow = w.curWindow /\ saved.screen = w.screen
  BY <1>2 DEF SavesCursor
<1>5. NUM_COLS - saved.cursorX[saved.curWindow] \in Nat
  BY <1>1, <1>4, WindowFields, SizeFacts DEF Cols
<1>6. Writes(saved, p)
  BY <1>4, <1>5, SpacesKeep
<1>7. Placed(saved)
  BY <1>1, <1>2 DEF Placed, SavesCursor
<1> HIDE DEF p
<1>8. /\ Placed(p) /\ OnlyScreen(saved, p)
      /\ w.curWindow = 0 => KeepsAbove(w.screen, p.screen)
  BY <1>4, <1>6, <1>7, PlacedWrites DEF Writes
<1>9. CursorLine(w.screen) \in Rows
  BY <1>1, WindowFields
<1>10. p.cursorY[p.curWindow] + p.windowStart[p.curWindow] = CursorLine(w.screen)
  BY <1>2, <1>4, <1>8 DEF SavesCursor, OnlyScreen
<1>11. /\ OnlyScreen(p, v) /\ CursorLine(v.screen) = CursorLine(w.screen)
       /\ v.screen.Row = p.screen.Row /\ v.screen.TopLine = p.screen.TopLine
  BY <1>8, <1>9, <1>10, RestoreCursorKeeps DEF OnlyScreen
<1> HIDE DEF v
<1>12. Placed(v)
  BY <1>1, <1>4, <1>8, <1>11 DEF Placed, OnlyScreen
<1>13. w.curWindow = 0 => KeepsAbove(w.screen, v.screen)
  BY <1>8, <1>11 DEF KeepsAbove, LineText, RowOf, OnlyScreen
<1>14. LeavesPlaced(w, v)
  BY <1>12, <1>13, AboveIsAbove DEF LeavesPlaced
<1>15. v.curWindow = w.curWindow
  BY <1>4, <1>8, <1>11 DEF OnlyScreen
<1> QED
  BY <1>3, <1>14, <1>15

\* What stays in its line, but at its end.
Letters == Chars \ {"\n"}

\* The text of the status line is at most a letter longer than the line.
LEMMA StatusText ==
    LET text == <<Space, "room">> \o [i \in 1..(NUM_COLS - 4) |-> Space] \o <<"score", Space>>
    IN  /\ Len(text) \in 0..(NUM_COLS + 1) /\ DOMAIN text = 1..Len(text)
        /\ \A i \in 1..Len(text) : text[i] \in Letters /\ text[i] \in Chars
<1> DEFINE spaces == [i \in 1..(NUM_COLS - 4) |-> Space]
           m == IF NUM_COLS >= 4 THEN NUM_COLS - 4 ELSE 0
<1>1. m \in 0..(NUM_COLS - 3) /\ 1..(NUM_COLS - 4) = 1..m /\ NUM_COLS \in Nat
  BY SizeFacts
<1>2. spaces = [i \in 1..m |-> Space]
  BY <1>1
<1>3. /\ Space \in Letters /\ "room" \in Letters /\ "score" \in Letters
      /\ \A c \in Letters : c \in Chars
  BY Zenon DEF Chars, Letters, Space
<1> HIDE DEF m, spaces
<1>4. spaces \in Seq(Letters) /\ Len(spaces) = m
  BY <1>1, <1>2, <1>3
<1>5. ASSUME NEW a \in Letters, NEW b \in Letters, NEW c \in Letters, NEW d \in Letters
      PROVE  LET t == <<a, b>> \o spaces \o <<c, d>>
             IN  t \in Seq(Letters) /\ Len(t) = m + 4
  <2>1. <<a, b>> \in Seq(Letters) /\ <<c, d>> \in Seq(Letters)
        /\ Len(<<a, b>>) = 2 /\ Len(<<c, d>>) = 2
    OBVIOUS
  <2> QED
    BY <1>1, <1>4, <2>1
<1>6. LET t == <<Space, "room">> \o spaces \o <<"score", Space>>
      IN  t \in Seq(Letters) /\ Len(t) = m + 4
  BY <1>3, <1>5, Zenon
<1>7. ASSUME NEW text \in Seq(Letters), Len(text) = m + 4
      PROVE  /\ Len(text) \in 0..(NUM_COLS + 1) /\ DOMAIN text = 1..Len(text)
             /\ \A i \in 1..Len(text) : text[i] \in Letters /\ text[i] \in Chars
  BY <1>1, <1>3, <1>7
<1> QED
  BY <1>6, <1>7, Zenon DEF spaces

\* The status line is written (zops.c 1131-1173), and the game is back in its window.
LEMMA updateStatusPlaces ==
    ASSUME NEW w, Placed(w), bHasStatus \in BOOLEAN
    PROVE  /\ Placed(updateStatus(w)) /\ updateStatus(w).curWindow = w.curWindow
           /\ ~bHasStatus => updateStatus(w) = w
<1> DEFINE text == <<Space, "room">> \o [i \in 1..(NUM_COLS - 4) |-> Space]
                        \o <<"score", Space>>
           there == ioSetWindow(w, 2, TRUE)
           status == ioEraseWindow(there, 2)
           written == FoldLeft(ioPrintChar, status, text)
           back == ioSetWindow(written, w.curWindow, FALSE)
<1>1. updateStatus(w) = IF bHasStatus THEN back ELSE w
  BY DEF updateStatus
<1>2. w.curWindow \in WindowNums /\ 2 \in WindowNums /\ 2 # 0 /\ TRUE \in BOOLEAN
  BY WindowFields DEF Placed, WindowNums
<1>3. Placed(there) /\ there.curWindow = 2
  BY <1>2, ioSetWindowPlaces DEF ChangesWindow
<1> HIDE DEF there
<1>4. there.windowStart[there.curWindow] = 0
  BY <1>3 DEF Placed
<1>5. Placed(status) /\ status \in Windowed
  BY <1>2, <1>3, <1>4, EraseLeaves DEF LeavesPlaced, Placed
<1> HIDE DEF status
<1>6. Writes(status, written)
  <2> DEFINE n == Len(text)
  <2>1. n \in 0..(NUM_COLS + 1) /\ DOMAIN text = 1..n /\ \A i \in 1..n : text[i] \in Chars
    BY StatusText
  <2> HIDE DEF n, text
  <2>2. n \in Nat
    BY <2>1
  <2> QED
    BY <1>5, <2>1, <2>2, WriteAll
<1> HIDE DEF written
<1>7. Placed(written)
  BY <1>5, <1>6, PlacedWrites
<1>8. Placed(back) /\ back.curWindow = w.curWindow
  BY <1>2, <1>7, ioSetWindowPlaces DEF ChangesWindow
<1> HIDE DEF back
<1> QED
  BY <1>1, <1>8

\* The screen of w, in window 0, is replaced by one on which text was printed.
LEMMA PrintsLeaves ==
    ASSUME NEW w, Placed(w), w.curWindow = 0, NEW s, Prints(w.screen, s)
    PROVE  LET v == [w EXCEPT !.screen = s] IN LeavesPlaced(w, v) /\ v.curWindow = 0
<1> DEFINE v == [w EXCEPT !.screen = s]
<1>1. w \in Windowed /\ w.screen.NonScrollingRows <= NUM_ROWS - 2 /\ w.screen \in Screens
  BY WindowFields DEF Placed
<1>2. s \in Resting /\ s.NonScrollingRows = w.screen.NonScrollingRows
  BY DEF Prints
<1>3. OnlyScreen(w, v) /\ v.screen = s
  BY <1>1, <1>2, NewScreenKeeps
<1> HIDE DEF v
<1>4. AtBottom(w.screen)
  BY <1>1, BottomLine DEF Placed
<1>5. AtBottom(s) /\ KeepsAbove(w.screen, s)
  BY <1>1, <1>4 DEF Prints
<1>6. Writes(w, v)
  BY <1>3, <1>5 DEF Writes
<1>7. LeavesPlaced(w, v) /\ v.curWindow = 0
  BY <1>3, <1>6, WriteLeaves DEF OnlyScreen
<1> QED
  BY <1>7 DEF v

\* What a ReadInput echoes.
LEMMA InputText ==
    ASSUME NEW input \in Seq(Chars)
    PROVE  LET seq == <<Space>> \o input \o <<"\n", "\n">>
           IN  /\ Len(seq) \in Nat /\ DOMAIN seq = 1..Len(seq)
               /\ \A i \in 1..Len(seq) : seq[i] \in Chars
<1>1. Space \in Chars /\ "\n" \in Chars
  BY Zenon DEF Chars
<1>2. <<Space>> \in Seq(Chars) /\ <<"\n", "\n">> \in Seq(Chars)
  BY <1>1
<1>3. <<Space>> \o input \o <<"\n", "\n">> \in Seq(Chars)
  BY <1>2
<1>4. ASSUME NEW text \in Seq(Chars)
      PROVE  /\ Len(text) \in Nat /\ DOMAIN text = 1..Len(text)
             /\ \A i \in 1..Len(text) : text[i] \in Chars
  OBVIOUS
<1> QED
  BY <1>3, <1>4

\* An input is read in window 0.
LEMMA ReadLeaves ==
    ASSUME NEW w, Placed(w), w.curWindow = 0
    PROVE  LET v == [w EXCEPT !.screen = ReadInput(@, <<>>)]
           IN  LeavesPlaced(w, v) /\ v.curWindow = 0
<1> DEFINE seq == <<Space>> \o <<>> \o <<"\n", "\n">>
           r == ReadInput(w.screen, <<>>)
<1>1. w.screen \in Resting
  BY WindowFields DEF Placed
<1>2. <<>> \in Seq(Chars)
  OBVIOUS
<1>3. Len(seq) \in Nat /\ DOMAIN seq = 1..Len(seq) /\ \A i \in 1..Len(seq) : seq[i] \in Chars
  BY <1>2, InputText
<1> HIDE DEF seq
<1>4. Prints(w.screen, r)
  BY <1>1, <1>3, ReadInputPrints DEF seq
<1> HIDE DEF r
<1>5. LET v == [w EXCEPT !.screen = r] IN LeavesPlaced(w, v) /\ v.curWindow = 0
  BY <1>4, PrintsLeaves
<1> QED
  BY <1>5 DEF r

\* A key is read in another window.
LEMMA ReadSilentlyPlaces ==
    ASSUME NEW w, Placed(w), w.curWindow # 0
    PROVE  LET v == [w EXCEPT !.screen = ReadSilently(@)] IN
           /\ Placed(v) /\ v.curWindow = w.curWindow /\ v.windowStart = w.windowStart
           /\ v.screen.Row = w.screen.Row /\ v.screen.TopLine = w.screen.TopLine
<1> DEFINE a == Ask(w.screen)
           r == ReadSilently(w.screen)
           v == [w EXCEPT !.screen = r]
<1>1. w.screen \in Screens /\ AtRest(w.screen) /\ w \in Windowed
  BY WindowFields DEF Placed
<1>2. r = [a EXCEPT !.paged = TRUE]
  BY DEF ReadSilently
<1>3. /\ Pages(w.screen, a) /\ a.Row = w.screen.Row /\ a.CursorCol = w.screen.CursorCol
      /\ a.bWordwrap = w.screen.bWordwrap
  BY <1>1, AskKeeps
<1> HIDE DEF a, r
<1>4. /\ r \in Screens /\ r.Row = a.Row /\ r.CursorCol = a.CursorCol
      /\ r.bWordwrap = a.bWordwrap /\ r.TopLine = a.TopLine
      /\ r.NonScrollingRows = a.NonScrollingRows
      /\ r.ScrollsWithoutInput = a.ScrollsWithoutInput
  BY <1>2, <1>3 DEF Screens, Pages
<1>5. r \in Resting /\ r.NonScrollingRows = w.screen.NonScrollingRows
  BY <1>1, <1>3, <1>4, SizeFacts DEF Resting, AtRest, Pages
<1>6. OnlyScreen(w, v) /\ v.screen = r
  BY <1>1, <1>5, NewScreenKeeps
<1> HIDE DEF v
<1>7. Placed(v)
  BY <1>5, <1>6 DEF Placed, OnlyScreen
<1>8. /\ v.curWindow = w.curWindow /\ v.windowStart = w.windowStart
      /\ v.screen.Row = w.screen.Row /\ v.screen.TopLine = w.screen.TopLine
  BY <1>3, <1>4, <1>6 DEF OnlyScreen, Pages
<1> QED
  BY <1>7, <1>8 DEF v, r

\* The cursor is set in another window than 0.
LEMMA ioSetCursorPlaces ==
    ASSUME NEW w, Placed(w), w.curWindow # 0, NEW x \in Cols, NEW y \in Int,
           y + w.windowStart[w.curWindow] \in Rows
    PROVE  LET v == ioSetCursor(w, x, y) IN
           /\ Placed(v) /\ v.curWindow = w.curWindow /\ v.windowStart = w.windowStart
           /\ v.screen.Row = w.screen.Row /\ v.screen.TopLine = w.screen.TopLine
<1> DEFINE line == y + w.windowStart[w.curWindow]
           t == SetCursorPosition(w.screen, x, line)
           v == ioSetCursor(w, x, y)
<1>1. w \in Windowed /\ w.screen \in Resting
  BY WindowFields DEF Placed
<1>2. line \in 0..NUM_ROWS
  BY SizeFacts DEF Rows
<1>3. OnlyScreen(w, v) /\ v.screen = t
  BY <1>1, <1>2, ioSetCursorKeeps
<1> HIDE DEF line, v
<1>4. t.Row = w.screen.Row /\ t.TopLine = w.screen.TopLine
  BY <1>1, <1>2, SetCursorFacts
<1> HIDE DEF t
<1>5. Placed(v)
  BY <1>3 DEF Placed, OnlyScreen
<1>6. /\ v.curWindow = w.curWindow /\ v.windowStart = w.windowStart
      /\ v.screen.Row = w.screen.Row /\ v.screen.TopLine = w.screen.TopLine
  BY <1>3, <1>4 DEF OnlyScreen
<1> QED
  BY <1>5, <1>6 DEF v

--------------------------------------------------------------------------------
(***************************************************************************)
(* The instructions.                                                       *)
(***************************************************************************)
\* The inductive invariant of the windows.
WInv ==
    /\ Placed(Now)
    /\ curWindow \in 0..1
    /\ bHasStatus \in BOOLEAN

\* What a step does to the screen and the windows.
Kept ==
    /\ WInv'
    /\ LeavesPlaced(Now, Now') \/ (bHasStatus /\ printed' = printed)

\* What a step becomes is the next state.
LEMMA BecomeNow ==
    ASSUME WInv, NEW v, Placed(v), v.curWindow \in 0..1, Become(v)
    PROVE  WInv' /\ Now' = v
<1>1. v = [screen |-> v.screen, curWindow |-> v.curWindow, cursorX |-> v.cursorX,
           cursorY |-> v.cursorY, windowStart |-> v.windowStart]
  BY DEF Placed, Windowed
<1>2. Now' = v
  BY <1>1 DEF Become, Now
<1>3. curWindow' \in 0..1 /\ bHasStatus' = bHasStatus
  BY DEF Become
<1>4. Placed(Now')
  BY <1>2
<1> QED
  BY <1>2, <1>3, <1>4 DEF WInv

\* The fields of the windows are the variables.
LEMMA NowFields ==
    ASSUME WInv
    PROVE  /\ Now.screen = screen /\ Now.curWindow = curWindow
           /\ Now.cursorX = cursorX /\ Now.cursorY = cursorY
           /\ Now.windowStart = windowStart
           /\ Placed(Now) /\ Now \in Windowed /\ bHasStatus \in BOOLEAN
           /\ curWindow \in 0..1 /\ curWindow \in WindowNums
BY DEF WInv, Now, Placed, WindowNums

\* An instruction that leaves the windows in place keeps the invariant.
LEMMA LeavesKept ==
    ASSUME WInv, NEW v, LeavesPlaced(Now, v), v.curWindow \in 0..1, Become(v)
    PROVE  Kept
<1>1. Placed(v)
  BY DEF LeavesPlaced
<1>2. WInv' /\ Now' = v
  BY <1>1, BecomeNow
<1>3. LeavesPlaced(Now, Now')
  BY <1>2
<1> QED
  BY <1>2, <1>3 DEF Kept

\* printText (zops.c 611-627).
LEMMA PrintTextKept ==
    ASSUME WInv, NEW text \in {NextWord, <<Space>>, NewLine}, printText(text)
    PROVE  Kept
<1> DEFINE v == FoldLeft(ioPrintChar, Now, text)
<1>1. /\ "a" \in Chars /\ "b" \in Chars /\ "c" \in Chars /\ "," \in Chars
      /\ Space \in Chars /\ "\n" \in Chars
  BY Zenon DEF Chars
<1>2. text \in Seq(Chars)
  <2>1. ASSUME NEW a \in Chars, NEW b \in Chars
        PROVE  <<a>> \in Seq(Chars) /\ <<a, b>> \in Seq(Chars)
    OBVIOUS
  <2>2. /\ <<"a", "b">> \in Seq(Chars) /\ <<"c", ",">> \in Seq(Chars)
        /\ <<Space>> \in Seq(Chars) /\ <<"\n">> \in Seq(Chars)
    BY <1>1, <2>1, Zenon
  <2> QED
    BY <2>2, Zenon DEF NextWord, NewLine
<1>3. Len(text) \in Nat /\ DOMAIN text = 1..Len(text) /\ \A i \in 1..Len(text) : text[i] \in Chars
  BY <1>2
<1>4. Now \in Windowed /\ Placed(Now) /\ Now.curWindow = curWindow /\ curWindow \in 0..1
  BY NowFields
<1>5. Writes(Now, v)
  BY <1>3, <1>4, WriteAll
<1>6. Become(v)
  BY DEF printText
<1> HIDE DEF v
<1>7. LeavesPlaced(Now, v) /\ v.curWindow \in 0..1
  BY <1>4, <1>5, WriteLeaves DEF Writes, OnlyScreen
<1> QED
  BY <1>6, <1>7, LeavesKept

\* split_window (zops.c 2073-2101).
LEMMA SplitWindowKept ==
    ASSUME Tidy, WInv, NEW numLines \in 0..MaxSplit, split_window(numLines)
    PROVE  Kept
<1> DEFINE line == numLines + windowStart[1]
           start == windowStart[1]
<1>1. /\ Now \in Windowed /\ Placed(Now) /\ Now.curWindow = 0 /\ curWindow = 0
      /\ Now.windowStart = windowStart /\ bHasStatus \in BOOLEAN
      /\ bHasStatus => numLines = 0
  BY NowFields DEF split_window
<1>2. start \in 0..1
  BY <1>1 DEF Placed
<1>3. /\ line \in 0..(NUM_ROWS - 2) /\ start \in 0..(NUM_ROWS - 2)
      /\ start <= line /\ start <= start /\ Now.windowStart[1] = start
  BY <1>1, <1>2, SizeFacts
<1> HIDE DEF line, start
<1>4. ioSplitWindow(Now, numLines) = SplitAt(Now, line) /\ ioUnsplitWindow(Now) = SplitAt(Now, start)
  BY <1>1 DEF ioSplitWindow, ioUnsplitWindow, line, start
<1>5. \/ Become(SplitAt(Now, line))
      \/ Become(SplitAt(Now, start))
  BY <1>1, <1>4 DEF split_window, Move
<1>6. /\ LeavesPlaced(Now, SplitAt(Now, line)) /\ SplitAt(Now, line).curWindow \in 0..1
      /\ LeavesPlaced(Now, SplitAt(Now, start)) /\ SplitAt(Now, start).curWindow \in 0..1
  BY <1>1, <1>3, SplitLeaves
<1> QED
  BY <1>5, <1>6, LeavesKept

\* set_window.
LEMMA ChangeWindowKept ==
    ASSUME WInv, NEW windowNum \in 0..1, set_window(windowNum)
    PROVE  Kept
<1> DEFINE v == ioSetWindow(Now, windowNum, windowNum = 1)
<1>1. Placed(Now) /\ windowNum \in WindowNums /\ (windowNum = 1) \in BOOLEAN
  BY NowFields DEF WindowNums
<1>2. windowNum = 1 => windowNum # 0
  OBVIOUS
<1>3. LeavesPlaced(Now, v)
  BY <1>1, <1>2, SetWindowLeaves
<1>4. ChangesWindow(Now, v, windowNum)
  BY <1>1, <1>2, ioSetWindowPlaces
<1>5. Become(v)
  BY DEF set_window, Move
<1> HIDE DEF v
<1>6. v.curWindow \in 0..1
  BY <1>4 DEF ChangesWindow
<1> QED
  BY <1>3, <1>5, <1>6, LeavesKept

\* erase_window; the screen is unsplit from window 0 only, or its cursor would be left
\* in a line that the next split counts among the upper window's.
LEMMA EraseWindowKept ==
    ASSUME Tidy, WInv, NEW windowNum \in (-2)..1, erase_window(windowNum)
    PROVE  Kept
<1> DEFINE start == windowStart[1]
           split == SplitAt(Now, start)
           all == ioEraseWindow(split, 0)
           two == FoldLeft(ioEraseWindow, Now, <<0, 1>>)
           one == ioEraseWindow(Now, windowNum)
<1>1. /\ Now \in Windowed /\ Placed(Now) /\ Now.curWindow = curWindow
      /\ Now.windowStart = windowStart /\ curWindow \in 0..1
      /\ 0 \in WindowNums /\ 1 \in WindowNums
  BY NowFields DEF WindowNums
<1>2. /\ windowStart[curWindow] = 0 /\ Now.windowStart[Now.curWindow] = 0
      /\ windowNum = -1 => curWindow = 0
  BY <1>1 DEF erase_window
<1>3. ioUnsplitWindow(Now) = split
  BY <1>1 DEF ioUnsplitWindow
<1>4. \/ windowNum = -1 /\ Become(all)
      \/ windowNum = -2 /\ Become(two)
      \/ windowNum \notin {-1, -2} /\ Become(one)
  BY <1>3 DEF erase_window, Move
<1>5. CASE windowNum = -1 /\ Become(all)
  <2>1. start = 0
    BY <1>1, <1>2, <1>5 DEF Placed
  <2>2. start \in 0..(NUM_ROWS - 2) /\ Now.windowStart[1] <= start
    BY <1>1, <2>1, SizeFacts
  <2> HIDE DEF start
  <2>3. /\ LeavesPlaced(Now, split) /\ split.curWindow = 0
        /\ split.windowStart[0] = start
    BY <1>1, <1>2, <1>5, <2>2, SplitLeaves
  <2> HIDE DEF split
  <2>4. Placed(split) /\ split.windowStart[split.curWindow] = 0
    BY <2>1, <2>3 DEF LeavesPlaced
  <2>5. LeavesPlaced(split, all) /\ Erases(split, all)
    BY <1>1, <2>4, EraseLeaves
  <2> HIDE DEF all
  <2>6. Placed(all) /\ all.curWindow \in 0..1
    BY <2>3, <2>5 DEF LeavesPlaced, Erases
  <2>7. 0..(Now.windowStart[0] - 1) = {}
    BY <1>1, <1>2, <1>5
  <2>8. LeavesPlaced(Now, all)
    BY <2>6, <2>7 DEF LeavesPlaced
  <2> QED
    BY <1>5, <2>6, <2>8, LeavesKept
<1>6. CASE windowNum = -2 /\ Become(two)
  <2> DEFINE S == {v \in Windowed : Placed(v) /\ v.curWindow = curWindow
                                      /\ v.windowStart = windowStart}
             seq == <<0, 1>>
  <2>1. Now \in S
    BY <1>1
  <2>2. DOMAIN seq = 1..2 /\ \A i \in 1..2 : seq[i] \in WindowNums
    BY DEF WindowNums
  <2>3. ASSUME NEW v \in S, NEW i \in 1..2 PROVE ioEraseWindow(v, seq[i]) \in S
    <3>1. seq[i] \in WindowNums /\ Placed(v) /\ v.windowStart[v.curWindow] = 0
      BY <1>2, <2>2
    <3>2. /\ LeavesPlaced(v, ioEraseWindow(v, seq[i]))
          /\ Erases(v, ioEraseWindow(v, seq[i]))
      BY <3>1, EraseLeaves
    <3> QED
      BY <3>2 DEF LeavesPlaced, Erases
  <2> HIDE DEF S, seq
  <2>4. Erasing!Folded(Now, seq) \in S
    BY <2>1, <2>2, <2>3, Erasing!FoldKeeps, Zenon
  <2>5. two \in S
    BY <2>4, FoldsAgree, Zenon DEF seq
  <2> HIDE DEF two
  <2>6. Placed(two) /\ two.curWindow = curWindow
    BY <2>5 DEF S
  <2>7. curWindow = 0 => 0..(Now.windowStart[0] - 1) = {}
    BY <1>1, <1>2
  <2>8. LeavesPlaced(Now, two)
    BY <1>1, <2>6, <2>7 DEF LeavesPlaced
  <2> QED
    BY <1>1, <1>6, <2>6, <2>8, LeavesKept
<1>7. CASE windowNum \notin {-1, -2} /\ Become(one)
  <2>1. windowNum \in WindowNums
    BY <1>7 DEF WindowNums
  <2>2. LeavesPlaced(Now, one) /\ Erases(Now, one)
    BY <1>1, <1>2, <2>1, EraseLeaves
  <2> HIDE DEF one
  <2>3. one.curWindow \in 0..1
    BY <1>1, <2>2 DEF Erases
  <2> QED
    BY <1>7, <2>2, <2>3, LeavesKept
<1> QED
  BY <1>4, <1>5, <1>6, <1>7

\* erase_line.
LEMMA EraseLineKept ==
    ASSUME WInv, erase_line
    PROVE  Kept
<1> DEFINE v == ioEraseToEndOfLine(Now)
<1>1. LeavesPlaced(Now, v) /\ v.curWindow \in 0..1
  BY NowFields, EraseToEndOfLineLeaves
<1>2. Become(v)
  BY DEF erase_line, Move
<1> QED
  BY <1>1, <1>2, LeavesKept

\* set_cursor, within the upper window.
LEMMA SetCursorKept ==
    ASSUME WInv, NEW line \in 1..NUM_ROWS, NEW column \in 1..NUM_COLS,
           set_cursor(line, column)
    PROVE  Kept
<1> DEFINE x == column - 1
           y == line - 1 - windowStart[1]
           v == ioSetCursor(Now, x, y)
<1>1. /\ Placed(Now) /\ Now \in Windowed /\ Now.curWindow = 1 /\ Now.windowStart = windowStart
      /\ 1 \in WindowNums
  BY NowFields DEF set_cursor, WindowNums
<1>2. windowStart[1] \in 0..1
  BY <1>1 DEF Placed
<1>3. line - 1 \in Rows
  BY SizeFacts DEF Rows
<1>4. x \in Cols /\ y \in Int /\ y + windowStart[1] = line - 1
  BY <1>2, SizeFacts DEF Cols
<1>5. Become(v)
  BY DEF set_cursor, Move
<1> HIDE DEF x, y
<1>6. Placed(v) /\ v.curWindow = 1
  BY <1>1, <1>3, <1>4, ioSetCursorPlaces
<1> HIDE DEF v
<1>7. LeavesPlaced(Now, v)
  BY <1>1, <1>6 DEF LeavesPlaced
<1> QED
  BY <1>5, <1>6, <1>7, LeavesKept

\* sread, which writes the status line first.
LEMMA SreadKept ==
    ASSUME Tidy, WInv, sread
    PROVE  Kept
<1> DEFINE w == updateStatus(Now)
           v == [w EXCEPT !.screen = ReadInput(@, <<>>)]
<1>1. Placed(Now) /\ Now.curWindow = 0 /\ curWindow = 0 /\ bHasStatus \in BOOLEAN
  BY NowFields DEF sread
<1>2. Placed(w) /\ w.curWindow = 0 /\ (~bHasStatus => w = Now)
  BY <1>1, updateStatusPlaces
<1>3. Become(v) /\ printed' = printed
  BY DEF sread, Move
<1> HIDE DEF w
<1>4. LeavesPlaced(w, v) /\ v.curWindow = 0
  BY <1>2, ReadLeaves
<1> HIDE DEF v
<1>5. WInv' /\ Now' = v
  BY <1>3, <1>4, BecomeNow DEF LeavesPlaced
<1> QED
  BY <1>2, <1>3, <1>4, <1>5 DEF Kept

\* read_char, which puts its input field into the last line by way of window 2.
LEMMA ReadCharKept ==
    ASSUME WInv, read_char
    PROVE  Kept
<1> DEFINE there == ioSetWindow(Now, 2, FALSE)
           w == ioSetCursor(there, NUM_COLS - 3, NUM_ROWS - 1)
           read == [w EXCEPT !.screen = ReadSilently(@)]
           v == ioSetWindow(read, curWindow, FALSE)
<1>1. /\ Placed(Now) /\ Now.curWindow = curWindow /\ curWindow \in WindowNums
      /\ curWindow \in 0..1 /\ 2 \in WindowNums /\ 2 # 0 /\ FALSE \in BOOLEAN
      /\ Now \in Windowed /\ 0 \in WindowNums
  BY NowFields DEF WindowNums
<1>2. Placed(there) /\ ChangesWindow(Now, there, 2)
  BY <1>1, ioSetWindowPlaces
<1> HIDE DEF there
<1>3. /\ there.curWindow = 2 /\ there.windowStart[2] = 0
      /\ NUM_COLS - 3 \in Cols /\ NUM_ROWS - 1 \in Int
      /\ NUM_ROWS - 1 + there.windowStart[there.curWindow] \in Rows
  BY <1>2, SizeFacts DEF ChangesWindow, Placed, Rows, Cols
<1>4. /\ Placed(w) /\ w.curWindow = there.curWindow
      /\ w.screen.Row = there.screen.Row /\ w.screen.TopLine = there.screen.TopLine
  BY <1>2, <1>3, ioSetCursorPlaces
<1> HIDE DEF w
<1>5. /\ Placed(read)
      /\ read.screen.Row = w.screen.Row /\ read.screen.TopLine = w.screen.TopLine
  BY <1>3, <1>4, ReadSilentlyPlaces
<1> HIDE DEF read
<1>6. Placed(v) /\ ChangesWindow(read, v, curWindow)
  BY <1>1, <1>5, ioSetWindowPlaces
<1>7. Become(v)
  BY DEF read_char, Move, v, read, w, there
<1> HIDE DEF v
<1>8. v.screen.Row = Now.screen.Row /\ v.screen.TopLine = Now.screen.TopLine
  BY <1>2, <1>4, <1>5, <1>6 DEF ChangesWindow
<1>9. LeavesPlaced(Now, v) /\ v.curWindow \in 0..1
  BY <1>1, <1>6, <1>8 DEF LeavesPlaced, LineText, RowOf, ChangesWindow
<1> QED
  BY <1>7, <1>9, LeavesKept

\* The fields of the invariant that the properties speak of.
LEMMA StatusAfter ==
    ASSUME WInv, Kept, printed \in Nat,
           curWindow = 0, UNCHANGED <<curWindow, windowStart>>,
           printed' > printed \/ ~bHasStatus
    PROVE  \A line \in 0..(windowStart[0] - 1) :
              LineText(screen', line) = LineText(screen, line)
<1>1. LeavesPlaced(Now, Now')
  BY DEF Kept
<1>2. /\ Now.curWindow = 0 /\ Now.windowStart = windowStart /\ Now.screen = screen
      /\ (Now').curWindow = curWindow' /\ (Now').windowStart = windowStart'
      /\ (Now').screen = screen'
  BY DEF Now
<1> QED
  BY <1>1, <1>2 DEF LeavesPlaced

\* Every step keeps the invariant and, but where version 3 writes its status line or
\* erases the upper window, the lines above window 0.
LEMMA NextKept ==
    ASSUME Tidy, WInv, Next
    PROVE  Kept
<1>1. ASSUME NEW text \in {NextWord, <<Space>>, NewLine}, printText(text)
      PROVE  Kept
  BY <1>1, PrintTextKept
<1>2. ASSUME NEW numLines \in 0..MaxSplit, split_window(numLines)
      PROVE  Kept
  BY <1>2, SplitWindowKept
<1>3. ASSUME NEW windowNum \in 0..1, set_window(windowNum)
      PROVE  Kept
  BY <1>3, ChangeWindowKept
<1>4. ASSUME NEW windowNum \in (-2)..1, erase_window(windowNum)
      PROVE  Kept
  BY <1>4, EraseWindowKept
<1>5. ASSUME erase_line PROVE Kept
  BY <1>5, EraseLineKept
<1>6. ASSUME NEW line \in 1..NUM_ROWS, NEW column \in 1..NUM_COLS, set_cursor(line, column)
      PROVE  Kept
  BY <1>6, SetCursorKept
<1>7. ASSUME sread PROVE Kept
  BY <1>7, SreadKept
<1>8. ASSUME read_char PROVE Kept
  BY <1>8, ReadCharKept
<1> QED
  BY <1>1, <1>2, <1>3, <1>4, <1>5, <1>6, <1>7, <1>8 DEF Next

\* The number of characters printed stays a number.
LEMMA PrintedCounts ==
    ASSUME printed \in Nat, Next PROVE printed' \in Nat
<1>1. printed' = printed + 1 \/ printed' = printed
  BY DEF Next, printText, split_window, set_window, erase_window, erase_line, set_cursor,
         sread, read_char, Move
<1> QED
  BY <1>1

\* The invariant gives the types.
LEMMA WInvTypes ==
    ASSUME WInv PROVE TypeOK
<1>1. /\ Now \in Windowed /\ Placed(Now) /\ Now.screen = screen /\ Now.curWindow = curWindow
      /\ Now.cursorX = cursorX /\ Now.windowStart = windowStart
      /\ bHasStatus \in BOOLEAN
  BY NowFields
<1>2. /\ screen \in Screens /\ AtRest(screen)
      /\ curWindow \in WindowNums /\ windowStart \in [WindowNums -> Rows]
      /\ cursorX \in [WindowNums -> Cols]
  BY <1>1, WindowFields
<1> QED
  BY <1>1, <1>2, ScreenFields DEF TypeOK, AtRest

\* A step that changes nothing keeps it.
LEMMA WInvStutters ==
    ASSUME WInv, UNCHANGED vars PROVE WInv'
<1>1. Now' = Now
  BY DEF vars, windowVars, Now
<1>2. Placed(Now')
  BY <1>1 DEF WInv
<1> QED
  BY <1>2 DEF WInv, vars, windowVars

--------------------------------------------------------------------------------
(***************************************************************************)
(* The initial states: the menu, its answer, and the windows erased.       *)
(***************************************************************************)
\* A screen on which k characters of the menu have been printed.
Shown(k) ==
    {t \in Resting : /\ CursorLine(t) = k \div 2 /\ t.CursorCol = k % 2 /\ ~t.bWordwrap
                     /\ t.NonScrollingRows = 1 /\ t.ScrollsWithoutInput = 0 /\ ~t.lost}

\* The screen begins empty, at the top.
LEMMA NewScreenShown ==
    SetCursorPosition(NewScreen, 0, 0) \in Shown(0)
<1> DEFINE s == NewScreen
           t == SetCursorPosition(s, 0, 0)
<1>1. 0 \in Rows /\ 1 \in Rows /\ 0 \in Cols /\ 0 \in 0..NUM_COLS /\ 0 < NUM_ROWS
      /\ 0 \in 0..(NUM_ROWS + 1) /\ 0 \in 0..NUM_ROWS
  BY SizeFacts DEF Rows, Cols
<1>2. [row \in Rows |-> EmptyRow] \in [Rows -> [Cols -> Chars]]
  <2>1. Space \in Chars
    BY Zenon DEF Chars
  <2> QED
    BY <2>1 DEF EmptyRow
<1>3. s \in Screens
  BY <1>1, <1>2 DEF NewScreen, Screens
<1>4. /\ s.CursorCol = 0 /\ s.ScrollsWithoutInput = 0 /\ ~s.bWordwrap
      /\ s.NonScrollingRows = 1 /\ ~s.lost
  BY DEF NewScreen
<1> HIDE DEF s
<1>5. s \in Resting
  BY <1>1, <1>3, <1>4 DEF Resting, AtRest
<1>6. /\ t \in Resting /\ t.NonScrollingRows = 1 /\ t.CursorCol = 0 /\ ~t.bWordwrap
      /\ t.ScrollsWithoutInput = 0 /\ CursorLine(t) = 0 /\ ~t.lost
  BY <1>1, <1>4, <1>5, SetCursorFacts
<1> HIDE DEF t
<1>7. t \in Shown(0)
  BY <1>6 DEF Shown
<1> QED
  BY <1>7 DEF t, s

\* The next row is the next line, where the screen does not scroll.
LEMMA NextLine ==
    ASSUME NEW s \in Screens, NEW c \in Screens, ~Scrolling(s),
           c.CursorRow = NextRow(s), c.TopLine = s.TopLine
    PROVE  CursorLine(c) = CursorLine(s) + 1
<1>1. /\ s.TopLine \in Rows /\ s.CursorRow \in Rows
      /\ c.TopLine \in Rows /\ c.CursorRow \in Rows /\ NUM_ROWS \in Nat /\ NUM_ROWS >= 3
  BY ScreenFields, SizeFacts
<1>2. CursorLine(s) = IF s.CursorRow - s.TopLine < 0 THEN s.CursorRow - s.TopLine + NUM_ROWS
                      ELSE s.CursorRow - s.TopLine
  BY <1>1, LineFacts DEF CursorLine
<1>3. CursorLine(c) = IF c.CursorRow - c.TopLine < 0 THEN c.CursorRow - c.TopLine + NUM_ROWS
                      ELSE c.CursorRow - c.TopLine
  BY <1>1, LineFacts DEF CursorLine
<1> QED
  BY <1>1, <1>2, <1>3 DEF Scrolling, NextRow, Rows

\* Each character of the menu, of one word in a line.
LEMMA MenuChar ==
    ASSUME NEW k \in 0..(2 * (NUM_ROWS - 1) - 1), NEW t \in Shown(k)
    PROVE  ScreenPrintChar(t, Menu[k + 1]) \in Shown(k + 1)
<1> DEFINE char == Menu[k + 1]
           r == ScreenPrintChar(t, char)
<1>1. NUM_ROWS \in Nat /\ NUM_ROWS >= 3 /\ NUM_COLS \in Nat /\ NUM_COLS >= 3
  BY SizeFacts
<1>2. k \in Nat /\ k + 1 \in 1..(2 * (NUM_ROWS - 1)) /\ (k + 1) - 1 = k
  BY <1>1
<1>3. char = MenuLine[(k % 2) + 1]
  BY <1>2 DEF Menu
<1>4. /\ t \in Resting /\ t \in Screens /\ AtRest(t)
      /\ CursorLine(t) = k \div 2 /\ t.CursorCol = k % 2 /\ ~t.bWordwrap
      /\ t.NonScrollingRows = 1 /\ t.ScrollsWithoutInput = 0 /\ ~t.lost
  BY DEF Shown, Resting
<1>5. \/ k % 2 = 0 /\ (k + 1) % 2 = 1 /\ (k + 1) \div 2 = k \div 2
      \/ k % 2 = 1 /\ (k + 1) % 2 = 0 /\ (k + 1) \div 2 = k \div 2 + 1
  BY <1>2
<1>6. k \div 2 < NUM_ROWS - 1
  BY <1>1, <1>2
<1> HIDE DEF char, r
<1>7. CASE k % 2 = 0
  <2>1. char = "menu"
    BY <1>3, <1>7 DEF MenuLine
  <2>2. char \in Chars /\ char # "\n"
    BY <2>1, Zenon DEF Chars
  <2>3. PICK w : /\ Puts(t, w, char)
                 /\ \/ r = w /\ Stays(t, w, char)
                    \/ r = ConditionalScroll(w) /\ GoesDown(t, w, char)
    BY <1>4, <2>2, PrintSplits DEF r
  <2>4. r = w /\ Stays(t, w, char)
    BY <1>1, <1>4, <1>7, <2>2, <2>3 DEF GoesDown
  <2>5. /\ r \in Resting /\ ~r.bWordwrap /\ r.CursorCol = 1
        /\ r.NonScrollingRows = 1 /\ r.ScrollsWithoutInput = 0
        /\ CursorLine(r) = CursorLine(t) /\ ~r.lost
    BY <1>4, <1>7, <2>3, <2>4 DEF Stays, Puts, Resting, CursorLine, LineOf
  <2> QED
    BY <1>4, <1>5, <1>7, <2>5 DEF Shown, r, char
<1>8. CASE k % 2 = 1
  <2>1. char = "\n"
    BY <1>3, <1>8 DEF MenuLine
  <2>2. char \in Chars
    BY <2>1, Zenon DEF Chars
  <2>3. ScreenPrintChar(t, "\n") = ConditionalScroll([t EXCEPT !.bWordwrap = FALSE])
    BY Zenon DEF ScreenPrintChar
  <2> DEFINE w == [t EXCEPT !.bWordwrap = FALSE]
  <2>4. /\ w \in Screens /\ w.bWordwrap = FALSE /\ w.TopLine = t.TopLine
        /\ w.CursorRow = t.CursorRow /\ w.NonScrollingRows = 1
        /\ w.ScrollsWithoutInput = 0 /\ ~w.lost
    BY <1>4, UnwrappedFacts
  <2> HIDE DEF w
  <2>5. r = ConditionalScroll(w)
    BY <2>1, <2>3, Zenon DEF r, w
  <2>6. /\ StepsDown(w, r) /\ KeepsRows(w, r) /\ KeepsUnread(w, r)
    BY <1>1, <2>4, <2>5, StepDown
  <2>7. CursorLine(w) = CursorLine(t)
    BY <2>4 DEF CursorLine, LineOf
  <2>8. ~Scrolling(w)
    BY <1>1, <1>4, <1>6, <2>4, <2>7, BottomScrolls, BottomLine
  <2>9. /\ r \in Resting /\ r.CursorCol = 0 /\ ~r.bWordwrap /\ r.NonScrollingRows = 1
        /\ r.CursorRow = NextRow(w) /\ r.TopLine = w.TopLine /\ r \in Screens
    BY <2>4, <2>6, <2>8 DEF StepsDown, KeepsRows, Resting, AtRest
  <2>10. CursorLine(r) = k \div 2 + 1
    BY <1>4, <2>4, <2>7, <2>8, <2>9, NextLine
  <2>11. r.ScrollsWithoutInput = 0 /\ ~r.lost
    BY <1>1, <2>4, <2>6, <2>8 DEF KeepsUnread, Counted
  <2> QED
    BY <1>5, <1>8, <2>9, <2>10, <2>11 DEF Shown, r, char
<1> QED
  BY <1>5, <1>7, <1>8

\* The whole menu is printed without a scroll.
LEMMA MenuShown ==
    ScreenPrint(SetCursorPosition(NewScreen, 0, 0), Menu) \in Shown(2 * (NUM_ROWS - 1))
<1> DEFINE n == 2 * (NUM_ROWS - 1)
           S == [k \in 0..n |-> Shown(k)]
           base == SetCursorPosition(NewScreen, 0, 0)
           menu == ScreenPrint(base, Menu)
<1>1. NUM_ROWS \in Nat /\ NUM_ROWS >= 3 /\ n \in Nat /\ n >= 0
  BY SizeFacts
<1>2. DOMAIN Menu = 1..n
  BY DEF Menu
<1>3. base \in S[0]
  BY <1>1, NewScreenShown
<1>4. ASSUME NEW k \in 0..(n - 1), NEW t \in S[k]
      PROVE  ScreenPrintChar(t, Menu[k + 1]) \in S[k + 1]
  <2>1. k \in 0..n /\ k + 1 \in 0..n
    BY <1>1
  <2>2. S[k] = Shown(k) /\ S[k + 1] = Shown(k + 1)
    BY <2>1
  <2> QED
    BY <2>2, MenuChar
<1>5. menu = Printing!Folded(base, Menu)
  BY FoldsAgree, Zenon DEF ScreenPrint
<1>6. S[n] = Shown(n)
  BY <1>1
<1> HIDE DEF n, S, base, menu
<1>7. Printing!Folded(base, Menu) \in S[n]
  BY <1>1, <1>2, <1>3, <1>4, Printing!FoldGoes
<1> QED
  BY <1>5, <1>6, <1>7 DEF menu, base, n

\* The screen when the game starts.
LEMMA ShowFacts ==
    Show \in Resting /\ Show.NonScrollingRows = 1 /\ CursorLine(Show) = NUM_ROWS - 1
<1> DEFINE n == 2 * (NUM_ROWS - 1)
           menu == ScreenPrint(SetCursorPosition(NewScreen, 0, 0), Menu)
           seq == <<Space>> \o <<"1">> \o <<"\n", "\n">>
           show == ReadInput(menu, <<"1">>)
<1>1. NUM_ROWS \in Nat /\ NUM_ROWS >= 3 /\ n \div 2 = NUM_ROWS - 1
  BY SizeFacts
<1>2. Show = show
  BY DEF Show
<1>3. menu \in Shown(n)
  BY MenuShown
<1> HIDE DEF n, menu, show
<1>4. /\ menu \in Resting /\ menu \in Screens /\ menu.NonScrollingRows = 1
      /\ CursorLine(menu) = NUM_ROWS - 1
  BY <1>1, <1>3 DEF Shown, Resting
<1>5. <<"1">> \in Seq(Chars)
  <2>1. "1" \in Chars
    BY Zenon DEF Chars
  <2> QED
    BY <2>1
<1>6. Len(seq) \in Nat /\ DOMAIN seq = 1..Len(seq) /\ \A i \in 1..Len(seq) : seq[i] \in Chars
  BY <1>5, InputText
<1> HIDE DEF seq
<1>7. Prints(menu, show)
  BY <1>4, <1>6, ReadInputPrints DEF seq, show
<1>8. AtBottom(menu) /\ 1 <= NUM_ROWS - 2
  BY <1>1, <1>4, BottomLine
<1>9. show \in Resting /\ show.NonScrollingRows = 1 /\ AtBottom(show)
  BY <1>4, <1>7, <1>8 DEF Prints
<1>10. CursorLine(show) = NUM_ROWS - 1
  BY <1>9, BottomLine DEF Resting
<1> QED
  BY <1>2, <1>9, <1>10

\* The windows when they are reset, before they are erased.
Fresh(w, status) ==
    /\ w \in Windowed /\ w.screen = Show /\ w.curWindow = 0
    /\ w.cursorY[1] = 0 /\ w.cursorY[2] = 0
    /\ w.windowStart[2] = 0 /\ w.windowStart[0] = w.windowStart[1]
    /\ w.windowStart[1] = IF status THEN 1 ELSE 0

\* ioReset (zops.c 208-217) erases the status line, then the text.
LEMMA ResetIsFresh ==
    ASSUME NEW status \in BOOLEAN
    PROVE  \E w : Fresh(w, status) /\ Start(status, 0) = FoldLeft(ioEraseWindow, w, <<2, 0>>)
<1> DEFINE none == [screen |-> Show, curWindow |-> 0, cursorX |-> <<>>,
                    cursorY |-> <<>>, windowStart |-> <<>>]
           start == [i \in WindowNums |-> IF i < 2 /\ status THEN 1 ELSE 0]
           xs == [i \in WindowNums |-> 0]
           ys == [i \in WindowNums |-> IF i = 0 THEN NUM_ROWS - 1 ELSE 0]
           reset == [none EXCEPT !.curWindow = 0, !.windowStart = start,
                                 !.cursorX = xs, !.cursorY = ys]
<1>1. Start(status, 0) = FoldLeft(ioEraseWindow, reset, <<2, 0>>)
  BY DEF Start, ioReset
<1> HIDE DEF start, xs, ys
<1>2. reset = [screen |-> Show, curWindow |-> 0, cursorX |-> xs, cursorY |-> ys,
               windowStart |-> start]
  <2> DEFINE Made(s, x, y, at) == [screen : {s}, curWindow : {0}, cursorX : {x},
                                   cursorY : {y}, windowStart : {at}]
  <2>1. ASSUME NEW s, NEW empty
        PROVE  [screen |-> s, curWindow |-> 0, cursorX |-> empty, cursorY |-> empty,
                windowStart |-> empty] \in Made(s, empty, empty, empty)
    OBVIOUS
  <2>2. ASSUME NEW s, NEW empty, NEW x, NEW y, NEW at, NEW w \in Made(s, empty, empty, empty)
        PROVE  [w EXCEPT !.curWindow = 0, !.windowStart = at, !.cursorX = x, !.cursorY = y]
                  \in Made(s, x, y, at)
    OBVIOUS
  <2>3. ASSUME NEW s, NEW x, NEW y, NEW at, NEW w \in Made(s, x, y, at)
        PROVE  w = [screen |-> s, curWindow |-> 0, cursorX |-> x, cursorY |-> y,
                    windowStart |-> at]
    OBVIOUS
  <2> HIDE DEF Made
  <2>4. none \in Made(Show, <<>>, <<>>, <<>>)
    BY <2>1, Zenon
  <2> HIDE DEF none
  <2>5. reset \in Made(Show, xs, ys, start)
    BY <2>2, <2>4, Zenon
  <2> QED
    BY <2>3, <2>5, Zenon
<1>3. NUM_ROWS \in Nat /\ NUM_ROWS >= 3 /\ 0 \in Rows /\ 1 \in Rows /\ 0 \in Cols
      /\ 0 \in WindowNums /\ 1 \in WindowNums /\ 2 \in WindowNums
  BY SizeFacts DEF Rows, Cols, WindowNums
<1>4. /\ start \in [WindowNums -> Rows] /\ start[2] = 0 /\ start[0] = start[1]
      /\ start[1] = IF status THEN 1 ELSE 0
  BY <1>3 DEF WindowNums, start
<1>5. /\ xs \in [WindowNums -> Cols] /\ ys \in [WindowNums -> Int]
      /\ ys[1] = 0 /\ ys[2] = 0
  BY <1>3 DEF WindowNums, xs, ys
<1> HIDE DEF reset
<1>6. reset \in Windowed
  BY <1>2, <1>3, <1>4, <1>5, ShowFacts DEF Windowed
<1>7. /\ reset.screen = Show /\ reset.curWindow = 0 /\ reset.cursorY = ys
      /\ reset.windowStart = start
  BY <1>2
<1>8. Fresh(reset, status)
  BY <1>4, <1>5, <1>6, <1>7 DEF Fresh
<1> QED
  BY <1>1, <1>8

\* Where the lines of a window are erased when the windows are reset.
LEMMA FreshLines ==
    ASSUME NEW status \in BOOLEAN, NEW w, Fresh(w, status), NEW v, Erases(w, v),
           NEW windowNum \in WindowNums
    PROVE  \A line \in LinesOf(v, windowNum) :
              line + v.windowStart[v.curWindow] \in 0..NUM_ROWS
<1>1. v.windowStart[v.curWindow] \in 0..1 /\ v \in Windowed
  BY DEF Fresh, Erases
<1>2. ASSUME NEW line \in LinesOf(v, windowNum) PROVE line \in Rows
  BY <1>1, LinesOfFacts
<1> QED
  BY <1>1, <1>2, SizeFacts DEF Rows

\* The windows are in place when they have been erased.
LEMMA ResetPlaces ==
    ASSUME NEW status \in BOOLEAN
    PROVE  LET r == Start(status, 0) IN
           Placed(r) /\ r.curWindow = 0 /\ r.windowStart[1] \in 0..1
             /\ (~status => r.windowStart[1] = 0)
<1>1. PICK reset : Fresh(reset, status)
                     /\ Start(status, 0) = FoldLeft(ioEraseWindow, reset, <<2, 0>>)
  BY ResetIsFresh
<1> DEFINE seq == <<2, 0>>
           r == FoldLeft(ioEraseWindow, reset, seq)
           S == {v \in Windowed : Erases(reset, v)}
<1>2. NUM_ROWS \in Nat /\ NUM_ROWS >= 3
      /\ 0 \in WindowNums /\ 1 \in WindowNums /\ 2 \in WindowNums
  BY SizeFacts DEF WindowNums
<1>3. reset \in S
  BY <1>1 DEF Erases, Fresh
<1>4. ASSUME NEW v \in S, NEW i \in 1..2 PROVE ioEraseWindow(v, seq[i]) \in S
  <2>1. seq[i] \in WindowNums /\ v \in Windowed /\ Erases(reset, v)
    BY <1>2
  <2>2. Erases(v, ioEraseWindow(v, seq[i]))
    BY <1>1, <2>1, FreshLines, ioEraseWindowErases
  <2> QED
    BY <2>1, <2>2 DEF Erases
<1>5. DOMAIN seq = 1..2
  OBVIOUS
<1> HIDE DEF S, seq
<1>6. Erasing!Folded(reset, seq) \in S
  BY <1>3, <1>4, <1>5, Erasing!FoldKeeps, Zenon
<1>7. r \in S
  BY <1>6, FoldsAgree, Zenon
<1>8. Start(status, 0) = r
  BY <1>1 DEF seq
<1> HIDE DEF r
<1>9. r \in Windowed /\ Erases(reset, r)
  BY <1>7 DEF S
<1>10. /\ r.curWindow = 0 /\ r.windowStart = reset.windowStart
       /\ r.cursorY[1] = 0 /\ r.cursorY[2] = 0
       /\ r.screen.NonScrollingRows = 1 /\ CursorLine(r.screen) = NUM_ROWS - 1
  BY <1>1, <1>2, <1>9, ShowFacts DEF Erases, Fresh
<1>11. /\ r.windowStart[2] = 0 /\ r.windowStart[0] = r.windowStart[1]
       /\ r.windowStart[1] \in 0..1 /\ (~status => r.windowStart[1] = 0)
  BY <1>1, <1>10 DEF Fresh
<1>12. \A i \in WindowNums \ {r.curWindow} : r.cursorY[i] + r.windowStart[i] \in Rows
  BY <1>2, <1>10, <1>11 DEF WindowNums, Rows
<1>13. Placed(r)
  BY <1>2, <1>9, <1>10, <1>11, <1>12 DEF Placed
<1> QED
  BY <1>8, <1>10, <1>11, <1>13

\* And when the game has split the screen.
LEMMA StartPlaces ==
    ASSUME NEW status \in BOOLEAN, NEW numLines \in 0..MaxSplit
    PROVE  Placed(Start(status, numLines)) /\ Start(status, numLines).curWindow = 0
<1> DEFINE r == Start(status, 0)
           line == numLines + r.windowStart[1]
<1>1. /\ Placed(r) /\ r.curWindow = 0 /\ r.windowStart[1] \in 0..1
  BY ResetPlaces
<1>2. \/ Start(status, numLines) = r
      \/ Start(status, numLines) = SplitAt(r, line)
  BY DEF Start, ioSplitWindow
<1> HIDE DEF r
<1>3. line \in 0..(NUM_ROWS - 2) /\ r.windowStart[1] <= line
  BY <1>1, SizeFacts
<1> HIDE DEF line
<1>4. Placed(SplitAt(r, line)) /\ SplitAt(r, line).curWindow = 0
  BY <1>1, <1>3, SplitLeaves DEF LeavesPlaced
<1> QED
  BY <1>1, <1>2, <1>4

\* The invariant holds in the initial states.
LEMMA InitPlaces ==
    ASSUME Init PROVE WInv /\ printed \in Nat
<1>1. PICK status \in BOOLEAN, numLines \in 0..MaxSplit :
         \E start \in {Start(status, IF status THEN 0 ELSE numLines)} :
           /\ bHasStatus = status
           /\ screen = [start.screen EXCEPT !.paged = FALSE]
           /\ curWindow = start.curWindow
           /\ cursorX = start.cursorX
           /\ cursorY = start.cursorY
           /\ windowStart = start.windowStart
           /\ printed = 0
  BY DEF Init
<1> DEFINE n == IF status THEN 0 ELSE numLines
           s == Start(status, n)
<1>2. n \in 0..MaxSplit
  BY SizeFacts
<1>3. Placed(s) /\ s.curWindow = 0
  BY <1>2, StartPlaces
<1>4. /\ bHasStatus = status /\ screen = [s.screen EXCEPT !.paged = FALSE]
      /\ curWindow = s.curWindow /\ cursorX = s.cursorX /\ cursorY = s.cursorY
      /\ windowStart = s.windowStart /\ printed = 0
  BY <1>1
<1> HIDE DEF n, s
<1>5. s \in Windowed /\ s.screen \in Screens /\ AtRest(s.screen)
  BY <1>3, WindowFields DEF Placed
<1>6. /\ screen \in Screens /\ screen.TopLine = s.screen.TopLine
      /\ screen.CursorRow = s.screen.CursorRow /\ screen.CursorCol = s.screen.CursorCol
      /\ screen.NonScrollingRows = s.screen.NonScrollingRows
      /\ screen.bWordwrap = s.screen.bWordwrap
      /\ screen.ScrollsWithoutInput = s.screen.ScrollsWithoutInput
  BY <1>4, <1>5 DEF Screens
<1>7. screen \in Resting
  BY <1>5, <1>6 DEF Resting, AtRest
<1>8. Now \in Windowed
  BY <1>4, <1>5, <1>7 DEF Now, Windowed
<1>9. CursorLine(screen) = CursorLine(s.screen)
  BY <1>6 DEF CursorLine, LineOf
<1>10. /\ Now.screen = screen /\ Now.curWindow = s.curWindow /\ Now.cursorY = s.cursorY
       /\ Now.windowStart = s.windowStart
  BY <1>4 DEF Now
<1>11. Placed(Now)
  BY <1>3, <1>6, <1>8, <1>9, <1>10 DEF Placed
<1> QED
  BY <1>3, <1>4, <1>11 DEF WInv

--------------------------------------------------------------------------------
(***************************************************************************)
(* The theorems about the windows.                                         *)
(***************************************************************************)
\* On every screen, whatever its size, and however long the game runs, the types hold.
THEOREM WindowsTypeCorrect ==
    ASSUME Tidy PROVE Spec => []TypeOK
<1> DEFINE Inv == WInv /\ printed \in Nat
<1>1. Init => Inv
  BY InitPlaces
<1>2. Inv /\ [Next]_vars => Inv'
  <2>1. ASSUME Inv, Next PROVE Inv'
    BY <2>1, NextKept, PrintedCounts DEF Kept
  <2>2. ASSUME Inv, UNCHANGED vars PROVE Inv'
    BY <2>2, WInvStutters DEF vars
  <2> QED
    BY <2>1, <2>2
<1>3. Inv => TypeOK
  BY WInvTypes
<1> QED
  BY <1>1, <1>2, <1>3, PTL DEF Spec

\* On every screen, whatever its size and however long the game runs, what is printed
\* to window 0 leaves the lines above it alone: the word wrap, the scroll with its rows
\* that stay and the [MORE] prompt (Screen.cpp 74-101, 375-393).
THEOREM WindowsKeepStatus ==
    ASSUME Tidy PROVE Spec => StatusKept
<1> DEFINE Inv == WInv /\ printed \in Nat
           A == curWindow = 0 /\ UNCHANGED <<curWindow, windowStart>>
                    /\ (printed' > printed \/ ~bHasStatus)
                  => \A line \in 0..(windowStart[0] - 1) :
                        LineText(screen', line) = LineText(screen, line)
<1>1. Init => Inv
  BY InitPlaces
<1>2. Inv /\ [Next]_vars => Inv'
  <2>1. ASSUME Inv, Next PROVE Inv'
    BY <2>1, NextKept, PrintedCounts DEF Kept
  <2>2. ASSUME Inv, UNCHANGED vars PROVE Inv'
    BY <2>2, WInvStutters DEF vars
  <2> QED
    BY <2>1, <2>2
<1>3. Inv /\ [Next]_vars => [A]_vars
  <2>1. ASSUME Inv, Next PROVE A
    BY <2>1, NextKept, StatusAfter
  <2> QED
    BY <2>1
<1> QED
  BY <1>1, <1>2, <1>3, PTL DEF Spec, StatusKept

--------------------------------------------------------------------------------
(***************************************************************************)
(* The page: no line scrolls off unread.                                   *)
(***************************************************************************)
\* The user has read what is about to scroll off.  Unless a page was shown since the last
\* input, what has not been read is above the lines that scroll or so far below their top
\* that the count of lines scrolled makes the prompt come first.
InView(s, row) ==
    \/ LineOf(s, row) < s.NonScrollingRows
    \/ LineOf(s, row) >= NUM_ROWS + 1 - s.ScrollsWithoutInput

\* Nothing was lost; and unless a page was shown, the lines counted are fewer than
\* scroll.
Page(s) ==
    /\ ~s.lost
    /\ s.paged \/ /\ s.ScrollsWithoutInput \in 2..(NUM_ROWS - s.NonScrollingRows)
                  /\ \A row \in s.unread : InView(s, row)

\* When the screen scrolls each row is a line higher.
LEMMA LineAfterScroll ==
    ASSUME NEW s \in Screens, NEW c \in Screens, c.TopLine = (s.TopLine + 1) % NUM_ROWS,
           NEW row \in Rows, LineOf(s, row) >= 1
    PROVE  LineOf(c, row) = LineOf(s, row) - 1
<1>1. /\ s.TopLine \in Rows /\ c.TopLine \in Rows /\ NUM_ROWS \in Nat /\ NUM_ROWS >= 3
      /\ 1 \in Rows
  BY ScreenFields, SizeFacts DEF Rows
<1>2. c.TopLine = IF s.TopLine + 1 >= NUM_ROWS THEN s.TopLine + 1 - NUM_ROWS ELSE s.TopLine + 1
  BY <1>1, LineFacts DEF RowOf
<1>3. /\ LineOf(s, row) = IF row - s.TopLine < 0 THEN row - s.TopLine + NUM_ROWS
                          ELSE row - s.TopLine
      /\ LineOf(c, row) = IF row - c.TopLine < 0 THEN row - c.TopLine + NUM_ROWS
                          ELSE row - c.TopLine
  BY LineFacts
<1> QED
  BY <1>1, <1>2, <1>3 DEF Rows

\* A step to the next row, with its scroll and the prompt in time.
LEMMA PageStepsDown ==
    ASSUME NEW s \in Screens, s.ScrollsWithoutInput \in 0..NUM_ROWS,
           s.NonScrollingRows <= NUM_ROWS - 2, Page(s)
    PROVE  Page(ConditionalScroll(s))
<1> DEFINE c == ConditionalScroll(s)
           nsr == s.NonScrollingRows
           swi == s.ScrollsWithoutInput
<1>1. StepsDown(s, c) /\ KeepsRows(s, c) /\ KeepsUnread(s, c)
  BY StepDown
<1> HIDE DEF c
<1>2. /\ c \in Screens /\ c.NonScrollingRows = nsr
      /\ nsr \in Rows /\ nsr \in Nat /\ swi \in Nat /\ NUM_ROWS \in Nat /\ NUM_ROWS >= 3
      /\ s.paged \in BOOLEAN /\ s.unread \in SUBSET Rows /\ c.unread \in SUBSET Rows
      /\ s.lost \in BOOLEAN /\ c.lost \in BOOLEAN
  BY <1>1, ScreenFields, SizeFacts DEF StepsDown, AtRest, Rows
<1> HIDE DEF nsr, swi
<1>3. ~c.lost
  <2> SUFFICES ASSUME c.lost PROVE FALSE
    OBVIOUS
  <2>1. ~s.paged /\ RowOf(s, nsr) \in s.unread
    BY <1>1 DEF KeepsUnread, Page, nsr
  <2>2. LineOf(s, RowOf(s, nsr)) = nsr
    BY <1>2, LineFacts
  <2>3. nsr >= NUM_ROWS + 1 - swi /\ swi <= NUM_ROWS - nsr /\ swi >= 2
    BY <1>2, <2>1, <2>2 DEF Page, InView, nsr, swi
  <2> QED
    BY <1>2, <2>3
<1>4. CASE c.paged
  BY <1>3, <1>4 DEF Page, c
<1>5. CASE ~c.paged
  <2> DEFINE n == c.ScrollsWithoutInput
  <2>1. /\ ~s.paged /\ n = Counted(s) /\ Counted(s) <= NUM_ROWS - nsr
        /\ \A r \in c.unread :
              /\ r \in s.unread /\ r # NextRow(s)
              /\ Scrolling(s) => LineOf(s, r) \in (nsr + 1)..(NUM_ROWS - 1)
    BY <1>1, <1>2, <1>5 DEF KeepsUnread, nsr
  <2>2. swi >= 2 /\ \A r \in s.unread : InView(s, r)
    BY <1>2, <2>1 DEF Page, swi
  <2>3. n \in 2..(NUM_ROWS - nsr) /\ n = IF Scrolling(s) THEN swi + 1 ELSE swi
    BY <1>2, <2>1, <2>2 DEF Counted, swi
  <2> HIDE DEF n
  <2>4. ASSUME NEW r \in c.unread PROVE InView(c, r)
    <3>1. InView(s, r) /\ r \in Rows
      BY <1>2, <2>1, <2>2
    <3>2. LineOf(s, r) \in Rows /\ LineOf(c, r) \in Rows
      BY <1>2, <3>1, LineFacts
    <3>3. CASE Scrolling(s)
      <4>1. LineOf(s, r) \in (nsr + 1)..(NUM_ROWS - 1)
        BY <2>1, <3>3
      <4>2. LineOf(c, r) = LineOf(s, r) - 1
        BY <1>1, <1>2, <3>1, <3>3, <4>1, LineAfterScroll DEF KeepsRows
      <4> QED
        BY <1>2, <2>3, <3>1, <3>2, <3>3, <4>1, <4>2 DEF InView, n, nsr, swi, Rows
    <3>4. CASE ~Scrolling(s)
      <4>1. c.TopLine = s.TopLine
        BY <1>1, <3>4 DEF KeepsRows
      <4> QED
        BY <1>2, <2>3, <3>1, <3>4, <4>1 DEF InView, LineOf, n, nsr, swi
    <3> QED
      BY <3>3, <3>4
  <2> QED
    BY <1>2, <1>3, <2>3, <2>4 DEF Page, n, c
<1> QED
  BY <1>2, <1>4, <1>5

\* A character may go to rows that are in view.
LEMMA PageIsPut ==
    ASSUME NEW s \in Screens, Page(s), NEW char, NEW w, Puts(s, w, char),
           s.paged \/ \A row \in Touched(s, char) : InView(s, row)
    PROVE  Page(w)
<1>1. \A row : InView(s, row) <=> InView(w, row)
  BY DEF InView, LineOf, Puts
<1>2. \A row \in w.unread : row \in s.unread \/ row \in Touched(s, char)
  BY DEF Puts
<1> QED
  BY <1>1, <1>2 DEF Page, Puts

\* So does a character that is printed there.
LEMMA PagePrints ==
    ASSUME NEW s, AtRest(s), Page(s), s.NonScrollingRows <= NUM_ROWS - 2,
           NEW char \in Chars,
           s.paged \/ \A row \in Touched(s, char) : InView(s, row)
    PROVE  Page(ScreenPrintChar(s, char))
<1>1. PICK w : /\ Puts(s, w, char)
               /\ \/ ScreenPrintChar(s, char) = w /\ Stays(s, w, char)
                  \/ ScreenPrintChar(s, char) = ConditionalScroll(w) /\ GoesDown(s, w, char)
  BY PrintSplits
<1>2. s \in Screens
  BY DEF AtRest
<1>3. Page(w)
  BY <1>1, <1>2, PageIsPut
<1>4. w \in Screens /\ w.ScrollsWithoutInput \in 0..NUM_ROWS /\ w.NonScrollingRows <= NUM_ROWS - 2
  BY <1>1 DEF Puts, AtRest
<1>5. Page(ConditionalScroll(w))
  BY <1>3, <1>4, PageStepsDown
<1> QED
  BY <1>1, <1>3, <1>5

\* Spaces and newlines may be printed anywhere.
LEMMA PageBlank ==
    ASSUME NEW s, AtRest(s), Page(s), s.NonScrollingRows <= NUM_ROWS - 2,
           NEW char \in Chars, char \in Blank
    PROVE  Page(ScreenPrintChar(s, char))
<1>1. Touched(s, char) = {}
  BY DEF Touched
<1> QED
  BY <1>1, PagePrints

\* Only the rows and the cursor change.
SamePage(s, t) ==
    /\ t.TopLine = s.TopLine /\ t.NonScrollingRows = s.NonScrollingRows
    /\ t.ScrollsWithoutInput = s.ScrollsWithoutInput
    /\ t.unread = s.unread /\ t.paged = s.paged /\ t.lost = s.lost

\* The page does not depend on the text.
LEMMA SamePageKeeps ==
    ASSUME NEW s, NEW t, SamePage(s, t), Page(s)
    PROVE  Page(t)
<1>1. \A row : InView(s, row) <=> InView(t, row)
  BY DEF InView, LineOf, SamePage
<1> QED
  BY <1>1 DEF Page, SamePage

\* The page of the windows.
ShowsPage(w) == w.screen.NonScrollingRows <= NUM_ROWS - 2 /\ Page(w.screen)

\* The cursor is set.
LEMMA SetCursorPage ==
    ASSUME NEW s \in Resting, NEW x \in Cols, NEW y \in 0..NUM_ROWS
    PROVE  SamePage(s, SetCursorPosition(s, x, y)) /\ ~SetCursorPosition(s, x, y).bWordwrap
BY SetCursorFacts DEF SamePage

\* The cursor is set in a window.
LEMMA ioSetCursorPage ==
    ASSUME NEW w \in Windowed, ShowsPage(w), NEW x \in Cols, NEW y \in Int,
           y + w.windowStart[w.curWindow] \in 0..NUM_ROWS
    PROVE  LET v == ioSetCursor(w, x, y) IN ShowsPage(v) /\ ~v.screen.bWordwrap
<1> DEFINE v == ioSetCursor(w, x, y)
           t == SetCursorPosition(w.screen, x, y + w.windowStart[w.curWindow])
<1>1. OnlyScreen(w, v) /\ v.screen = t
  BY ioSetCursorKeeps
<1>2. w.screen \in Resting
  BY WindowFields
<1>3. SamePage(w.screen, t) /\ ~t.bWordwrap
  BY <1>2, SetCursorPage
<1> HIDE DEF v, t
<1>4. Page(t)
  BY <1>3, SamePageKeeps DEF ShowsPage
<1> QED
  BY <1>1, <1>3, <1>4 DEF ShowsPage, OnlyScreen, v

\* Spaces are printed.
LEMMA SpacesPage ==
    ASSUME NEW w \in Windowed, ShowsPage(w), NEW n \in Nat
    PROVE  ShowsPage(PrintSpaces(w, n))
<1> DEFINE seq == [i \in 1..n |-> Space]
           S == {v \in Windowed : ShowsPage(v)}
<1>1. DOMAIN seq = 1..n /\ \A i \in 1..n : seq[i] = Space
  OBVIOUS
<1>2. Space \in Chars /\ Space \in Blank
  BY Zenon DEF Chars, Blank
<1>3. w \in S
  OBVIOUS
<1>4. ASSUME NEW v \in S, NEW i \in 1..n PROVE ioPrintChar(v, seq[i]) \in S
  <2> DEFINE u == ioPrintChar(v, Space)
  <2>1. v \in Windowed /\ ShowsPage(v) /\ seq[i] = Space
    BY <1>1
  <2>2. OnlyScreen(v, u) /\ u.screen = ScreenPrintChar(v.screen, Space)
    BY <1>2, <2>1, ioPrintCharKeeps
  <2>3. AtRest(v.screen)
    BY <2>1, WindowFields
  <2> HIDE DEF u
  <2>4. Page(u.screen)
    BY <1>2, <2>1, <2>2, <2>3, PageBlank DEF ShowsPage
  <2>5. u \in S
    BY <2>1, <2>2, <2>4 DEF ShowsPage, OnlyScreen
  <2> QED
    BY <2>1, <2>5 DEF u
<1>5. PrintSpaces(w, n) = Writing!Folded(w, seq)
  BY FoldsAgree, Zenon DEF PrintSpaces
<1> HIDE DEF S, seq
<1>6. Writing!Folded(w, seq) \in S
  BY <1>1, <1>3, <1>4, Writing!FoldKeeps
<1> QED
  BY <1>5, <1>6 DEF S

\* The cursor goes back.
LEMMA RestoreCursorPage ==
    ASSUME NEW w \in Windowed, ShowsPage(w),
           w.cursorY[w.curWindow] + w.windowStart[w.curWindow] \in Rows
    PROVE  ShowsPage(RestoreCursor(w)) /\ ~RestoreCursor(w).screen.bWordwrap
<1> DEFINE x == w.cursorX[w.curWindow]
           y == w.cursorY[w.curWindow]
<1>1. /\ w.cursorX \in [WindowNums -> Cols] /\ w.cursorY \in [WindowNums -> Int]
      /\ w.curWindow \in WindowNums
  BY WindowFields
<1>2. x \in Cols /\ y \in Int
  BY <1>1
<1>3. RestoreCursor(w) = ioSetCursor(w, x, y)
  BY DEF RestoreCursor
<1>4. y + w.windowStart[w.curWindow] \in 0..NUM_ROWS
  BY SizeFacts DEF Rows
<1> HIDE DEF x, y
<1> QED
  BY <1>2, <1>3, <1>4, ioSetCursorPage

\* A line is erased.
LEMMA EraseLinePage ==
    ASSUME NEW w \in Windowed, ShowsPage(w), NEW line \in Int,
           line + w.windowStart[w.curWindow] \in 0..NUM_ROWS
    PROVE  ShowsPage(EraseLine(w, line))
<1> DEFINE v == ioSetCursor(w, 0, line)
<1>1. 0 \in Cols /\ NUM_COLS \in Nat
  BY SizeFacts DEF Cols
<1>2. OnlyScreen(w, v) /\ ShowsPage(v)
  BY <1>1, ioSetCursorKeeps, ioSetCursorPage
<1>3. EraseLine(w, line) = PrintSpaces(v, NUM_COLS)
  BY DEF EraseLine
<1> HIDE DEF v
<1> QED
  BY <1>1, <1>2, <1>3, SpacesPage DEF OnlyScreen

\* A window is erased.
LEMMA ioEraseWindowPage ==
    ASSUME NEW w \in Windowed, ShowsPage(w), NEW windowNum \in WindowNums,
           \A line \in LinesOf(w, windowNum) :
              line + w.windowStart[w.curWindow] \in 0..NUM_ROWS
    PROVE  LET v == ioEraseWindow(w, windowNum) IN
           /\ ShowsPage(v) /\ ~v.screen.bWordwrap
           /\ v.screen.CursorCol = w.screen.CursorCol
<1> DEFINE n == Cardinality(LinesOf(w, windowNum))
           seq == [i \in 1..n |-> w.windowStart[windowNum] + i - 1]
           saved == SaveCursor(w)
           S == {v \in Windowed : OnlyScreen(saved, v) /\ ShowsPage(v)}
           blank == FoldLeft(EraseLine, saved, seq)
<1>1. n \in Nat /\ DOMAIN seq = 1..n /\ \A i \in 1..n : seq[i] \in LinesOf(w, windowNum)
  BY LinesOfFacts
<1>2. LinesOf(w, windowNum) \subseteq Int
  BY LinesOfFacts DEF Rows
<1>3. ioEraseWindow(w, windowNum) = RestoreCursor(blank)
  BY DEF ioEraseWindow
<1>4. SavesCursor(w, saved)
  BY SaveCursorSaves
<1>5. blank = Blanking!Folded(saved, seq)
  BY FoldsAgree, Zenon
<1> HIDE DEF n, seq, saved, blank
<1>6. saved \in S
  BY <1>4 DEF SavesCursor, OnlyScreen, ShowsPage
<1>7. ASSUME NEW v \in S, NEW i \in 1..n PROVE EraseLine(v, seq[i]) \in S
  <2>1. v \in Windowed /\ OnlyScreen(saved, v) /\ ShowsPage(v) /\ seq[i] \in LinesOf(w, windowNum)
    BY <1>1
  <2>2. seq[i] \in Int /\ seq[i] + v.windowStart[v.curWindow] \in 0..NUM_ROWS
    BY <1>2, <1>4, <2>1 DEF OnlyScreen, SavesCursor
  <2>3. OnlyScreen(v, EraseLine(v, seq[i])) /\ ShowsPage(EraseLine(v, seq[i]))
    BY <2>1, <2>2, EraseLineKeeps, EraseLinePage
  <2> QED
    BY <2>1, <2>3 DEF OnlyScreen
<1> HIDE DEF S
<1>8. Blanking!Folded(saved, seq) \in S
  BY <1>1, <1>6, <1>7, Blanking!FoldKeeps
<1>9. blank \in Windowed /\ OnlyScreen(saved, blank) /\ ShowsPage(blank)
  BY <1>5, <1>8 DEF S
<1>10. blank.cursorY[blank.curWindow] + blank.windowStart[blank.curWindow] \in Rows
  <2>1. blank.cursorY[blank.curWindow] + blank.windowStart[blank.curWindow]
            = CursorLine(w.screen)
    BY <1>4, <1>9 DEF OnlyScreen, SavesCursor
  <2> QED
    BY <2>1, WindowFields
<1>11. RestoreCursor(blank).screen.CursorCol = w.screen.CursorCol
  <2> DEFINE x == blank.cursorX[blank.curWindow]
             y == blank.cursorY[blank.curWindow] + blank.windowStart[blank.curWindow]
  <2>1. x \in Cols /\ x = w.screen.CursorCol /\ blank.screen \in Resting
    BY <1>4, <1>9, WindowFields DEF OnlyScreen, SavesCursor
  <2>2. y \in 0..NUM_ROWS
    BY <1>10, SizeFacts DEF Rows
  <2>3. RestoreCursor(blank).screen = SetCursorPosition(blank.screen, x, y)
    BY <1>9, <1>10, RestoreCursorKeeps
  <2> HIDE DEF x, y
  <2> QED
    BY <2>1, <2>2, <2>3, SetCursorFacts
<1> QED
  BY <1>3, <1>9, <1>10, <1>11, RestoreCursorPage

\* The rest of a line is erased.
LEMMA ioEraseToEndOfLinePage ==
    ASSUME NEW w, Placed(w), ShowsPage(w)
    PROVE  LET v == ioEraseToEndOfLine(w) IN ShowsPage(v) /\ ~v.screen.bWordwrap
<1> DEFINE saved == SaveCursor(w)
           p == PrintSpaces(saved, NUM_COLS - saved.cursorX[saved.curWindow])
<1>1. w \in Windowed /\ w.curWindow \in WindowNums
  BY WindowFields DEF Placed
<1>2. SavesCursor(w, saved)
  BY <1>1, SaveCursorSaves
<1>3. ioEraseToEndOfLine(w) = RestoreCursor(p)
  BY DEF ioEraseToEndOfLine
<1> HIDE DEF saved
<1>4. saved \in Windowed /\ saved.curWindow = w.curWindow /\ saved.screen = w.screen
  BY <1>2 DEF SavesCursor
<1>5. NUM_COLS - saved.cursorX[saved.curWindow] \in Nat
  BY <1>1, <1>4, WindowFields, SizeFacts DEF Cols
<1>6. Writes(saved, p) /\ ShowsPage(p)
  BY <1>4, <1>5, SpacesKeep, SpacesPage DEF ShowsPage
<1> HIDE DEF p
<1>7. OnlyScreen(saved, p)
  BY <1>6 DEF Writes
<1>8. p.cursorY[p.curWindow] + p.windowStart[p.curWindow] \in Rows
  <2>1. p.cursorY[p.curWindow] + p.windowStart[p.curWindow] = CursorLine(w.screen)
    BY <1>2, <1>4, <1>7 DEF SavesCursor, OnlyScreen
  <2> QED
    BY <1>1, <2>1, WindowFields
<1> QED
  BY <1>3, <1>6, <1>7, <1>8, RestoreCursorPage DEF OnlyScreen

\* The last word may be wrapped to a line only where the line before it is in view.
Wrapped(w) ==
    w.screen.bWordwrap => IF w.curWindow = 0
                          THEN w.screen.paged \/ w.screen.ScrollsWithoutInput >= 3
                          ELSE CursorLine(w.screen) > 0

\* The inductive invariant of the page.
InPage(w) == ShowsPage(w) /\ Wrapped(w)

\* The invariant holds of what a step becomes.
LEMMA BecomePage ==
    ASSUME NEW v, Become(v), InPage(v) PROVE InPage(Now)'
<1>1. (Now').screen = v.screen /\ (Now').curWindow = v.curWindow
  BY DEF Become, Now
<1>2. InPage(Now')
  BY <1>1 DEF InPage, ShowsPage, Wrapped
<1> QED
  BY <1>2

\* The row before the cursor's is the line above, but for the first line.
LEMMA RowBeforeLine ==
    ASSUME NEW s \in Screens, CursorLine(s) > 0
    PROVE  LineOf(s, RowBefore(s)) = CursorLine(s) - 1
<1>1. /\ s.TopLine \in Rows /\ s.CursorRow \in Rows /\ RowBefore(s) \in Rows
      /\ NUM_ROWS \in Nat /\ NUM_ROWS >= 3
  BY ScreenFields, SizeFacts, RowBeforeIn
<1>2. RowBefore(s) = IF s.CursorRow = 0 THEN NUM_ROWS - 1 ELSE s.CursorRow - 1
  BY <1>1, RingFacts DEF RowBefore
<1>3. /\ CursorLine(s) = IF s.CursorRow - s.TopLine < 0 THEN s.CursorRow - s.TopLine + NUM_ROWS
                         ELSE s.CursorRow - s.TopLine
      /\ LineOf(s, RowBefore(s))
            = IF RowBefore(s) - s.TopLine < 0 THEN RowBefore(s) - s.TopLine + NUM_ROWS
              ELSE RowBefore(s) - s.TopLine
  BY <1>1, LineFacts DEF CursorLine
<1> QED
  BY <1>1, <1>2, <1>3 DEF Rows

\* In the last line.
LEMMA PageBelow ==
    ASSUME NEW s, AtRest(s), Page(s), AtBottom(s), s.NonScrollingRows <= NUM_ROWS - 2,
           s.bWordwrap => s.paged \/ s.ScrollsWithoutInput >= 3, NEW char \in Chars
    PROVE  LET r == ScreenPrintChar(s, char) IN
           /\ Page(r)
           /\ r.bWordwrap => r.paged \/ r.ScrollsWithoutInput >= 3
<1> DEFINE r == ScreenPrintChar(s, char)
           swi == s.ScrollsWithoutInput
<1>1. PICK w : /\ Puts(s, w, char)
               /\ \/ r = w /\ Stays(s, w, char)
                  \/ r = ConditionalScroll(w) /\ GoesDown(s, w, char)
  BY PrintSplits
<1>2. /\ s \in Screens /\ s.CursorRow \in Rows /\ swi \in 0..NUM_ROWS /\ NUM_ROWS \in Nat
      /\ NUM_ROWS >= 3 /\ s.bWordwrap \in BOOLEAN /\ s.paged \in BOOLEAN
      /\ s.NonScrollingRows \in Rows
  BY ScreenFields, SizeFacts DEF AtRest
<1>3. CursorLine(s) = NUM_ROWS - 1
  BY <1>2, BottomLine
<1>4. s.paged \/ \A row \in Touched(s, char) : InView(s, row)
  <2> SUFFICES ASSUME ~s.paged, NEW row \in Touched(s, char) PROVE InView(s, row)
    OBVIOUS
  <2>1. swi >= 2
    BY <1>2 DEF Page, Rows
  <2>2. CASE row = s.CursorRow
    BY <1>2, <1>3, <2>1, <2>2 DEF InView, CursorLine
  <2>3. CASE s.bWordwrap /\ row = RowBefore(s)
    <3>1. LineOf(s, row) = NUM_ROWS - 2
      BY <1>2, <1>3, <2>3, RowBeforeLine
    <3> QED
      BY <1>2, <2>3, <3>1 DEF InView
  <2> QED
    BY <2>2, <2>3 DEF Touched
<1>5. Page(r)
  BY <1>4, PagePrints
<1> HIDE DEF r
<1>6. ASSUME r.bWordwrap, ~r.paged PROVE r.ScrollsWithoutInput >= 3
  <2>1. r = ConditionalScroll(w)
    BY <1>1, <1>6 DEF Stays
  <2>2. /\ w \in Screens /\ w.ScrollsWithoutInput = swi /\ w.TopLine = s.TopLine
        /\ w.CursorRow = s.CursorRow /\ w.paged = s.paged
    BY <1>1 DEF Puts
  <2>3. StepsDown(w, r) /\ KeepsUnread(w, r)
    BY <1>2, <2>1, <2>2, StepDown
  <2>4. AtBottom(w)
    BY <2>2 DEF AtBottom, RowOf
  <2>5. Scrolling(w)
    BY <2>2, <2>4, BottomScrolls
  <2>6. ~s.paged /\ r.ScrollsWithoutInput = swi + 1
    BY <1>6, <2>2, <2>3, <2>5 DEF KeepsUnread, Counted
  <2>7. swi >= 2
    BY <1>2, <2>6 DEF Page, Rows
  <2> QED
    BY <1>2, <2>6, <2>7
<1>7. r \in Screens
  BY <1>2, PrintRests DEF AtRest, r
<1>8. r.paged \in BOOLEAN
  BY <1>7, ScreenFields
<1> QED
  BY <1>5, <1>6, <1>8 DEF r

\* In the lines that do not scroll.
LEMMA PageAbove ==
    ASSUME NEW s, AtRest(s), Page(s), s.NonScrollingRows <= NUM_ROWS - 2,
           CursorLine(s) < s.NonScrollingRows, s.bWordwrap => CursorLine(s) > 0,
           NEW char \in Letters
    PROVE  LET r == ScreenPrintChar(s, char) IN
           /\ Page(r)
           /\ r.bWordwrap => CursorLine(r) > 0
           /\ s.CursorCol < NUM_COLS - 1
                 => CursorLine(r) = CursorLine(s) /\ ~r.bWordwrap
<1> DEFINE r == ScreenPrintChar(s, char)
<1>0. char \in Chars
  BY Zenon DEF Letters
<1>1. PICK w : /\ Puts(s, w, char)
               /\ \/ r = w /\ Stays(s, w, char)
                  \/ r = ConditionalScroll(w) /\ GoesDown(s, w, char)
  BY <1>0, PrintSplits
<1>2. /\ s \in Screens /\ s.CursorRow \in Rows /\ CursorLine(s) \in Rows
      /\ NUM_ROWS \in Nat /\ NUM_ROWS >= 3 /\ s.bWordwrap \in BOOLEAN
      /\ s.NonScrollingRows \in Rows /\ s.ScrollsWithoutInput \in 0..NUM_ROWS
      /\ NUM_COLS \in Nat /\ s.CursorCol \in Cols
  BY ScreenFields, LineFacts, SizeFacts DEF AtRest, CursorLine
<1>3. ASSUME NEW row \in Touched(s, char) PROVE InView(s, row)
  <2>1. CASE row = s.CursorRow
    BY <2>1 DEF InView, CursorLine
  <2>2. CASE s.bWordwrap /\ row = RowBefore(s)
    <3>1. LineOf(s, row) = CursorLine(s) - 1
      BY <1>2, <2>2, RowBeforeLine
    <3> QED
      BY <1>2, <3>1 DEF InView, Rows
  <2> QED
    BY <2>1, <2>2 DEF Touched
<1>4. Page(r)
  BY <1>0, <1>3, PagePrints
<1> HIDE DEF r
<1>5. w \in Screens /\ CursorLine(w) = CursorLine(s) /\ w.ScrollsWithoutInput \in 0..NUM_ROWS
  BY <1>1, <1>2 DEF Puts, CursorLine, LineOf
<1>6. CASE r = w /\ Stays(s, w, char)
  BY <1>4, <1>5, <1>6 DEF Stays, r
<1>7. CASE r = ConditionalScroll(w) /\ GoesDown(s, w, char)
  <2>1. ~Scrolling(w)
    BY <1>2, <1>5, BottomScrolls, BottomLine DEF Rows
  <2>2. StepsDown(w, r) /\ KeepsRows(w, r)
    BY <1>5, <1>7, StepDown
  <2>3. CursorLine(r) = CursorLine(w) + 1
    BY <1>5, <2>1, <2>2, NextLine DEF StepsDown, KeepsRows, AtRest
  <2>4. CursorLine(r) > 0
    BY <1>2, <1>5, <2>3 DEF Rows
  <2>5. s.CursorCol = NUM_COLS - 1
    <3>1. char # "\n"
      BY Zenon DEF Letters
    <3> QED
      BY <1>7, <3>1, Zenon DEF GoesDown
  <2> QED
    BY <1>2, <1>4, <2>4, <2>5 DEF r
<1> QED
  BY <1>1, <1>6, <1>7

--------------------------------------------------------------------------------
(***************************************************************************)
(* The instructions, on a page.                                            *)
(***************************************************************************)
\* printText in window 0.
LEMMA PrintTextBelow ==
    ASSUME NEW w, Placed(w), InPage(w), w.curWindow = 0,
           NEW text \in Seq(Chars)
    PROVE  InPage(FoldLeft(ioPrintChar, w, text))
<1> DEFINE n == Len(text)
           S == {v \in Windowed : OnlyScreen(w, v) /\ AtBottom(v.screen) /\ InPage(v)}
<1>1. w \in Windowed /\ w.screen \in Screens
  BY WindowFields DEF Placed
<1>2. n \in Nat /\ DOMAIN text = 1..n /\ \A i \in 1..n : text[i] \in Chars
  OBVIOUS
<1>3. w \in S
  BY <1>1, BottomLine DEF OnlyScreen, Placed
<1>4. ASSUME NEW v \in S, NEW i \in 1..n PROVE ioPrintChar(v, text[i]) \in S
  <2> DEFINE u == ioPrintChar(v, text[i])
             s == v.screen
  <2>1. v \in Windowed /\ OnlyScreen(w, v) /\ AtBottom(s) /\ InPage(v) /\ text[i] \in Chars
    BY <1>2
  <2>2. AtRest(s) /\ s \in Screens
    BY <2>1, WindowFields
  <2>3. OnlyScreen(v, u) /\ u.screen = ScreenPrintChar(s, text[i])
    BY <2>1, ioPrintCharKeeps
  <2> HIDE DEF u
  <2>4. v.curWindow = 0 /\ u.curWindow = 0 /\ OnlyScreen(w, u)
    BY <2>1, <2>3 DEF OnlyScreen
  <2>5. /\ Page(s) /\ s.NonScrollingRows <= NUM_ROWS - 2
        /\ s.bWordwrap => s.paged \/ s.ScrollsWithoutInput >= 3
    BY <2>1, <2>4 DEF InPage, ShowsPage, Wrapped
  <2>6. /\ Page(u.screen)
        /\ u.screen.bWordwrap => u.screen.paged \/ u.screen.ScrollsWithoutInput >= 3
    BY <2>1, <2>2, <2>3, <2>5, PageBelow
  <2>7. AtBottom(u.screen)
    <3>1. s.NonScrollingRows \in 0..(NUM_ROWS - 2)
      BY <2>2, <2>5, ScreenFields, SizeFacts DEF Rows
    <3> QED
      BY <2>1, <2>2, <2>3, <3>1, PrintKeepsAbove
  <2>8. u.screen.NonScrollingRows <= NUM_ROWS - 2
    BY <2>3, <2>5 DEF OnlyScreen
  <2>9. u \in S
    BY <2>4, <2>6, <2>7, <2>8 DEF InPage, ShowsPage, Wrapped, OnlyScreen
  <2> QED
    BY <2>9 DEF u
<1>5. FoldLeft(ioPrintChar, w, text) = Writing!Folded(w, text)
  BY FoldsAgree, Zenon
<1> HIDE DEF S, n
<1>6. Writing!Folded(w, text) \in S
  BY <1>2, <1>3, <1>4, Writing!FoldKeeps
<1> QED
  BY <1>5, <1>6 DEF S

\* printText in window 1, of a word that fits into the line.
LEMMA PrintTextAbove ==
    ASSUME NEW w, Placed(w), InPage(w), w.curWindow = 1,
           CursorLine(w.screen) \in LinesOf(w, 1),
           NEW text, NEW n \in 1..2, DOMAIN text = 1..n,
           \A i \in 1..n : text[i] \in Letters,
           w.screen.CursorCol + n <= NUM_COLS
    PROVE  InPage(FoldLeft(ioPrintChar, w, text))
<1> DEFINE above(v) == v.screen.bWordwrap => CursorLine(v.screen) > 0
           line == CursorLine(w.screen)
           At(k) == {v \in Windowed : /\ OnlyScreen(w, v) /\ ShowsPage(v) /\ above(v)
                                      /\ k = 0 => v.screen = w.screen
                                      /\ k = 1 /\ n = 2 => CursorLine(v.screen) = line}
           S == [k \in 0..n |-> At(k)]
<1>10. \A k \in 0..(n - 1) :
         k \in 0..1 /\ k \in 0..n /\ k + 1 \in 0..n /\ k + 1 # 0 /\ k + 1 \in 1..n
           /\ (k = 1 => n = 2)
  OBVIOUS
<1>1. w \in Windowed /\ w.screen \in Screens /\ line \in Rows
  BY WindowFields DEF Placed
<1>2. line < w.screen.NonScrollingRows
  <2>1. LinesOf(w, 1) = w.windowStart[1]..(w.windowStart[0] - 1)
    BY DEF LinesOf
  <2>2. /\ w.windowStart \in [WindowNums -> Rows] /\ 0 \in WindowNums /\ 1 \in WindowNums
        /\ w.windowStart[0] <= w.screen.NonScrollingRows
        /\ w.screen.NonScrollingRows \in Rows
    BY <1>1, WindowFields, ScreenFields DEF Placed, WindowNums
  <2> QED
    BY <2>1, <2>2, SizeFacts DEF Rows
<1>3. w \in S[0]
  BY <1>1 DEF OnlyScreen, InPage, Wrapped
<1>4. ASSUME NEW k \in 0..(n - 1), NEW v \in S[k]
      PROVE  ioPrintChar(v, text[k + 1]) \in S[k + 1]
  <2> DEFINE char == text[k + 1]
             u == ioPrintChar(v, char)
             s == v.screen
  <2>1. /\ v \in Windowed /\ OnlyScreen(w, v) /\ ShowsPage(v) /\ above(v)
        /\ k = 0 => s = w.screen
        /\ k = 1 => CursorLine(s) = line
        /\ char \in Letters /\ char \in Chars /\ k \in 0..1 /\ k + 1 \in 0..n /\ k + 1 # 0
    <3>1. \A c \in Letters : c \in Chars
      BY Zenon DEF Letters
    <3>2. k \in 0..1 /\ k \in 0..n /\ k + 1 \in 0..n /\ k + 1 # 0 /\ k + 1 \in 1..n
          /\ (k = 1 => n = 2)
      BY <1>10
    <3>3. v \in At(k)
      BY <3>2
    <3>4. /\ v \in Windowed /\ OnlyScreen(w, v) /\ ShowsPage(v) /\ above(v)
          /\ k = 0 => s = w.screen
          /\ k = 1 => CursorLine(s) = line
      BY <3>2, <3>3
    <3>5. char \in Letters
      BY <3>2
    <3> HIDE DEF char, above, line, At
    <3> QED
      BY <3>1, <3>2, <3>4, <3>5
  <2>2. AtRest(s) /\ s \in Screens
    BY <2>1, WindowFields
  <2>3. CursorLine(s) = line
    BY <2>1
  <2>4. OnlyScreen(v, u) /\ u.screen = ScreenPrintChar(s, char)
    BY <2>1, ioPrintCharKeeps
  <2> HIDE DEF u, char
  <2>5. /\ Page(s) /\ s.NonScrollingRows <= NUM_ROWS - 2
        /\ CursorLine(s) < s.NonScrollingRows
        /\ s.bWordwrap => CursorLine(s) > 0
    BY <1>2, <2>1, <2>3 DEF ShowsPage, OnlyScreen
  <2>6. /\ Page(u.screen)
        /\ u.screen.bWordwrap => CursorLine(u.screen) > 0
        /\ s.CursorCol < NUM_COLS - 1 => CursorLine(u.screen) = CursorLine(s)
    BY <2>1, <2>2, <2>4, <2>5, PageAbove
  <2>7. k + 1 = 1 /\ n = 2 => CursorLine(u.screen) = line
    <3> SUFFICES ASSUME k = 0, n = 2 PROVE CursorLine(u.screen) = line
      BY <2>1
    <3>1. s.CursorCol < NUM_COLS - 1
      BY <1>1, <2>1, SizeFacts, ScreenFields
    <3> QED
      BY <2>3, <2>6, <3>1
  <2>8. OnlyScreen(w, u) /\ ShowsPage(u)
    BY <2>1, <2>4, <2>5, <2>6 DEF OnlyScreen, ShowsPage
  <2>9. u \in At(k + 1)
    BY <2>1, <2>6, <2>7, <2>8 DEF OnlyScreen
  <2> QED
    BY <2>1, <2>9 DEF u, char
<1>5. FoldLeft(ioPrintChar, w, text) = Writing!Folded(w, text)
  BY FoldsAgree, Zenon
<1>6. n \in Nat /\ S[n] = At(n)
  OBVIOUS
<1> HIDE DEF S, line
<1>7. Writing!Folded(w, text) \in S[n]
  BY <1>3, <1>4, <1>6, Writing!FoldGoes
<1> DEFINE r == Writing!Folded(w, text)
<1>8. OnlyScreen(w, r) /\ ShowsPage(r) /\ above(r)
  BY <1>6, <1>7
<1> HIDE DEF r
<1>9. InPage(r)
  BY <1>8 DEF InPage, Wrapped, OnlyScreen
<1> QED
  BY <1>5, <1>9 DEF r

\* The texts that a game prints.
LEMMA Texts ==
    ASSUME NEW text \in {NextWord, <<Space>>, NewLine}
    PROVE  /\ text \in Seq(Chars) /\ Len(text) \in 1..2 /\ DOMAIN text = 1..Len(text)
           /\ text # NewLine => \A i \in 1..Len(text) : text[i] \in Letters
<1>1. /\ "a" \in Letters /\ "b" \in Letters /\ "c" \in Letters /\ "," \in Letters
      /\ Space \in Letters /\ "\n" \in Chars
  BY Zenon DEF Chars, Letters, Space
<1>2. ASSUME NEW S, NEW a \in S, NEW b \in S
      PROVE  LET t == <<a, b>> IN
             /\ t \in Seq(S) /\ Len(t) \in 1..2 /\ DOMAIN t = 1..Len(t)
             /\ \A i \in 1..Len(t) : t[i] \in S
  <2>1. <<a, b>> \in Seq(S) /\ Len(<<a, b>>) = 2 /\ DOMAIN <<a, b>> = 1..2
    OBVIOUS
  <2>2. <<a, b>>[1] = a /\ <<a, b>>[2] = b
    OBVIOUS
  <2> QED
    BY <2>1, <2>2
<1>3. ASSUME NEW S, NEW a \in S
      PROVE  LET t == <<a>> IN
             /\ t \in Seq(S) /\ Len(t) \in 1..2 /\ DOMAIN t = 1..Len(t)
             /\ \A i \in 1..Len(t) : t[i] \in S
  <2>1. <<a>> \in Seq(S) /\ Len(<<a>>) = 1 /\ DOMAIN <<a>> = 1..1
    OBVIOUS
  <2>2. <<a>>[1] = a
    OBVIOUS
  <2> QED
    BY <2>1, <2>2
<1>4. ASSUME NEW t \in Seq(Letters) PROVE t \in Seq(Chars)
  <2>1. \A c \in Letters : c \in Chars
    BY Zenon DEF Letters
  <2> QED
    BY <2>1
<1>5. CASE text = NextWord
  <2>1. text = <<"a", "b">> \/ text = <<"c", ",">>
    BY <1>5, Zenon DEF NextWord
  <2>2. CASE text = <<"a", "b">>
    BY <1>1, <1>2, <1>4, <2>2, Zenon
  <2>3. CASE text = <<"c", ",">>
    BY <1>1, <1>2, <1>4, <2>3, Zenon
  <2> QED
    BY <2>1, <2>2, <2>3, Zenon
<1>6. CASE text = <<Space>>
  BY <1>1, <1>3, <1>4, <1>6, Zenon
<1>7. CASE text = NewLine
  BY <1>1, <1>3, <1>7, Zenon DEF NewLine
<1> QED
  BY <1>5, <1>6, <1>7, Zenon

\* printText: in window 0 at the bottom, in window 1 within its lines.
LEMMA PrintTextPage ==
    ASSUME Tidy, WInv, InPage(Now), NEW text \in {NextWord, <<Space>>, NewLine},
           printText(text)
    PROVE  InPage(Now)'
<1> DEFINE v == FoldLeft(ioPrintChar, Now, text)
<1>1. Placed(Now) /\ Now.curWindow = curWindow /\ curWindow \in 0..1 /\ Now.screen = screen
  BY NowFields
<1>2. ASSUME curWindow = 0 PROVE InPage(v)
  <2>1. text \in Seq(Chars)
    BY Texts, Zenon
  <2> QED
    BY <1>1, <1>2, <2>1, PrintTextBelow
<1>3. ASSUME curWindow = 1 PROVE InPage(v)
  <2>1. /\ CursorLine(screen) \in LinesOf(Now, 1) /\ text # NewLine
        /\ screen.CursorCol + Len(text) <= NUM_COLS
    BY <1>3, Zenon DEF printText, CursorLine
  <2>2. /\ Len(text) \in 1..2 /\ DOMAIN text = 1..Len(text)
        /\ \A i \in 1..Len(text) : text[i] \in Letters
    BY <2>1, Texts, Zenon
  <2> QED
    BY <1>1, <1>3, <2>1, <2>2, PrintTextAbove
<1>4. Become(v)
  BY DEF printText
<1> HIDE DEF v
<1>5. InPage(v)
  BY <1>1, <1>2, <1>3
<1> QED
  BY <1>4, <1>5, BecomePage
\* The split begins a new page, as no line is counted (zops.c 2073-2101).
LEMMA SplitPage ==
    ASSUME NEW w, Placed(w), w.curWindow = 0, ~w.screen.lost,
           NEW line \in 0..(NUM_ROWS - 2)
    PROVE  InPage(SplitAt(w, line))
<1> DEFINE s == [w.screen EXCEPT !.NonScrollingRows = line, !.paged = TRUE]
           v == SplitAt(w, line)
<1>1. w \in Windowed /\ w.screen \in Screens
  BY WindowFields DEF Placed
<1>2. line \in Rows /\ line <= NUM_ROWS - 2
  BY SizeFacts DEF Rows
<1>3. v.screen = s /\ v.curWindow = w.curWindow
  BY <1>1 DEF SplitAt, Windowed
<1>4. s.NonScrollingRows = line /\ s.paged = TRUE /\ s.lost = w.screen.lost
  BY <1>1, <1>2 DEF Screens
<1> HIDE DEF s, v
<1>5. InPage(v)
  BY <1>2, <1>3, <1>4 DEF InPage, ShowsPage, Page, Wrapped
<1> QED
  BY <1>5 DEF v

\* No text comes when the window is changed.
LEMMA ChangePage ==
    ASSUME NEW w, NEW v, NEW windowNum, ChangesWindow(w, v, windowNum), ShowsPage(w)
    PROVE  InPage(v)
<1>1. SamePage(w.screen, v.screen) /\ ~v.screen.bWordwrap
  BY DEF ChangesWindow, SamePage
<1>2. Page(v.screen)
  BY <1>1, SamePageKeeps DEF ShowsPage
<1> QED
  BY <1>1, <1>2 DEF InPage, ShowsPage, Wrapped, SamePage

\* Spaces are no text to read.
LEMMA ErasePage ==
    ASSUME NEW w, Placed(w), ShowsPage(w), NEW windowNum \in WindowNums,
           w.windowStart[w.curWindow] = 0
    PROVE  InPage(ioEraseWindow(w, windowNum))
<1>1. w \in Windowed
  BY DEF Placed
<1>2. ASSUME NEW line \in LinesOf(w, windowNum)
      PROVE  line + w.windowStart[w.curWindow] \in 0..NUM_ROWS
  <2>1. line \in Rows
    BY <1>1, LinesOfFacts
  <2> QED
    BY <2>1, SizeFacts DEF Rows
<1> QED
  BY <1>1, <1>2, ioEraseWindowPage DEF InPage, Wrapped

\* split_window.
LEMMA SplitWindowPage ==
    ASSUME Tidy, WInv, InPage(Now), NEW numLines \in 0..MaxSplit, split_window(numLines)
    PROVE  InPage(Now)'
<1> DEFINE line == numLines + windowStart[1]
           start == windowStart[1]
<1>1. /\ Placed(Now) /\ Now.curWindow = 0 /\ Now.windowStart = windowStart
      /\ bHasStatus \in BOOLEAN /\ (bHasStatus => numLines = 0)
  BY NowFields DEF split_window
<1>2. start \in 0..1
  BY <1>1 DEF Placed
<1>3. line \in 0..(NUM_ROWS - 2) /\ start \in 0..(NUM_ROWS - 2)
  BY <1>2, SizeFacts
<1> HIDE DEF line, start
<1>4. \/ Become(SplitAt(Now, line))
      \/ Become(SplitAt(Now, start))
  BY <1>1 DEF split_window, Move, ioSplitWindow, ioUnsplitWindow, line, start
<1>5. ~Now.screen.lost
  BY DEF InPage, ShowsPage, Page
<1>6. InPage(SplitAt(Now, line)) /\ InPage(SplitAt(Now, start))
  BY <1>1, <1>3, <1>5, SplitPage
<1> QED
  BY <1>4, <1>6, BecomePage

\* set_window.
LEMMA ChangeWindowPage ==
    ASSUME WInv, InPage(Now), NEW windowNum \in 0..1, set_window(windowNum)
    PROVE  InPage(Now)'
<1> DEFINE v == ioSetWindow(Now, windowNum, windowNum = 1)
<1>1. Placed(Now) /\ windowNum \in WindowNums /\ (windowNum = 1) \in BOOLEAN
  BY NowFields DEF WindowNums
<1>2. windowNum = 1 => windowNum # 0
  OBVIOUS
<1>3. ChangesWindow(Now, v, windowNum)
  BY <1>1, <1>2, ioSetWindowPlaces
<1>4. Become(v)
  BY DEF set_window, Move
<1> HIDE DEF v
<1>5. InPage(v)
  BY <1>3, ChangePage DEF InPage
<1> QED
  BY <1>4, <1>5, BecomePage

\* erase_window.
LEMMA EraseWindowPage ==
    ASSUME Tidy, WInv, InPage(Now), NEW windowNum \in (-2)..1, erase_window(windowNum)
    PROVE  InPage(Now)'
<1> DEFINE start == windowStart[1]
           split == SplitAt(Now, start)
           all == ioEraseWindow(split, 0)
           two == FoldLeft(ioEraseWindow, Now, <<0, 1>>)
           one == ioEraseWindow(Now, windowNum)
<1>1. /\ Now \in Windowed /\ Placed(Now) /\ Now.curWindow = curWindow
      /\ Now.windowStart = windowStart /\ curWindow \in 0..1
      /\ 0 \in WindowNums /\ 1 \in WindowNums
  BY NowFields DEF WindowNums
<1>2. /\ windowStart[curWindow] = 0 /\ Now.windowStart[Now.curWindow] = 0
      /\ windowNum = -1 => curWindow = 0
  BY <1>1 DEF erase_window
<1>3. ioUnsplitWindow(Now) = split
  BY <1>1 DEF ioUnsplitWindow
<1>4. \/ windowNum = -1 /\ Become(all)
      \/ windowNum = -2 /\ Become(two)
      \/ windowNum \notin {-1, -2} /\ Become(one)
  BY <1>3 DEF erase_window, Move
<1>5. ASSUME windowNum = -1, Become(all) PROVE InPage(all)
  <2>1. start = 0
    BY <1>1, <1>2, <1>5 DEF Placed
  <2>2. start \in 0..(NUM_ROWS - 2) /\ Now.windowStart[1] <= start /\ ~Now.screen.lost
    BY <1>1, <2>1, SizeFacts DEF InPage, ShowsPage, Page
  <2> HIDE DEF start
  <2>3. /\ LeavesPlaced(Now, split) /\ split.curWindow = 0
        /\ split.windowStart[0] = start /\ InPage(split)
    BY <1>1, <1>2, <1>5, <2>2, SplitLeaves, SplitPage
  <2> HIDE DEF split
  <2>4. Placed(split) /\ split.windowStart[split.curWindow] = 0
    BY <2>1, <2>3 DEF LeavesPlaced
  <2> QED
    BY <1>1, <2>3, <2>4, ErasePage DEF InPage
<1>6. InPage(two)
  <2> DEFINE S == {v \in Windowed : Placed(v) /\ v.curWindow = curWindow
                                      /\ v.windowStart = windowStart /\ InPage(v)}
             seq == <<0, 1>>
  <2>1. Now \in S
    BY <1>1
  <2>2. DOMAIN seq = 1..2 /\ \A i \in 1..2 : seq[i] \in WindowNums
    BY DEF WindowNums
  <2>3. ASSUME NEW v \in S, NEW i \in 1..2 PROVE ioEraseWindow(v, seq[i]) \in S
    <3>1. /\ seq[i] \in WindowNums /\ Placed(v) /\ v.windowStart[v.curWindow] = 0
          /\ ShowsPage(v)
      BY <1>2, <2>2 DEF InPage
    <3>2. /\ LeavesPlaced(v, ioEraseWindow(v, seq[i]))
          /\ Erases(v, ioEraseWindow(v, seq[i])) /\ InPage(ioEraseWindow(v, seq[i]))
      BY <3>1, EraseLeaves, ErasePage
    <3> QED
      BY <3>2 DEF LeavesPlaced, Erases
  <2> HIDE DEF S, seq
  <2>4. Erasing!Folded(Now, seq) \in S
    BY <2>1, <2>2, <2>3, Erasing!FoldKeeps, Zenon
  <2>5. two \in S
    BY <2>4, FoldsAgree, Zenon DEF seq
  <2> HIDE DEF two
  <2> QED
    BY <2>5 DEF S
<1>7. ASSUME windowNum \notin {-1, -2} PROVE InPage(one)
  <2>1. windowNum \in WindowNums
    BY <1>7 DEF WindowNums
  <2> QED
    BY <1>1, <1>2, <2>1, ErasePage DEF InPage
<1> HIDE DEF all, two, one
<1> QED
  BY <1>4, <1>5, <1>6, <1>7, BecomePage

\* erase_line.
LEMMA EraseLinePageKept ==
    ASSUME WInv, InPage(Now), erase_line
    PROVE  InPage(Now)'
<1> DEFINE v == ioEraseToEndOfLine(Now)
<1>1. InPage(v)
  BY NowFields, ioEraseToEndOfLinePage DEF InPage, Wrapped
<1>2. Become(v)
  BY DEF erase_line, Move
<1> QED
  BY <1>1, <1>2, BecomePage

\* set_cursor.
LEMMA SetCursorPageKept ==
    ASSUME WInv, InPage(Now), NEW line \in 1..NUM_ROWS, NEW column \in 1..NUM_COLS,
           set_cursor(line, column)
    PROVE  InPage(Now)'
<1> DEFINE x == column - 1
           y == line - 1 - windowStart[1]
           v == ioSetCursor(Now, x, y)
<1>1. /\ Placed(Now) /\ Now \in Windowed /\ Now.curWindow = 1 /\ Now.windowStart = windowStart
  BY NowFields DEF set_cursor
<1>2. windowStart[1] \in 0..1
  BY <1>1 DEF Placed
<1>3. x \in Cols /\ y \in Int /\ y + windowStart[1] \in 0..NUM_ROWS
  BY <1>2, SizeFacts DEF Cols
<1>4. Become(v)
  BY DEF set_cursor, Move
<1> HIDE DEF x, y
<1>5. InPage(v)
  BY <1>1, <1>3, ioSetCursorPage DEF InPage, Wrapped
<1> QED
  BY <1>4, <1>5, BecomePage
\* Only in the last line does a character scroll the screen.
LEMMA PrintLosesNothing ==
    ASSUME NEW s, AtRest(s), ~s.lost, CursorLine(s) < NUM_ROWS - 1, NEW char \in Chars
    PROVE  ~ScreenPrintChar(s, char).lost
<1> DEFINE r == ScreenPrintChar(s, char)
<1>1. PICK w : /\ Puts(s, w, char)
               /\ \/ r = w /\ Stays(s, w, char)
                  \/ r = ConditionalScroll(w) /\ GoesDown(s, w, char)
  BY PrintSplits
<1> HIDE DEF r
<1>2. /\ w \in Screens /\ w.ScrollsWithoutInput \in 0..NUM_ROWS /\ ~w.lost
      /\ CursorLine(w) = CursorLine(s)
  BY <1>1 DEF Puts, AtRest, CursorLine, LineOf
<1>3. CursorLine(w) # NUM_ROWS - 1
  BY <1>2, SizeFacts
<1>4. ~Scrolling(w)
  BY <1>2, <1>3, BottomScrolls, BottomLine
<1>5. KeepsUnread(w, ConditionalScroll(w))
  BY <1>2, StepDown
<1>6. ~ConditionalScroll(w).lost
  BY <1>2, <1>4, <1>5 DEF KeepsUnread
<1> QED
  BY <1>1, <1>2, <1>6 DEF r

\* A letter goes one column along, or to the next line.
LEMMA LetterGoesOn ==
    ASSUME NEW s, AtRest(s), ~s.bWordwrap, CursorLine(s) < NUM_ROWS - 1, NEW char \in Letters
    PROVE  LET r == ScreenPrintChar(s, char) IN
           /\ s.CursorCol < NUM_COLS - 1
                 => /\ CursorLine(r) = CursorLine(s) /\ ~r.bWordwrap
                    /\ r.CursorCol = s.CursorCol + 1
           /\ s.CursorCol = NUM_COLS - 1
                 => /\ CursorLine(r) = CursorLine(s) + 1 /\ r.CursorCol = 0
           /\ r.TopLine = s.TopLine
<1> DEFINE r == ScreenPrintChar(s, char)
<1>1. char \in Chars /\ char # "\n"
  BY Zenon DEF Letters
<1>2. PICK w : /\ Puts(s, w, char)
               /\ \/ r = w /\ Stays(s, w, char)
                  \/ r = ConditionalScroll(w) /\ GoesDown(s, w, char)
  BY <1>1, PrintSplits
<1> HIDE DEF r
<1>3. /\ w \in Screens /\ w.ScrollsWithoutInput \in 0..NUM_ROWS /\ w.TopLine = s.TopLine
      /\ CursorLine(w) = CursorLine(s)
  BY <1>2 DEF Puts, AtRest, CursorLine, LineOf
<1>4. CursorLine(w) # NUM_ROWS - 1
  BY <1>3, SizeFacts
<1>5. ~Scrolling(w)
  BY <1>3, <1>4, BottomScrolls, BottomLine
<1>6. s.CursorCol \in 0..(NUM_COLS - 1) /\ NUM_COLS \in Nat
  BY SizeFacts DEF AtRest, Cols
<1>7. CASE r = w /\ Stays(s, w, char)
  <2>1. AtRest(w) /\ ~w.bWordwrap /\ w.CursorCol = s.CursorCol + 1
    BY <1>7, Zenon DEF Stays
  <2>2. w.CursorCol \in 0..(NUM_COLS - 1)
    BY <2>1 DEF AtRest, Cols
  <2> QED
    BY <1>3, <1>6, <1>7, <2>1, <2>2 DEF r
<1>8. CASE r = ConditionalScroll(w) /\ GoesDown(s, w, char)
  <2>1. s.CursorCol = NUM_COLS - 1
    BY <1>1, <1>8, Zenon DEF GoesDown
  <2>2. StepsDown(w, r) /\ KeepsRows(w, r)
    BY <1>3, <1>8, StepDown
  <2>3. /\ r \in Screens /\ r.CursorRow = NextRow(w) /\ r.TopLine = w.TopLine
        /\ r.CursorCol = 0
    BY <1>5, <2>2 DEF StepsDown, KeepsRows, AtRest
  <2>4. CursorLine(r) = CursorLine(w) + 1
    BY <1>3, <1>5, <2>3, NextLine
  <2> QED
    BY <1>3, <1>6, <2>1, <2>3, <2>4 DEF r
<1> QED
  BY <1>2, <1>7, <1>8

\* The status line is so short that it does not scroll the screen.
LEMMA StatusLosesNothing ==
    ASSUME NEW w \in Windowed, ~w.screen.lost, ~w.screen.bWordwrap,
           CursorLine(w.screen) = 0, w.screen.CursorCol = 0,
           NEW n \in 0..(NUM_COLS + 1), NEW text, DOMAIN text = 1..n,
           \A i \in 1..n : text[i] \in Letters
    PROVE  ~FoldLeft(ioPrintChar, w, text).screen.lost
<1> DEFINE At(k) == {v \in Windowed :
                        /\ ~v.screen.lost
                        /\ k < NUM_COLS => /\ CursorLine(v.screen) = 0
                                           /\ v.screen.CursorCol = k /\ ~v.screen.bWordwrap
                        /\ k = NUM_COLS => CursorLine(v.screen) = 1}
           S == [k \in 0..n |-> At(k)]
<1>1. NUM_ROWS \in Nat /\ NUM_ROWS >= 3 /\ NUM_COLS \in Nat /\ NUM_COLS >= 3 /\ n \in Nat
  BY SizeFacts
<1>2. w \in S[0]
  BY <1>1
<1>3. ASSUME NEW k \in 0..(n - 1), NEW v \in S[k]
      PROVE  ioPrintChar(v, text[k + 1]) \in S[k + 1]
  <2> DEFINE char == text[k + 1]
             u == ioPrintChar(v, char)
             s == v.screen
  <2>1. k \in 0..n /\ k + 1 \in 0..n /\ k + 1 \in 1..n /\ k <= NUM_COLS /\ k \in Nat
    BY <1>1
  <2>2. char \in Letters /\ S[k] = At(k) /\ S[k + 1] = At(k + 1)
    BY <2>1
  <2>3. /\ v \in Windowed /\ ~s.lost
        /\ k < NUM_COLS => CursorLine(s) = 0 /\ s.CursorCol = k /\ ~s.bWordwrap
        /\ k = NUM_COLS => CursorLine(s) = 1
    BY <2>2
  <2>4. char \in Chars
    BY <2>2, Zenon DEF Letters
  <2>5. OnlyScreen(v, u) /\ u.screen = ScreenPrintChar(s, char)
    BY <2>3, <2>4, ioPrintCharKeeps
  <2>6. AtRest(s) /\ CursorLine(s) < NUM_ROWS - 1
    BY <1>1, <2>1, <2>3, WindowFields
  <2> HIDE DEF u, char, S
  <2>7. ~u.screen.lost
    BY <2>3, <2>4, <2>5, <2>6, PrintLosesNothing
  <2>8. ASSUME k < NUM_COLS
        PROVE  /\ k + 1 < NUM_COLS => /\ CursorLine(u.screen) = 0
                                      /\ u.screen.CursorCol = k + 1 /\ ~u.screen.bWordwrap
               /\ k + 1 = NUM_COLS => CursorLine(u.screen) = 1
    <3>1. CursorLine(s) = 0 /\ s.CursorCol = k /\ ~s.bWordwrap
      BY <2>3, <2>8
    <3>2. /\ s.CursorCol < NUM_COLS - 1
                 => /\ CursorLine(u.screen) = CursorLine(s) /\ ~u.screen.bWordwrap
                    /\ u.screen.CursorCol = s.CursorCol + 1
          /\ s.CursorCol = NUM_COLS - 1 => CursorLine(u.screen) = CursorLine(s) + 1
      BY <2>2, <2>5, <2>6, <3>1, LetterGoesOn
    <3> QED
      BY <1>1, <2>1, <3>1, <3>2
  <2>9. u \in At(k + 1)
    BY <1>1, <2>1, <2>5, <2>7, <2>8 DEF OnlyScreen
  <2> QED
    BY <2>2, <2>9 DEF u, char
<1>4. FoldLeft(ioPrintChar, w, text) = Writing!Folded(w, text)
  BY FoldsAgree, Zenon
<1>5. S[n] = At(n)
  BY <1>1
<1> HIDE DEF S
<1>6. Writing!Folded(w, text) \in S[n]
  BY <1>1, <1>2, <1>3, Writing!FoldGoes
<1>7. \A v \in At(n) : ~v.screen.lost
  OBVIOUS
<1> QED
  BY <1>4, <1>5, <1>6, <1>7
\* The status line loses nothing, whichever window the game is in.
LEMMA UpdateStatusPage ==
    ASSUME NEW w, Placed(w), ShowsPage(w), bHasStatus \in BOOLEAN
    PROVE  ~updateStatus(w).screen.lost
<1> DEFINE text == <<Space, "room">> \o [i \in 1..(NUM_COLS - 4) |-> Space]
                        \o <<"score", Space>>
           n == Len(text)
           there == ioSetWindow(w, 2, TRUE)
           status == ioEraseWindow(there, 2)
           written == FoldLeft(ioPrintChar, status, text)
           back == ioSetWindow(written, w.curWindow, FALSE)
<1>1. updateStatus(w) = IF bHasStatus THEN back ELSE w
  BY DEF updateStatus
<1>2. w.curWindow \in WindowNums /\ 2 \in WindowNums /\ 2 # 0 /\ TRUE \in BOOLEAN
      /\ w.windowStart[2] = 0
  BY WindowFields DEF Placed, WindowNums
<1>3. /\ Placed(there) /\ ChangesWindow(w, there, 2)
      /\ CursorLine(there.screen) = 0 /\ there.screen.CursorCol = 0
  BY <1>2, ioSetWindowPlaces
<1> HIDE DEF there
<1>4. ShowsPage(there) /\ there.curWindow = 2
  BY <1>3, ChangePage DEF InPage, ChangesWindow
<1>5. there \in Windowed /\ there.windowStart[there.curWindow] = 0
  BY <1>3, <1>4 DEF Placed
<1>6. ASSUME NEW line \in LinesOf(there, 2)
      PROVE  line + there.windowStart[there.curWindow] \in 0..NUM_ROWS
  <2>1. line \in Rows
    BY <1>2, <1>5, LinesOfFacts
  <2> QED
    BY <1>5, <2>1, SizeFacts DEF Rows
<1>7. /\ ShowsPage(status) /\ ~status.screen.bWordwrap /\ status.screen.CursorCol = 0
      /\ Erases(there, status)
  BY <1>2, <1>3, <1>4, <1>5, <1>6, ioEraseWindowPage, ioEraseWindowErases
<1>8. Placed(status)
  BY <1>3, <1>7, PlacedErases
<1> HIDE DEF status
<1>9. /\ status \in Windowed /\ ~status.screen.lost /\ CursorLine(status.screen) = 0
  BY <1>3, <1>7 DEF Erases, ShowsPage, Page
<1>10. n \in 0..(NUM_COLS + 1) /\ DOMAIN text = 1..n
       /\ \A i \in 1..n : text[i] \in Letters /\ text[i] \in Chars
  BY StatusText
<1> HIDE DEF n, text
<1>11. ~written.screen.lost
  BY <1>7, <1>9, <1>10, StatusLosesNothing
<1>12. n \in Nat
  BY <1>10
<1>13. Writes(status, written)
  BY <1>9, <1>10, <1>12, WriteAll
<1> HIDE DEF written
<1>14. Placed(written)
  BY <1>8, <1>13, PlacedWrites
<1>15. ChangesWindow(written, back, w.curWindow)
  BY <1>2, <1>14, ioSetWindowPlaces
<1> HIDE DEF back
<1>16. ~back.screen.lost
  BY <1>11, <1>15 DEF ChangesWindow
<1> QED
  BY <1>1, <1>16 DEF ShowsPage, Page

\* What a blank does to a page that has been read, in the last line.
LEMMA BlankGoesOn ==
    ASSUME NEW s, AtRest(s), AtBottom(s), ~s.lost, s.unread = {},
           s.NonScrollingRows <= NUM_ROWS - 2, NEW char \in Chars, char \in Blank
    PROVE  LET r == ScreenPrintChar(s, char)
               more == IF char = "\n" THEN 1 ELSE 0
           IN  /\ AtRest(r) /\ AtBottom(r) /\ r.NonScrollingRows = s.NonScrollingRows
               /\ ~r.lost /\ r.unread = {} /\ ~r.bWordwrap
               /\ \/ r.paged
                  \/ /\ ~s.paged
                     /\ r.ScrollsWithoutInput >= s.ScrollsWithoutInput + more
                     /\ \/ r.ScrollsWithoutInput <= NUM_ROWS - s.NonScrollingRows
                        \/ r.ScrollsWithoutInput = s.ScrollsWithoutInput
<1> DEFINE r == ScreenPrintChar(s, char)
           swi == s.ScrollsWithoutInput
<1>1. PICK w : /\ Puts(s, w, char)
               /\ \/ r = w /\ Stays(s, w, char)
                  \/ r = ConditionalScroll(w) /\ GoesDown(s, w, char)
  BY PrintSplits
<1>2. /\ s \in Screens /\ swi \in 0..NUM_ROWS /\ s.NonScrollingRows \in 0..(NUM_ROWS - 2)
      /\ s.paged \in BOOLEAN
  BY ScreenFields, SizeFacts DEF AtRest, Rows
<1>3. AtRest(r) /\ AtBottom(r) /\ r.NonScrollingRows = s.NonScrollingRows
  BY <1>2, PrintRests, PrintKeepsAbove
<1> HIDE DEF r
<1>4. Touched(s, char) = {}
  BY DEF Touched
<1>5. /\ w \in Screens /\ w.unread = {} /\ ~w.lost /\ w.ScrollsWithoutInput = swi
      /\ w.NonScrollingRows = s.NonScrollingRows /\ w.paged = s.paged /\ ~w.bWordwrap
      /\ w.TopLine = s.TopLine /\ w.CursorRow = s.CursorRow
  BY <1>1, <1>4 DEF Puts
<1>6. CASE r = w /\ Stays(s, w, char)
  <2>1. char # "\n"
    BY <1>6, Zenon DEF Stays
  <2> DEFINE more == IF char = "\n" THEN 1 ELSE 0
  <2>2. more = 0
    BY <2>1, Zenon
  <2> HIDE DEF more
  <2>3. /\ ~r.lost /\ r.unread = {} /\ ~r.bWordwrap
        /\ \/ r.paged
           \/ /\ ~s.paged
              /\ r.ScrollsWithoutInput >= swi + more
              /\ r.ScrollsWithoutInput = swi
    BY <1>2, <1>5, <1>6, <2>2
  <2> QED
    BY <1>3, <2>3 DEF r, more
<1>7. CASE r = ConditionalScroll(w)
  <2>1. StepsDown(w, r) /\ KeepsUnread(w, r)
    BY <1>2, <1>5, <1>7, StepDown
  <2>2. AtBottom(w)
    BY <1>5 DEF AtBottom, RowOf
  <2>3. Counted(w) = swi + 1
    BY <1>5, <2>2, BottomScrolls DEF Counted
  <2>4. ~r.lost /\ r.unread = {} /\ ~r.bWordwrap
    BY <1>5, <2>1 DEF KeepsUnread, StepsDown
  <2>5. \/ r.paged
        \/ /\ ~s.paged /\ r.ScrollsWithoutInput = swi + 1
           /\ r.ScrollsWithoutInput <= NUM_ROWS - s.NonScrollingRows
    BY <1>2, <1>5, <2>1, <2>3 DEF KeepsUnread
  <2> DEFINE more == IF char = "\n" THEN 1 ELSE 0
  <2>6. more = 0 \/ more = 1
    BY Zenon
  <2> HIDE DEF more
  <2>7. /\ \/ r.paged
           \/ /\ ~s.paged
              /\ r.ScrollsWithoutInput >= swi + more
              /\ r.ScrollsWithoutInput <= NUM_ROWS - s.NonScrollingRows
    BY <1>2, <2>5, <2>6
  <2> QED
    BY <1>3, <2>4, <2>7 DEF r, more
<1> QED
  BY <1>1, <1>6, <1>7
\* The pages in which the echo of an empty input leaves a screen of which n rows do not
\* scroll: everything has been read, and j newlines have been counted.
Echoed(n, j) ==
    {t \in Resting : /\ AtBottom(t) /\ ~t.lost /\ t.unread = {} /\ t.NonScrollingRows = n
                     /\ t.paged \/ t.ScrollsWithoutInput \in j..(NUM_ROWS - n)
                     /\ j > 0 => ~t.bWordwrap}

\* A space and a newline of the echo.
LEMMA EchoGoesOn ==
    ASSUME NEW n \in 0..(NUM_ROWS - 2), NEW j \in 0..1, NEW t \in Echoed(n, j)
    PROVE  /\ ScreenPrintChar(t, Space) \in Echoed(n, j)
           /\ ScreenPrintChar(t, "\n") \in Echoed(n, j + 1)
<1>1. /\ t \in Resting /\ t \in Screens /\ AtRest(t) /\ AtBottom(t) /\ ~t.lost /\ t.unread = {}
      /\ t.NonScrollingRows = n /\ n <= NUM_ROWS - 2 /\ NUM_ROWS \in Nat /\ n \in Nat
      /\ t.paged \/ t.ScrollsWithoutInput \in j..(NUM_ROWS - n)
  BY SizeFacts DEF Echoed, Resting
<1>2. /\ Space \in Chars /\ Space \in Blank /\ "\n" \in Chars /\ "\n" \in Blank /\ Space # "\n"
  BY Zenon DEF Chars, Blank, Space
<1>3. ASSUME NEW r, NEW more \in 0..1, AtRest(r), AtBottom(r), r.NonScrollingRows = n, ~r.lost,
             r.unread = {}, ~r.bWordwrap,
             \/ r.paged
             \/ /\ ~t.paged
                /\ r.ScrollsWithoutInput >= t.ScrollsWithoutInput + more
                /\ \/ r.ScrollsWithoutInput <= NUM_ROWS - n
                   \/ r.ScrollsWithoutInput = t.ScrollsWithoutInput
      PROVE  r \in Echoed(n, j + more)
  <2>1. r \in Screens /\ r \in Resting /\ r.paged \in BOOLEAN /\ t.paged \in BOOLEAN
        /\ r.ScrollsWithoutInput \in Nat
    BY <1>1, <1>3, ScreenFields DEF AtRest, Resting
  <2>2. CASE r.paged
    BY <1>3, <2>1, <2>2 DEF Echoed
  <2>3. CASE ~r.paged
    <3>1. r.ScrollsWithoutInput \in (j + more)..(NUM_ROWS - n)
      BY <1>1, <1>3, <2>1, <2>3
    <3> QED
      BY <1>3, <2>1, <3>1 DEF Echoed
  <2> QED
    BY <2>1, <2>2, <2>3
<1>4. ASSUME NEW char, char \in Chars, char \in Blank, NEW more \in 0..1,
             (IF char = "\n" THEN 1 ELSE 0) = more
      PROVE  ScreenPrintChar(t, char) \in Echoed(n, j + more)
  <2> DEFINE r == ScreenPrintChar(t, char)
  <2>1. /\ AtRest(r) /\ AtBottom(r) /\ r.NonScrollingRows = n
        /\ ~r.lost /\ r.unread = {} /\ ~r.bWordwrap
        /\ \/ r.paged
           \/ /\ ~t.paged
              /\ r.ScrollsWithoutInput >= t.ScrollsWithoutInput + more
              /\ \/ r.ScrollsWithoutInput <= NUM_ROWS - n
                 \/ r.ScrollsWithoutInput = t.ScrollsWithoutInput
    BY <1>1, <1>4, BlankGoesOn
  <2> HIDE DEF r
  <2>2. r \in Echoed(n, j + more)
    BY <1>3, <2>1
  <2> QED
    BY <2>2 DEF r
<1>5. 0 \in 0..1 /\ 1 \in 0..1 /\ j + 0 = j
  OBVIOUS
<1>6. (IF Space = "\n" THEN 1 ELSE 0) = 0 /\ (IF "\n" = "\n" THEN 1 ELSE 0) = 1
  BY <1>2, Zenon
<1>7. ScreenPrintChar(t, Space) \in Echoed(n, j + 0)
  BY <1>2, <1>4, <1>5, <1>6, Zenon
<1>8. ScreenPrintChar(t, "\n") \in Echoed(n, j + 1)
  BY <1>2, <1>4, <1>5, <1>6, Zenon
<1> QED
  BY <1>5, <1>7, <1>8, Zenon

\* A screen on which everything was read, and what was entered echoed.
LEMMA AskedFacts ==
    ASSUME NEW s \in Resting
    PROVE  LET t == [Ask(s) EXCEPT !.paged = FALSE] IN
           /\ t \in Resting /\ t.NonScrollingRows = s.NonScrollingRows
           /\ t.lost = s.lost /\ t.unread = {} /\ ~t.paged /\ t.ScrollsWithoutInput = 0
           /\ t.CursorCol = s.CursorCol /\ t.bWordwrap = s.bWordwrap
           /\ t.TopLine = s.TopLine /\ t.CursorRow = s.CursorRow
<1> DEFINE a == Ask(s)
           t == [a EXCEPT !.paged = FALSE]
<1>1. s \in Screens /\ AtRest(s) /\ 0 \in 0..NUM_ROWS
  BY SizeFacts DEF Resting
<1>2. /\ Pages(s, a) /\ a.CursorCol = s.CursorCol /\ a.bWordwrap = s.bWordwrap
  BY <1>1, AskKeeps
<1> HIDE DEF a
<1>3. /\ t \in Screens /\ t.CursorCol = a.CursorCol /\ t.paged = FALSE
      /\ t.bWordwrap = a.bWordwrap /\ t.TopLine = a.TopLine
      /\ t.CursorRow = a.CursorRow /\ t.NonScrollingRows = a.NonScrollingRows
      /\ t.ScrollsWithoutInput = a.ScrollsWithoutInput
      /\ t.unread = a.unread /\ t.lost = a.lost
  BY <1>2 DEF Screens, Pages
<1> HIDE DEF t
<1>4. t \in Resting
  BY <1>1, <1>2, <1>3 DEF Resting, AtRest, Pages
<1> QED
  BY <1>2, <1>3, <1>4 DEF Pages, a, t

\* The echo of what was entered has been read.
LEMMA EchoIsRead ==
    ASSUME NEW p \in Resting
    PROVE  LET r == [p EXCEPT !.unread = {}] IN
           /\ r \in Resting /\ r.NonScrollingRows = p.NonScrollingRows
           /\ r.lost = p.lost /\ r.unread = {} /\ r.paged = p.paged
           /\ r.ScrollsWithoutInput = p.ScrollsWithoutInput
           /\ r.CursorCol = p.CursorCol /\ r.bWordwrap = p.bWordwrap
           /\ r.TopLine = p.TopLine /\ r.CursorRow = p.CursorRow
<1> DEFINE r == [p EXCEPT !.unread = {}]
<1>1. p \in Screens /\ AtRest(p)
  BY DEF Resting
<1>2. /\ r \in Screens /\ r.NonScrollingRows = p.NonScrollingRows
      /\ r.lost = p.lost /\ r.unread = {} /\ r.paged = p.paged
      /\ r.ScrollsWithoutInput = p.ScrollsWithoutInput
      /\ r.CursorCol = p.CursorCol /\ r.bWordwrap = p.bWordwrap
      /\ r.TopLine = p.TopLine /\ r.CursorRow = p.CursorRow
  BY <1>1 DEF Screens
<1> HIDE DEF r
<1>3. r \in Resting
  BY <1>1, <1>2 DEF Resting, AtRest
<1> QED
  BY <1>2, <1>3 DEF r

\* After an input two lines have been counted, or a page was shown (Screen.cpp
\* 111-160).
LEMMA ReadInputPage ==
    ASSUME NEW s \in Resting, AtBottom(s), ~s.lost, s.NonScrollingRows <= NUM_ROWS - 2
    PROVE  LET r == ReadInput(s, <<>>) IN Page(r) /\ ~r.bWordwrap
<1> DEFINE n == s.NonScrollingRows
           asked == [Ask(s) EXCEPT !.paged = FALSE]
           seq == <<Space>> \o <<>> \o <<"\n", "\n">>
           p == ScreenPrint(asked, seq)
           r == ReadInput(s, <<>>)
           S == [k \in 0..3 |-> Echoed(n, IF k <= 1 THEN 0 ELSE k - 1)]
<1>1. s \in Screens /\ n \in 0..(NUM_ROWS - 2) /\ NUM_ROWS \in Nat
  BY ScreenFields, SizeFacts DEF Resting, Rows
<1>2. /\ DOMAIN seq = 1..3 /\ seq[1] = Space /\ seq[2] = "\n" /\ seq[3] = "\n"
  <2> DEFINE Spells(a, b) ==
               LET t == <<a>> \o <<>> \o <<b, b>>
               IN  DOMAIN t = 1..3 /\ t[1] = a /\ t[2] = b /\ t[3] = b
  <2>1. ASSUME NEW a, NEW b PROVE Spells(a, b)
    OBVIOUS
  <2> HIDE DEF Spells
  <2>2. Spells(Space, "\n")
    BY <2>1, Zenon
  <2> QED
    BY <2>2, Zenon DEF Spells
<1>3. r = [p EXCEPT !.unread = {}]
  BY DEF ReadInput
<1>4. p = Printing!Folded(asked, seq)
  BY FoldsAgree, Zenon DEF ScreenPrint
<1>5. /\ asked \in Resting /\ asked.NonScrollingRows = n /\ ~asked.lost
      /\ asked.unread = {} /\ ~asked.paged /\ asked.ScrollsWithoutInput = 0
      /\ asked.TopLine = s.TopLine /\ asked.CursorRow = s.CursorRow
  BY AskedFacts
<1> HIDE DEF asked, seq, n, r, p
<1>6. asked \in Echoed(n, 0)
  <2>1. AtBottom(asked)
    BY <1>5 DEF AtBottom, RowOf
  <2>2. 0 \in 0..(NUM_ROWS - n)
    BY <1>1
  <2> QED
    BY <1>5, <2>1, <2>2 DEF Echoed
<1>7. S[0] = Echoed(n, 0) /\ S[1] = Echoed(n, 0) /\ S[2] = Echoed(n, 1) /\ S[3] = Echoed(n, 2)
  OBVIOUS
<1> HIDE DEF S
<1>8. \A t \in Echoed(n, 0) : /\ ScreenPrintChar(t, Space) \in Echoed(n, 0)
                              /\ ScreenPrintChar(t, "\n") \in Echoed(n, 1)
  <2>1. 0 \in 0..1 /\ 0 + 1 = 1
    OBVIOUS
  <2> QED
    BY <1>1, <2>1, EchoGoesOn, Zenon
<1>9. \A t \in Echoed(n, 1) : ScreenPrintChar(t, "\n") \in Echoed(n, 2)
  <2>1. 1 \in 0..1 /\ 1 + 1 = 2
    OBVIOUS
  <2> QED
    BY <1>1, <2>1, EchoGoesOn, Zenon
<1>10. /\ \A t \in S[0] : ScreenPrintChar(t, seq[1]) \in S[1]
       /\ \A t \in S[1] : ScreenPrintChar(t, seq[2]) \in S[2]
       /\ \A t \in S[2] : ScreenPrintChar(t, seq[3]) \in S[3]
  BY <1>2, <1>7, <1>8, <1>9, Zenon
<1>11. \A k \in 0..(3 - 1) : \A t \in S[k] : ScreenPrintChar(t, seq[k + 1]) \in S[k + 1]
  <2>1. \A k \in 0..(3 - 1) : /\ k = 0 \/ k = 1 \/ k = 2
                              /\ k = 0 => k + 1 = 1
                              /\ k = 1 => k + 1 = 2
                              /\ k = 2 => k + 1 = 3
    OBVIOUS
  <2> QED
    BY <1>10, <2>1, Zenon
<1>12. asked \in S[0] /\ 3 \in Nat
  BY <1>6, <1>7
<1>13. Printing!Folded(asked, seq) \in S[3]
  BY <1>2, <1>11, <1>12, Printing!FoldGoes, Zenon
<1>14. p \in Echoed(n, 2)
  BY <1>4, <1>7, <1>13
<1>15. /\ p \in Resting /\ ~p.lost /\ p.unread = {} /\ p.NonScrollingRows = n
       /\ p.paged \/ p.ScrollsWithoutInput \in 2..(NUM_ROWS - n)
       /\ ~p.bWordwrap
  BY <1>14 DEF Echoed
<1>16. /\ r.NonScrollingRows = n /\ ~r.lost /\ r.unread = {} /\ r.paged = p.paged
       /\ r.ScrollsWithoutInput = p.ScrollsWithoutInput /\ ~r.bWordwrap
  BY <1>3, <1>15, EchoIsRead
<1>17. Page(r) /\ ~r.bWordwrap
  BY <1>15, <1>16 DEF Page
<1> QED
  BY <1>17 DEF r
\* sread.
LEMMA SreadPage ==
    ASSUME Tidy, WInv, InPage(Now), sread
    PROVE  InPage(Now)'
<1> DEFINE w == updateStatus(Now)
           r == ReadInput(w.screen, <<>>)
           v == [w EXCEPT !.screen = ReadInput(@, <<>>)]
<1>1. Placed(Now) /\ Now.curWindow = 0 /\ bHasStatus \in BOOLEAN /\ ShowsPage(Now)
  BY NowFields DEF sread, InPage
<1>2. Placed(w) /\ w.curWindow = 0 /\ ~w.screen.lost
  BY <1>1, updateStatusPlaces, UpdateStatusPage
<1>3. Become(v)
  BY DEF sread, Move
<1> HIDE DEF w
<1>4. /\ w \in Windowed /\ w.screen \in Resting /\ w.screen \in Screens
      /\ w.screen.NonScrollingRows <= NUM_ROWS - 2
  BY <1>2, WindowFields DEF Placed
<1>5. AtBottom(w.screen)
  BY <1>2, <1>4, BottomLine DEF Placed
<1>6. Page(r) /\ ~r.bWordwrap
  BY <1>2, <1>4, <1>5, ReadInputPage
<1>7. Placed(v)
  BY <1>2, ReadLeaves DEF LeavesPlaced
<1>8. v.screen = r
  BY <1>4 DEF Windowed
<1> HIDE DEF v, r
<1>9. InPage(v)
  BY <1>6, <1>7, <1>8 DEF InPage, ShowsPage, Wrapped, Placed
<1> QED
  BY <1>3, <1>9, BecomePage

\* read_char.
LEMMA ReadCharPage ==
    ASSUME WInv, InPage(Now), read_char
    PROVE  InPage(Now)'
<1> DEFINE there == ioSetWindow(Now, 2, FALSE)
           w == ioSetCursor(there, NUM_COLS - 3, NUM_ROWS - 1)
           a == Ask(w.screen)
           read == [w EXCEPT !.screen = ReadSilently(@)]
           v == ioSetWindow(read, curWindow, FALSE)
<1>1. /\ Placed(Now) /\ curWindow \in WindowNums
      /\ 2 \in WindowNums /\ 2 # 0 /\ FALSE \in BOOLEAN /\ ShowsPage(Now)
  BY NowFields DEF WindowNums, InPage
<1>2. Placed(there) /\ ChangesWindow(Now, there, 2)
  BY <1>1, ioSetWindowPlaces
<1> HIDE DEF there
<1>3. ShowsPage(there)
  BY <1>1, <1>2, ChangePage DEF InPage
<1>4. /\ there.curWindow = 2 /\ there \in Windowed
      /\ NUM_COLS - 3 \in Cols /\ NUM_ROWS - 1 \in Int
      /\ NUM_ROWS - 1 + there.windowStart[there.curWindow] \in Rows
      /\ NUM_ROWS - 1 + there.windowStart[there.curWindow] \in 0..NUM_ROWS
  BY <1>2, SizeFacts DEF ChangesWindow, Placed, Rows, Cols
<1>5. Placed(w) /\ w.curWindow = 2 /\ ShowsPage(w)
  BY <1>2, <1>3, <1>4, ioSetCursorPlaces, ioSetCursorPage
<1> HIDE DEF w
<1>6. w \in Windowed /\ w.screen \in Screens /\ ~w.screen.lost
  BY <1>5, WindowFields DEF Placed, ShowsPage, Page
<1>7. Pages(w.screen, a)
  BY <1>6, AskKeeps
<1>8. read.screen = [a EXCEPT !.paged = TRUE]
  BY <1>6 DEF ReadSilently, Windowed
<1> HIDE DEF a
<1>9. read.screen.paged = TRUE /\ ~read.screen.lost
  BY <1>6, <1>7, <1>8 DEF Pages, Screens
<1>10. Placed(read)
  BY <1>5, ReadSilentlyPlaces
<1> HIDE DEF read
<1>11. ShowsPage(read)
  BY <1>9, <1>10 DEF ShowsPage, Page, Placed
<1>12. ChangesWindow(read, v, curWindow)
  BY <1>1, <1>10, ioSetWindowPlaces
<1>13. Become(v)
  BY DEF read_char, Move, v, read, w, there
<1> HIDE DEF v
<1>14. InPage(v)
  BY <1>11, <1>12, ChangePage
<1> QED
  BY <1>13, <1>14, BecomePage

\* Every step keeps the invariant of the page.
LEMMA NextPage ==
    ASSUME Tidy, WInv, InPage(Now), Next
    PROVE  InPage(Now)'
<1>1. ASSUME NEW text \in {NextWord, <<Space>>, NewLine}, printText(text)
      PROVE  InPage(Now)'
  BY <1>1, PrintTextPage
<1>2. ASSUME NEW numLines \in 0..MaxSplit, split_window(numLines)
      PROVE  InPage(Now)'
  BY <1>2, SplitWindowPage
<1>3. ASSUME NEW windowNum \in 0..1, set_window(windowNum)
      PROVE  InPage(Now)'
  BY <1>3, ChangeWindowPage
<1>4. ASSUME NEW windowNum \in (-2)..1, erase_window(windowNum)
      PROVE  InPage(Now)'
  BY <1>4, EraseWindowPage
<1>5. ASSUME erase_line PROVE InPage(Now)'
  BY <1>5, EraseLinePageKept
<1>6. ASSUME NEW line \in 1..NUM_ROWS, NEW column \in 1..NUM_COLS, set_cursor(line, column)
      PROVE  InPage(Now)'
  BY <1>6, SetCursorPageKept
<1>7. ASSUME sread PROVE InPage(Now)'
  BY <1>7, SreadPage
<1>8. ASSUME read_char PROVE InPage(Now)'
  BY <1>8, ReadCharPage
<1> QED
  BY <1>1, <1>2, <1>3, <1>4, <1>5, <1>6, <1>7, <1>8 DEF Next
--------------------------------------------------------------------------------
(***************************************************************************)
(* The first page.  The menu's echo is two lines, and one more scrolls off *)
(* when the windows are erased.                                            *)
(***************************************************************************)

\* A screen on whose last line the answer to the menu is echoed: j lines have scrolled.
Typed(col, j) ==
    {t \in Resting : /\ AtBottom(t) /\ t.NonScrollingRows = 1 /\ ~t.lost /\ ~t.paged
                     /\ ~t.bWordwrap /\ t.ScrollsWithoutInput = j /\ t.CursorCol = col
                     /\ \A row \in t.unread : LineOf(t, row) >= NUM_ROWS - 1 - j}

\* What such a screen is.
LEMMA TypedFacts ==
    ASSUME NEW col \in 0..(NUM_COLS - 1), NEW j \in 0..2, NEW t \in Typed(col, j),
           NUM_ROWS >= 4
    PROVE  /\ t \in Resting /\ t \in Screens /\ AtRest(t) /\ AtBottom(t)
           /\ t.CursorRow \in Rows /\ CursorLine(t) = NUM_ROWS - 1
           /\ t.NonScrollingRows = 1 /\ ~t.lost /\ ~t.paged /\ ~t.bWordwrap
           /\ t.ScrollsWithoutInput = j /\ t.CursorCol = col /\ t.unread \in SUBSET Rows
           /\ \A row \in t.unread : LineOf(t, row) >= NUM_ROWS - 1 - j
<1>1. t \in Resting /\ t \in Screens /\ AtRest(t) /\ AtBottom(t)
  BY DEF Typed, Resting
<1> QED
  BY <1>1, BottomLine, ScreenFields DEF Typed

\* A letter of the answer.
LEMMA LetterTyped ==
    ASSUME NEW col \in 0..(NUM_COLS - 2), NEW j \in 0..2, NEW t \in Typed(col, j),
           NUM_ROWS >= 4, NEW char \in Letters
    PROVE  ScreenPrintChar(t, char) \in Typed(col + 1, j)
<1> DEFINE r == ScreenPrintChar(t, char)
<1>1. char \in Chars /\ char # "\n"
  BY Zenon DEF Letters
<1>2. PICK w : /\ Puts(t, w, char)
               /\ \/ r = w /\ Stays(t, w, char)
                  \/ r = ConditionalScroll(w) /\ GoesDown(t, w, char)
  BY <1>1, PrintSplits, TypedFacts, SizeFacts
<1> HIDE DEF r
<1>3. NUM_COLS \in Nat /\ NUM_ROWS \in Nat /\ col \in 0..(NUM_COLS - 1) /\ col # NUM_COLS - 1
  BY SizeFacts
<1>4. /\ AtBottom(t) /\ CursorLine(t) = NUM_ROWS - 1 /\ t.CursorCol = col /\ ~t.bWordwrap
      /\ t.NonScrollingRows = 1 /\ ~t.lost /\ ~t.paged /\ t.ScrollsWithoutInput = j
      /\ t.unread \in SUBSET Rows
      /\ \A row \in t.unread : LineOf(t, row) >= NUM_ROWS - 1 - j
  BY <1>3, TypedFacts
<1>5. r = w /\ Stays(t, w, char)
  BY <1>1, <1>2, <1>3, <1>4, Zenon DEF GoesDown
<1>6. AtRest(r) /\ ~r.bWordwrap /\ r.CursorCol = col + 1 /\ r \in Resting
  <2>1. AtRest(r) /\ ~r.bWordwrap /\ r.CursorCol = t.CursorCol + 1
    BY <1>4, <1>5, Zenon DEF Stays
  <2> QED
    BY <1>4, <2>1 DEF Resting, AtRest
<1>7. Touched(t, char) \subseteq {t.CursorRow}
  BY <1>4 DEF Touched
<1>8. /\ r.TopLine = t.TopLine /\ r.CursorRow = t.CursorRow /\ r.NonScrollingRows = 1
      /\ r.ScrollsWithoutInput = j /\ ~r.paged /\ ~r.lost
      /\ r.unread \subseteq t.unread \cup {t.CursorRow}
  BY <1>2, <1>4, <1>5, <1>7 DEF Puts
<1>9. \A row \in r.unread : LineOf(r, row) >= NUM_ROWS - 1 - j
  <2>1. \A row : LineOf(r, row) = LineOf(t, row)
    BY <1>8 DEF LineOf
  <2>2. LineOf(r, t.CursorRow) = NUM_ROWS - 1
    BY <1>4, <2>1 DEF CursorLine
  <2>3. NUM_ROWS - 1 >= NUM_ROWS - 1 - j
    BY <1>3
  <2> QED
    BY <1>4, <1>8, <2>1, <2>2, <2>3
<1>10. AtBottom(r)
  BY <1>4, <1>8 DEF AtBottom, RowOf
<1> QED
  BY <1>6, <1>8, <1>9, <1>10 DEF Typed, r

\* A newline behind it.
LEMMA NewLineTyped ==
    ASSUME NEW col \in 0..(NUM_COLS - 1), NEW j \in 0..1, NEW t \in Typed(col, j),
           NUM_ROWS >= 4
    PROVE  ScreenPrintChar(t, "\n") \in Typed(0, j + 1)
<1>1. "\n" \in Chars /\ "\n" \in Blank
  BY Zenon DEF Chars, Blank
<1>2. PICK char : char = "\n"
  OBVIOUS
<1>3. char \in Chars /\ char \in Blank
  BY <1>1, <1>2, Zenon
<1> DEFINE r == ScreenPrintChar(t, char)
<1>4. /\ t \in Screens /\ AtRest(t) /\ AtBottom(t)
      /\ t.NonScrollingRows = 1 /\ ~t.lost /\ ~t.paged /\ t.ScrollsWithoutInput = j
      /\ t.unread \in SUBSET Rows /\ NUM_ROWS \in Nat /\ j \in 0..2
      /\ \A row \in t.unread : LineOf(t, row) >= NUM_ROWS - 1 - j
  BY TypedFacts, SizeFacts
<1>5. PICK w : /\ Puts(t, w, char)
               /\ \/ r = w /\ Stays(t, w, char)
                  \/ r = ConditionalScroll(w) /\ GoesDown(t, w, char)
  BY <1>3, <1>4, PrintSplits
<1>6. AtRest(r) /\ AtBottom(r) /\ r.NonScrollingRows = 1
  <2>1. t.NonScrollingRows \in 0..(NUM_ROWS - 2)
    BY <1>4
  <2> QED
    BY <1>3, <1>4, <2>1, PrintRests, PrintKeepsAbove
<1> HIDE DEF r
<1>7. r = ConditionalScroll(w)
  BY <1>2, <1>5, Zenon DEF Stays
<1>8. Touched(t, char) = {}
  BY <1>3 DEF Touched
<1>9. /\ w \in Screens /\ w.TopLine = t.TopLine /\ w.CursorRow = t.CursorRow
      /\ w.NonScrollingRows = 1 /\ w.ScrollsWithoutInput = j /\ w.paged = t.paged /\ ~w.lost
      /\ ~w.bWordwrap /\ w.unread \subseteq t.unread
  BY <1>3, <1>4, <1>5, <1>8 DEF Puts
<1>10. Scrolling(w)
  BY <1>4, <1>9, BottomScrolls DEF AtBottom, RowOf
<1>11. StepsDown(w, r) /\ KeepsRows(w, r) /\ KeepsUnread(w, r)
  <2>1. w.ScrollsWithoutInput \in 0..NUM_ROWS
    BY <1>4, <1>9
  <2> QED
    BY <1>7, <1>9, <2>1, StepDown
<1>12. Counted(w) = j + 1 /\ Counted(w) <= NUM_ROWS - w.NonScrollingRows
  BY <1>4, <1>9, <1>10 DEF Counted
<1>13. \A row \in w.unread : row \in Rows /\ LineOf(w, row) >= NUM_ROWS - 1 - j
  BY <1>4, <1>9 DEF LineOf
<1>14. ~r.lost
  <2>1. 1 \in Rows /\ 1 < NUM_ROWS - 1 - j
    BY <1>4 DEF Rows
  <2>2. LineOf(w, RowOf(w, 1)) = 1
    BY <1>9, <2>1, LineFacts
  <2>3. RowOf(w, 1) \notin w.unread
    BY <1>4, <1>13, <2>1, <2>2
  <2> QED
    BY <1>9, <1>11, <2>3 DEF KeepsUnread
<1>15. /\ r \in Screens /\ r.paged = w.paged /\ r.ScrollsWithoutInput = j + 1
       /\ r.TopLine = (w.TopLine + 1) % NUM_ROWS /\ r.CursorCol = 0 /\ ~r.bWordwrap
       /\ \A row \in r.unread : row \in w.unread /\ LineOf(w, row) \in 2..(NUM_ROWS - 1)
  <2>1. ~(Counted(w) > NUM_ROWS - w.NonScrollingRows)
    BY <1>4, <1>9, <1>12
  <2> QED
    BY <1>9, <1>10, <1>11, <1>12, <2>1 DEF KeepsUnread, KeepsRows, StepsDown, AtRest
<1>16. \A row \in r.unread : LineOf(r, row) >= NUM_ROWS - 1 - (j + 1)
  <2> SUFFICES ASSUME NEW row \in r.unread PROVE LineOf(r, row) >= NUM_ROWS - 1 - (j + 1)
    OBVIOUS
  <2>1. row \in Rows /\ LineOf(w, row) >= NUM_ROWS - 1 - j /\ LineOf(w, row) \in 2..(NUM_ROWS - 1)
    BY <1>13, <1>15
  <2>2. LineOf(r, row) = LineOf(w, row) - 1
    BY <1>9, <1>15, <2>1, LineAfterScroll
  <2> QED
    BY <1>4, <2>1, <2>2
<1>17. r \in Typed(0, j + 1)
  BY <1>4, <1>6, <1>9, <1>14, <1>15, <1>16 DEF Typed, Resting
<1> QED
  BY <1>2, <1>17 DEF r
\* When the game starts two lines have been counted.
LEMMA ShowPage ==
    ASSUME NUM_ROWS >= 4
    PROVE  /\ Show.ScrollsWithoutInput = 2 /\ Show.unread = {} /\ ~Show.lost
           /\ Show.NonScrollingRows = 1
<1> DEFINE n == 2 * (NUM_ROWS - 1)
           menu == ScreenPrint(SetCursorPosition(NewScreen, 0, 0), Menu)
           asked == [Ask(menu) EXCEPT !.paged = FALSE]
           seq == <<Space>> \o <<"1">> \o <<"\n", "\n">>
           p == ScreenPrint(asked, seq)
           Col(k) == CASE k = 1 -> 1 [] k = 2 -> 2 [] OTHER -> 0
           Down(k) == IF k <= 2 THEN 0 ELSE k - 2
           S == [k \in 0..4 |-> Typed(Col(k), Down(k))]
<1>1. /\ NUM_ROWS \in Nat /\ NUM_ROWS >= 3 /\ n \div 2 = NUM_ROWS - 1 /\ n % 2 = 0
      /\ NUM_COLS \in Nat /\ NUM_COLS >= 3
  BY SizeFacts
<1>2. Show = [p EXCEPT !.unread = {}]
  BY DEF Show, ReadInput
<1>3. menu \in Shown(n)
  BY MenuShown
<1>4. /\ DOMAIN seq = 1..4 /\ seq[1] = Space /\ seq[2] = "1" /\ seq[3] = "\n" /\ seq[4] = "\n"
  <2> DEFINE Spells(a, b, c) ==
               LET t == <<a>> \o <<b>> \o <<c, c>>
               IN  DOMAIN t = 1..4 /\ t[1] = a /\ t[2] = b /\ t[3] = c /\ t[4] = c
  <2>1. ASSUME NEW a, NEW b, NEW c PROVE Spells(a, b, c)
    OBVIOUS
  <2> HIDE DEF Spells
  <2>2. Spells(Space, "1", "\n")
    BY <2>1, Zenon
  <2> QED
    BY <2>2, Zenon DEF Spells
<1>5. p = Printing!Folded(asked, seq)
  BY FoldsAgree, Zenon DEF ScreenPrint
<1> HIDE DEF n, menu
<1>6. /\ menu \in Resting /\ menu \in Screens /\ menu.NonScrollingRows = 1
      /\ CursorLine(menu) = NUM_ROWS - 1 /\ menu.CursorCol = 0 /\ ~menu.bWordwrap /\ ~menu.lost
  BY <1>1, <1>3 DEF Shown, Resting
<1>7. /\ asked \in Resting /\ asked.NonScrollingRows = 1 /\ ~asked.lost
      /\ asked.unread = {} /\ ~asked.paged /\ asked.ScrollsWithoutInput = 0
      /\ asked.TopLine = menu.TopLine /\ asked.CursorRow = menu.CursorRow
      /\ asked.CursorCol = 0 /\ ~asked.bWordwrap
  BY <1>6, AskedFacts
<1> HIDE DEF asked, seq, p
<1>8. asked \in Typed(0, 0)
  <2>1. AtBottom(asked)
    BY <1>6, <1>7, BottomLine DEF AtBottom, RowOf
  <2> QED
    BY <1>7, <2>1 DEF Typed
<1>9. /\ S[0] = Typed(0, 0) /\ S[1] = Typed(1, 0) /\ S[2] = Typed(2, 0)
      /\ S[3] = Typed(0, 1) /\ S[4] = Typed(0, 2)
  OBVIOUS
<1> HIDE DEF S
<1>10. /\ Space \in Letters /\ "1" \in Letters
  BY Zenon DEF Chars, Letters, Space
<1>11. \A char \in Letters :
          /\ \A t \in Typed(0, 0) : ScreenPrintChar(t, char) \in Typed(1, 0)
          /\ \A t \in Typed(1, 0) : ScreenPrintChar(t, char) \in Typed(2, 0)
  <2>1. 0 \in 0..(NUM_COLS - 2) /\ 1 \in 0..(NUM_COLS - 2) /\ 0 \in 0..2 /\ 0 + 1 = 1 /\ 1 + 1 = 2
    BY <1>1
  <2> QED
    BY <2>1, LetterTyped, Zenon
<1>12. /\ \A t \in Typed(2, 0) : ScreenPrintChar(t, "\n") \in Typed(0, 1)
       /\ \A t \in Typed(0, 1) : ScreenPrintChar(t, "\n") \in Typed(0, 2)
  <2>1. 0 \in 0..(NUM_COLS - 1) /\ 2 \in 0..(NUM_COLS - 1) /\ 0 \in 0..1 /\ 1 \in 0..1
        /\ 0 + 1 = 1 /\ 1 + 1 = 2
    BY <1>1
  <2> QED
    BY <2>1, NewLineTyped, Zenon
<1>13. /\ \A t \in S[0] : ScreenPrintChar(t, seq[1]) \in S[1]
       /\ \A t \in S[1] : ScreenPrintChar(t, seq[2]) \in S[2]
       /\ \A t \in S[2] : ScreenPrintChar(t, seq[3]) \in S[3]
       /\ \A t \in S[3] : ScreenPrintChar(t, seq[4]) \in S[4]
  BY <1>4, <1>9, <1>10, <1>11, <1>12, Zenon
<1>14. \A k \in 0..(4 - 1) : \A t \in S[k] : ScreenPrintChar(t, seq[k + 1]) \in S[k + 1]
  <2>1. \A k \in 0..(4 - 1) : /\ k = 0 \/ k = 1 \/ k = 2 \/ k = 3
                              /\ k = 0 => k + 1 = 1
                              /\ k = 1 => k + 1 = 2
                              /\ k = 2 => k + 1 = 3
                              /\ k = 3 => k + 1 = 4
    OBVIOUS
  <2> QED
    BY <1>13, <2>1, Zenon
<1>15. asked \in S[0] /\ 4 \in Nat
  BY <1>8, <1>9
<1>16. Printing!Folded(asked, seq) \in S[4]
  BY <1>4, <1>14, <1>15, Printing!FoldGoes, Zenon
<1>17. p \in Typed(0, 2)
  BY <1>5, <1>9, <1>16
<1>18. p \in Resting /\ ~p.lost /\ p.ScrollsWithoutInput = 2 /\ p.NonScrollingRows = 1
  BY <1>17 DEF Typed
<1> QED
  BY <1>2, <1>18, EchoIsRead

\* What has been read, with j lines scrolled since.
Blanked(s, j) ==
    /\ s.unread = {} /\ ~s.lost /\ s.NonScrollingRows = 1 /\ s.ScrollsWithoutInput = j

\* A space scrolls the screen in the last column of the last line only.
LEMMA SpaceBlanks ==
    ASSUME NEW s, AtRest(s), ~s.bWordwrap, NEW j \in Nat, Blanked(s, j),
           j + (IF CursorLine(s) = NUM_ROWS - 1 /\ s.CursorCol = NUM_COLS - 1 THEN 1 ELSE 0)
              <= NUM_ROWS - 1
    PROVE  LET r == ScreenPrintChar(s, Space) IN
           /\ s.CursorCol < NUM_COLS - 1
                 => /\ Blanked(r, j) /\ CursorLine(r) = CursorLine(s)
                    /\ r.CursorCol = s.CursorCol + 1 /\ ~r.bWordwrap
           /\ s.CursorCol = NUM_COLS - 1
                 => Blanked(r, j + (IF CursorLine(s) = NUM_ROWS - 1 THEN 1 ELSE 0))
<1> DEFINE r == ScreenPrintChar(s, Space)
<1>1. Space \in Chars /\ Space # "\n" /\ Space \in Blank
  BY Zenon DEF Chars, Space, Blank
<1>2. PICK w : /\ Puts(s, w, Space)
               /\ \/ r = w /\ Stays(s, w, Space)
                  \/ r = ConditionalScroll(w) /\ GoesDown(s, w, Space)
  BY <1>1, PrintSplits
<1> HIDE DEF r
<1>3. Touched(s, Space) = {}
  BY <1>1 DEF Touched
<1>4. /\ w \in Screens /\ w.ScrollsWithoutInput = j /\ w.NonScrollingRows = 1
      /\ w.unread = {} /\ ~w.lost /\ w.TopLine = s.TopLine /\ w.CursorRow = s.CursorRow
      /\ CursorLine(w) = CursorLine(s) /\ Blanked(w, j)
  BY <1>2, <1>3 DEF Puts, Blanked, CursorLine, LineOf
<1>5. s.CursorCol \in 0..(NUM_COLS - 1) /\ NUM_COLS \in Nat /\ NUM_ROWS \in Nat /\ NUM_ROWS >= 3
      /\ j \in 0..NUM_ROWS
  BY SizeFacts DEF AtRest, Cols, Blanked
<1>6. CASE r = w /\ Stays(s, w, Space)
  <2>1. AtRest(w) /\ ~w.bWordwrap /\ w.CursorCol = s.CursorCol + 1
    BY <1>6, Zenon DEF Stays
  <2>2. w.CursorCol \in 0..(NUM_COLS - 1)
    BY <2>1 DEF AtRest, Cols
  <2> QED
    BY <1>4, <1>5, <1>6, <2>1, <2>2 DEF r
<1>7. CASE r = ConditionalScroll(w) /\ GoesDown(s, w, Space)
  <2>1. s.CursorCol = NUM_COLS - 1
    BY <1>1, <1>7, Zenon DEF GoesDown
  <2> DEFINE more == IF CursorLine(s) = NUM_ROWS - 1 THEN 1 ELSE 0
  <2>2. Counted(w) = j + more
    BY <1>4, BottomScrolls, BottomLine DEF Counted
  <2>3. j + more <= NUM_ROWS - 1 /\ j + more \in Nat
    BY <2>1
  <2>4. StepsDown(w, r) /\ KeepsUnread(w, r)
    BY <1>4, <1>5, <1>7, StepDown
  <2> HIDE DEF more
  <2>5. Blanked(r, j + more)
    <3>1. ~(Counted(w) > NUM_ROWS - w.NonScrollingRows)
      BY <1>4, <1>5, <2>2, <2>3
    <3> QED
      BY <1>4, <2>2, <2>4, <3>1 DEF KeepsUnread, StepsDown, Blanked
  <2> QED
    BY <1>5, <2>1, <2>5 DEF r, more
<1> QED
  BY <1>2, <1>6, <1>7
\* A line that is erased scrolls the screen if it is the last one.
LEMMA EraseLineBlanks ==
    ASSUME NEW w \in Windowed, NEW j \in Nat, Blanked(w.screen, j), NEW line \in Int, NEW y,
           y = line + w.windowStart[w.curWindow], y \in 0..NUM_ROWS,
           j + (IF y = NUM_ROWS - 1 THEN 1 ELSE 0) <= NUM_ROWS - 1
    PROVE  Blanked(EraseLine(w, line).screen, j + (IF y = NUM_ROWS - 1 THEN 1 ELSE 0))
<1> DEFINE more == IF y = NUM_ROWS - 1 THEN 1 ELSE 0
           there == ioSetCursor(w, 0, line)
           seq == [i \in 1..NUM_COLS |-> Space]
           At(k) == {v \in Windowed :
                       /\ k < NUM_COLS
                             => /\ Blanked(v.screen, j) /\ ~v.screen.bWordwrap
                                /\ CursorLine(v.screen) = (IF y = NUM_ROWS THEN 0 ELSE y)
                                /\ v.screen.CursorCol = k
                       /\ k = NUM_COLS => Blanked(v.screen, j + more)}
           S == [k \in 0..NUM_COLS |-> At(k)]
<1>1. NUM_ROWS \in Nat /\ NUM_ROWS >= 3 /\ NUM_COLS \in Nat /\ NUM_COLS >= 3 /\ 0 \in Cols
      /\ y \in Nat /\ y <= NUM_ROWS
  BY SizeFacts DEF Cols
<1>2. more \in 0..1 /\ j + more <= NUM_ROWS - 1
      /\ ((IF y = NUM_ROWS THEN 0 ELSE y) = NUM_ROWS - 1 <=> more = 1)
  BY <1>1
<1>3. OnlyScreen(w, there) /\ there.screen = SetCursorPosition(w.screen, 0, y)
  BY <1>1, ioSetCursorKeeps
<1>4. /\ there \in Windowed /\ Blanked(there.screen, j) /\ ~there.screen.bWordwrap
      /\ CursorLine(there.screen) = (IF y = NUM_ROWS THEN 0 ELSE y)
      /\ there.screen.CursorCol = 0
  <2>1. w.screen \in Resting /\ (y < NUM_ROWS \/ y = NUM_ROWS)
    BY <1>1, WindowFields
  <2> DEFINE t == SetCursorPosition(w.screen, 0, y)
  <2>2. /\ t.NonScrollingRows = w.screen.NonScrollingRows /\ t.CursorCol = 0 /\ ~t.bWordwrap
        /\ t.ScrollsWithoutInput = w.screen.ScrollsWithoutInput
        /\ t.unread = w.screen.unread /\ t.lost = w.screen.lost
        /\ y < NUM_ROWS => CursorLine(t) = y
        /\ y = NUM_ROWS => CursorLine(t) = 0
    BY <1>1, <2>1, SetCursorFacts
  <2> HIDE DEF t
  <2>3. CursorLine(t) = (IF y = NUM_ROWS THEN 0 ELSE y)
    BY <1>1, <2>1, <2>2
  <2> QED
    BY <1>3, <2>2, <2>3 DEF OnlyScreen, Blanked, t
<1>5. EraseLine(w, line) = FoldLeft(ioPrintChar, there, seq)
  BY DEF EraseLine, PrintSpaces
<1> HIDE DEF there, more
<1>6. there \in S[0]
  BY <1>1, <1>4
<1>7. ASSUME NEW k \in 0..(NUM_COLS - 1), NEW v \in S[k]
      PROVE  ioPrintChar(v, seq[k + 1]) \in S[k + 1]
  <2> DEFINE u == ioPrintChar(v, Space)
             s == v.screen
  <2>1. k \in 0..NUM_COLS /\ k + 1 \in 0..NUM_COLS /\ k + 1 \in 1..NUM_COLS /\ k < NUM_COLS
    BY <1>1
  <2>2. S[k] = At(k) /\ S[k + 1] = At(k + 1) /\ seq[k + 1] = Space
    BY <2>1
  <2>3. /\ v \in Windowed /\ Blanked(s, j) /\ ~s.bWordwrap /\ s.CursorCol = k
        /\ CursorLine(s) = (IF y = NUM_ROWS THEN 0 ELSE y)
    BY <2>1, <2>2
  <2>4. Space \in Chars
    BY Zenon DEF Chars
  <2>5. OnlyScreen(v, u) /\ u.screen = ScreenPrintChar(s, Space)
    BY <2>3, <2>4, ioPrintCharKeeps
  <2>6. AtRest(s)
    BY <2>3, WindowFields
  <2> HIDE DEF u, S
  <2>7. (IF CursorLine(s) = NUM_ROWS - 1 THEN 1 ELSE 0) = more
    BY <1>2, <2>3
  <2>8. j + (IF CursorLine(s) = NUM_ROWS - 1 /\ s.CursorCol = NUM_COLS - 1 THEN 1 ELSE 0)
            <= NUM_ROWS - 1
    BY <1>1, <1>2, <2>7
  <2>9. /\ s.CursorCol < NUM_COLS - 1
              => /\ Blanked(u.screen, j) /\ CursorLine(u.screen) = CursorLine(s)
                 /\ u.screen.CursorCol = s.CursorCol + 1 /\ ~u.screen.bWordwrap
        /\ s.CursorCol = NUM_COLS - 1
              => Blanked(u.screen, j + (IF CursorLine(s) = NUM_ROWS - 1 THEN 1 ELSE 0))
    BY <2>3, <2>5, <2>6, <2>8, SpaceBlanks
  <2>10. u \in At(k + 1)
    <3>1. u \in Windowed
      BY <2>5 DEF OnlyScreen
    <3>2. CASE k < NUM_COLS - 1
      BY <1>1, <2>1, <2>3, <2>9, <3>1, <3>2
    <3>3. CASE k = NUM_COLS - 1
      BY <1>1, <2>1, <2>3, <2>7, <2>9, <3>1, <3>3
    <3> QED
      BY <1>1, <2>1, <3>2, <3>3
  <2> QED
    BY <2>2, <2>10 DEF u
<1>8. FoldLeft(ioPrintChar, there, seq) = Writing!Folded(there, seq)
  BY FoldsAgree, Zenon
<1>9. S[NUM_COLS] = At(NUM_COLS) /\ DOMAIN seq = 1..NUM_COLS
  BY <1>1
<1> HIDE DEF S, seq
<1>10. Writing!Folded(there, seq) \in S[NUM_COLS]
  BY <1>1, <1>6, <1>7, <1>9, Writing!FoldGoes
<1>11. \A v \in At(NUM_COLS) : Blanked(v.screen, j + more)
  OBVIOUS
<1>12. Blanked(EraseLine(w, line).screen, j + more)
  BY <1>5, <1>8, <1>9, <1>10, <1>11
<1> QED
  BY <1>12 DEF more

\* A window that is erased scrolls the screen if its lines, counted from the current
\* window, go up to the last one.
LEMMA EraseWindowBlanks ==
    ASSUME NEW w \in Windowed, NEW j \in Nat, Blanked(w.screen, j), j <= NUM_ROWS - 2,
           NEW windowNum \in WindowNums,
           \A line \in LinesOf(w, windowNum) :
              line + w.windowStart[w.curWindow] \in 0..NUM_ROWS,
           w.windowStart[windowNum] + w.windowStart[w.curWindow] <= NUM_ROWS - 1,
           NEW n, n = Cardinality(LinesOf(w, windowNum)), NEW more \in 0..1,
           more = (IF w.windowStart[windowNum] + w.windowStart[w.curWindow] + n > NUM_ROWS - 1
                   THEN 1 ELSE 0)
    PROVE  Blanked(ioEraseWindow(w, windowNum).screen, j + more)
<1> DEFINE first == w.windowStart[windowNum]
           offset == w.windowStart[w.curWindow]
           seq == [i \in 1..n |-> first + i - 1]
           saved == SaveCursor(w)
           M(k) == IF first + offset + k > NUM_ROWS - 1 THEN 1 ELSE 0
           At(k) == {v \in Windowed : OnlyScreen(saved, v) /\ Blanked(v.screen, j + M(k))}
           S == [k \in 0..n |-> At(k)]
           blank == FoldLeft(EraseLine, saved, seq)
<1>1. /\ n \in Nat /\ DOMAIN seq = 1..n /\ \A i \in 1..n : seq[i] \in LinesOf(w, windowNum)
      /\ \A i \in 1..n : seq[i] = first + i - 1
  BY LinesOfFacts
<1>2. first \in Nat /\ offset \in Nat /\ NUM_ROWS \in Nat /\ NUM_ROWS >= 3
  BY WindowFields, SizeFacts DEF Rows
<1>3. ioEraseWindow(w, windowNum) = RestoreCursor(blank)
  BY DEF ioEraseWindow
<1>4. SavesCursor(w, saved)
  BY SaveCursorSaves
<1>5. blank = Blanking!Folded(saved, seq)
  BY FoldsAgree, Zenon
<1>6. \A line \in LinesOf(w, windowNum) : line + offset \in 0..NUM_ROWS
  OBVIOUS
<1>7. first + offset <= NUM_ROWS - 1 /\ M(n) = more
  OBVIOUS
<1> HIDE DEF seq, saved, blank, first, offset
<1>8. saved \in S[0]
  <2>1. M(0) = 0 /\ j + 0 = j
    BY <1>2, <1>7
  <2>2. saved \in Windowed /\ OnlyScreen(saved, saved) /\ Blanked(saved.screen, j)
    BY <1>4 DEF SavesCursor, OnlyScreen
  <2> QED
    BY <1>1, <2>1, <2>2
<1>9. ASSUME NEW k \in 0..(n - 1), NEW v \in S[k] PROVE EraseLine(v, seq[k + 1]) \in S[k + 1]
  <2> DEFINE line == seq[k + 1]
             y == line + offset
             u == EraseLine(v, line)
  <2>1. k \in 0..n /\ k + 1 \in 0..n /\ k + 1 \in 1..n
    BY <1>1
  <2>2. S[k] = At(k) /\ S[k + 1] = At(k + 1)
    BY <2>1
  <2>3. v \in Windowed /\ OnlyScreen(saved, v) /\ Blanked(v.screen, j + M(k))
    BY <2>2
  <2>4. line = first + k /\ line \in Int /\ y \in 0..NUM_ROWS /\ y = first + offset + k
    <3>1. line = first + (k + 1) - 1 /\ line \in LinesOf(w, windowNum)
      BY <1>1, <2>1
    <3>2. y \in 0..NUM_ROWS
      BY <1>6, <3>1
    <3>3. k \in Nat
      BY <1>1
    <3> HIDE DEF line, S
    <3> QED
      BY <1>2, <3>1, <3>2, <3>3
  <2>5. v.windowStart[v.curWindow] = offset
    BY <1>4, <2>3 DEF OnlyScreen, SavesCursor, offset
  <2> HIDE DEF line
  <2> DEFINE m == IF y = NUM_ROWS - 1 THEN 1 ELSE 0
  <2>6. /\ j + M(k) \in Nat /\ j + M(k) + m = j + M(k + 1)
        /\ j + M(k) + m <= NUM_ROWS - 1
    BY <1>1, <1>2, <1>7, <2>1, <2>4
  <2>7. y = line + v.windowStart[v.curWindow]
    BY <2>5
  <2> HIDE DEF M, S, y
  <2>8. Blanked(u.screen, j + M(k) + m)
    BY <2>3, <2>4, <2>6, <2>7, EraseLineBlanks
  <2>9. OnlyScreen(v, u)
    BY <2>3, <2>4, <2>7, EraseLineKeeps
  <2> HIDE DEF m, u
  <2>10. u \in At(k + 1)
    BY <2>3, <2>6, <2>8, <2>9 DEF OnlyScreen
  <2> QED
    BY <2>2, <2>10 DEF u, line
<1>10. S[n] = At(n)
  BY <1>1
<1> HIDE DEF S
<1>11. Blanking!Folded(saved, seq) \in S[n]
  BY <1>1, <1>8, <1>9, Blanking!FoldGoes
<1>12. blank \in Windowed /\ OnlyScreen(saved, blank) /\ Blanked(blank.screen, j + more)
  <2>1. \A v \in At(n) : v \in Windowed /\ OnlyScreen(saved, v) /\ Blanked(v.screen, j + M(n))
    OBVIOUS
  <2> HIDE DEF At, M
  <2>2. blank \in At(n)
    BY <1>5, <1>10, <1>11
  <2> QED
    BY <1>7, <2>1, <2>2
<1>13. blank.cursorY[blank.curWindow] + blank.windowStart[blank.curWindow] \in Rows
  <2>1. blank.cursorY[blank.curWindow] + blank.windowStart[blank.curWindow]
            = CursorLine(w.screen)
    BY <1>4, <1>12 DEF OnlyScreen, SavesCursor
  <2> QED
    BY <2>1, WindowFields
<1>14. Blanked(RestoreCursor(blank).screen, j + more)
  <2> DEFINE x == blank.cursorX[blank.curWindow]
             y == blank.cursorY[blank.curWindow] + blank.windowStart[blank.curWindow]
  <2>1. x \in Cols /\ blank.screen \in Resting
    BY <1>12, WindowFields
  <2>2. y \in 0..NUM_ROWS
    BY <1>13, SizeFacts DEF Rows
  <2>3. RestoreCursor(blank).screen = SetCursorPosition(blank.screen, x, y)
    BY <1>12, <1>13, RestoreCursorKeeps
  <2> HIDE DEF x, y
  <2> QED
    BY <1>12, <2>1, <2>2, <2>3, SetCursorFacts DEF Blanked
<1> QED
  BY <1>3, <1>14
\* When the windows have been erased three lines have been counted.
LEMMA ResetPage ==
    ASSUME NUM_ROWS >= 4, NEW status \in BOOLEAN
    PROVE  Blanked(Start(status, 0).screen, 3)
<1>1. PICK reset : Fresh(reset, status)
                     /\ Start(status, 0) = FoldLeft(ioEraseWindow, reset, <<2, 0>>)
  BY ResetIsFresh
<1> DEFINE seq == <<2, 0>>
           At(k) == {v \in Windowed : /\ Erases(reset, v)
                                      /\ Blanked(v.screen, IF k = 2 THEN 3 ELSE 2)}
           S == [k \in 0..2 |-> At(k)]
           from == reset.windowStart[1]
<1>2. /\ NUM_ROWS \in Nat /\ NUM_ROWS >= 4 /\ 0 \in WindowNums /\ 2 \in WindowNums
      /\ DOMAIN seq = 1..2 /\ seq[1] = 2 /\ seq[2] = 0 /\ 2 \in Nat
  BY SizeFacts DEF WindowNums
<1>3. /\ reset \in Windowed /\ from \in 0..1 /\ reset.windowStart[0] = from
      /\ reset.windowStart[2] = 0 /\ reset.curWindow = 0
  BY <1>1 DEF Fresh
<1> HIDE DEF seq, from
<1>4. ASSUME NEW v, Erases(reset, v)
      PROVE  /\ v \in Windowed /\ v.windowStart[v.curWindow] = from
             /\ v.windowStart[2] = 0 /\ v.windowStart[0] = from
             /\ Cardinality(LinesOf(v, 2)) = from
             /\ Cardinality(LinesOf(v, 0)) = NUM_ROWS - from
             /\ \A windowNum \in WindowNums : \A line \in LinesOf(v, windowNum) :
                   line + v.windowStart[v.curWindow] \in 0..NUM_ROWS
  <2>1. /\ v \in Windowed /\ v.windowStart[v.curWindow] = from
        /\ v.windowStart[2] = 0 /\ v.windowStart[0] = from /\ v.windowStart[1] = from
    BY <1>3, <1>4 DEF Erases, from
  <2>2. LinesOf(v, 2) = 0..(from - 1) /\ LinesOf(v, 0) = from..(NUM_ROWS - 1)
    BY <2>1 DEF LinesOf
  <2>3. /\ Cardinality(0..(from - 1)) = IF 0 > from - 1 THEN 0 ELSE (from - 1) - 0 + 1
        /\ Cardinality(from..(NUM_ROWS - 1))
              = IF from > NUM_ROWS - 1 THEN 0 ELSE (NUM_ROWS - 1) - from + 1
    <3>1. 0 \in Int /\ from - 1 \in Int /\ from \in Int /\ NUM_ROWS - 1 \in Int
      BY <1>2, <1>3
    <3> QED
      BY <3>1, FS_Interval
  <2>4. /\ Cardinality(0..(from - 1)) = from
        /\ Cardinality(from..(NUM_ROWS - 1)) = NUM_ROWS - from
    BY <1>2, <1>3, <2>3
  <2> QED
    BY <1>1, <1>4, <2>1, <2>2, <2>4, FreshLines
<1>5. reset \in At(0)
  <2>1. Erases(reset, reset)
    BY <1>3 DEF Erases
  <2>2. Blanked(reset.screen, 2)
    BY <1>1, <1>2, ShowPage DEF Fresh, Blanked
  <2> QED
    BY <1>3, <2>1, <2>2
<1>6. ASSUME NEW v \in At(0) PROVE ioEraseWindow(v, 2) \in At(1)
  <2>1. Erases(reset, v) /\ v \in Windowed /\ Blanked(v.screen, 2)
    OBVIOUS
  <2>2. (IF v.windowStart[2] + v.windowStart[v.curWindow] + Cardinality(LinesOf(v, 2))
            > NUM_ROWS - 1 THEN 1 ELSE 0) = 0
    <3>1. v.windowStart[2] + v.windowStart[v.curWindow] + Cardinality(LinesOf(v, 2))
            = 0 + from + from
      BY <1>4, <2>1
    <3> QED
      BY <1>2, <1>3, <3>1
  <2>3. Blanked(ioEraseWindow(v, 2).screen, 2 + 0)
    <3>1. v.windowStart[2] + v.windowStart[v.curWindow] <= NUM_ROWS - 1
      BY <1>2, <1>3, <1>4, <2>1
    <3>2. 2 <= NUM_ROWS - 2 /\ 0 \in 0..1
      BY <1>2
    <3> QED
      BY <1>2, <1>4, <2>1, <2>2, <3>1, <3>2, EraseWindowBlanks
  <2>4. Erases(v, ioEraseWindow(v, 2))
    BY <1>2, <1>4, <2>1, ioEraseWindowErases
  <2> QED
    BY <2>1, <2>3, <2>4 DEF Erases
<1>7. ASSUME NEW v \in At(1) PROVE ioEraseWindow(v, 0) \in At(2)
  <2>1. Erases(reset, v) /\ v \in Windowed /\ Blanked(v.screen, 2)
    OBVIOUS
  <2>2. (IF v.windowStart[0] + v.windowStart[v.curWindow] + Cardinality(LinesOf(v, 0))
            > NUM_ROWS - 1 THEN 1 ELSE 0) = 1
    <3>1. v.windowStart[0] + v.windowStart[v.curWindow] + Cardinality(LinesOf(v, 0))
            = from + from + (NUM_ROWS - from)
      BY <1>4, <2>1
    <3> QED
      BY <1>2, <1>3, <3>1
  <2>3. Blanked(ioEraseWindow(v, 0).screen, 2 + 1)
    <3>1. v.windowStart[0] + v.windowStart[v.curWindow] <= NUM_ROWS - 1
      BY <1>2, <1>3, <1>4, <2>1
    <3>2. 2 <= NUM_ROWS - 2 /\ 1 \in 0..1
      BY <1>2
    <3> QED
      BY <1>2, <1>4, <2>1, <2>2, <3>1, <3>2, EraseWindowBlanks
  <2>4. Erases(v, ioEraseWindow(v, 0))
    BY <1>2, <1>4, <2>1, ioEraseWindowErases
  <2> QED
    BY <2>1, <2>3, <2>4 DEF Erases
<1>8. S[0] = At(0) /\ S[1] = At(1) /\ S[2] = At(2)
  OBVIOUS
<1> HIDE DEF At, S
<1>9. \A k \in 0..(2 - 1) : \A v \in S[k] : ioEraseWindow(v, seq[k + 1]) \in S[k + 1]
  <2>1. \A k \in 0..(2 - 1) : /\ k = 0 \/ k = 1
                              /\ k = 0 => k + 1 = 1
                              /\ k = 1 => k + 1 = 2
    OBVIOUS
  <2> QED
    BY <1>2, <1>6, <1>7, <1>8, <2>1, Zenon
<1>10. Erasing!Folded(reset, seq) \in S[2]
  BY <1>2, <1>5, <1>8, <1>9, Erasing!FoldGoes, Zenon
<1>11. Start(status, 0) \in At(2)
  BY <1>1, <1>8, <1>10, FoldsAgree, Zenon DEF seq
<1>12. \A v \in At(2) : Blanked(v.screen, 3)
  BY DEF At
<1> QED
  BY <1>11, <1>12

\* The page's invariant holds in the initial states, if the screen has four rows.
LEMMA InitPage ==
    ASSUME NUM_ROWS >= 4, Init PROVE InPage(Now)
<1>1. PICK status \in BOOLEAN, numLines \in 0..MaxSplit :
         \E start \in {Start(status, IF status THEN 0 ELSE numLines)} :
           /\ screen = [start.screen EXCEPT !.paged = FALSE]
           /\ curWindow = start.curWindow
  BY DEF Init
<1> DEFINE n == IF status THEN 0 ELSE numLines
           r == Start(status, 0)
           s == Start(status, n)
           line == n + r.windowStart[1]
<1>2. n \in 0..MaxSplit /\ (status => n = 0) /\ NUM_ROWS \in Nat
      /\ MaxSplit \in 0..(NUM_ROWS - 3)
  BY SizeFacts
<1>3. Placed(r) /\ (~status => r.windowStart[1] = 0) /\ Blanked(r.screen, 3)
  BY ResetPlaces, ResetPage
<1>4. \/ s = r
      \/ n # 0 /\ s = SplitAt(r, line)
  BY DEF Start, ioSplitWindow
<1>5. Placed(s)
  BY <1>2, StartPlaces
<1>6. screen = [s.screen EXCEPT !.paged = FALSE]
  BY <1>1
<1> HIDE DEF n, r
<1>7. ASSUME n # 0 PROVE line \in Rows /\ line <= NUM_ROWS - 3
  BY <1>2, <1>3, <1>7 DEF Rows
<1> HIDE DEF s, line
<1>8. /\ s.screen \in Screens /\ s.screen.unread = {} /\ ~s.screen.lost
      /\ s.screen.ScrollsWithoutInput = 3 /\ s.screen.NonScrollingRows <= NUM_ROWS - 3
  <2>1. r \in Windowed /\ r.screen \in Screens /\ s \in Windowed /\ s.screen \in Screens
    BY <1>3, <1>5, WindowFields DEF Placed
  <2>2. CASE s = r
    BY <1>2, <1>3, <2>1, <2>2 DEF Blanked
  <2>3. CASE n # 0 /\ s = SplitAt(r, line)
    <3> DEFINE t == [r.screen EXCEPT !.NonScrollingRows = line, !.paged = TRUE]
    <3>1. s.screen = t
      BY <2>1, <2>3 DEF SplitAt, Windowed
    <3>2. /\ t.NonScrollingRows = line /\ t.unread = r.screen.unread
          /\ t.lost = r.screen.lost
          /\ t.ScrollsWithoutInput = r.screen.ScrollsWithoutInput
      BY <2>1 DEF Screens
    <3> QED
      BY <1>3, <1>7, <2>1, <2>3, <3>1, <3>2 DEF Blanked
  <2> QED
    BY <1>4, <2>2, <2>3
<1>9. s.screen.NonScrollingRows \in Rows
  BY <1>8, ScreenFields
<1>10. /\ screen.unread = {} /\ ~screen.lost /\ screen.ScrollsWithoutInput = 3
       /\ screen.NonScrollingRows = s.screen.NonScrollingRows
  BY <1>6, <1>8 DEF Screens
<1>11. /\ screen.NonScrollingRows <= NUM_ROWS - 2 /\ screen.NonScrollingRows \in Int
       /\ 3 \in 2..(NUM_ROWS - screen.NonScrollingRows)
  BY <1>2, <1>8, <1>9, <1>10 DEF Rows
<1>12. Page(screen)
  BY <1>10, <1>11 DEF Page
<1>13. curWindow = 0
  <2>1. s.curWindow = 0
    BY <1>2, StartPlaces DEF s
  <2> QED
    BY <1>1, <2>1 DEF s, n
<1>14. Now.screen = screen /\ Now.curWindow = curWindow
  BY DEF Now
<1> QED
  BY <1>10, <1>11, <1>12, <1>13, <1>14 DEF InPage, ShowsPage, Wrapped

\* On a screen of four rows or more, on the first page after an input, no line scrolls off
\* before the user was asked to read it.
THEOREM WindowsFirstPage ==
    ASSUME Tidy, NUM_ROWS >= 4 PROVE Spec => []FirstPageIsRead
<1> DEFINE Inv == WInv /\ InPage(Now)
<1>1. Init => Inv
  BY InitPlaces, InitPage
<1>2. Inv /\ [Next]_vars => Inv'
  <2>1. ASSUME Inv, Next PROVE Inv'
    BY <2>1, NextKept, NextPage DEF Kept
  <2>2. ASSUME Inv, UNCHANGED vars PROVE Inv'
    <3>1. Now' = Now
      BY <2>2 DEF vars, windowVars, Now
    <3>2. InPage(Now')
      BY <2>2, <3>1
    <3> QED
      BY <2>2, <3>2, WInvStutters
  <2> QED
    BY <2>1, <2>2
<1>3. Inv => FirstPageIsRead
  <2>1. ASSUME InPage(Now) PROVE FirstPageIsRead
    BY <2>1 DEF InPage, ShowsPage, Page, Now, FirstPageIsRead
  <2> QED
    BY <2>1
<1> QED
  BY <1>1, <1>2, <1>3, PTL DEF Spec

=============================================================================
