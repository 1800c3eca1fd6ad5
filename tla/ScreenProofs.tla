----------------------------- MODULE ScreenProofs -----------------------------
(***************************************************************************)
(* Theorems about Screen, for any size of page, any output and any history *)
(* of commands: the page shows the end of what is printed on Paper, the    *)
(* line stands before the cursor, and the pointer spoils nothing.          *)
(***************************************************************************)
EXTENDS Screen, SequenceTheorems, WellFoundedInduction, TLAPS

-----------------------------------------------------------------------------
(* Pages *)

Row == [1 .. Width -> STRING]
Page == [above : Seq(Row), cells : [1 .. Height -> Row],
         x : 0 .. Width - 1, y : 0 .. Height - 1]

LEMMA SizesAreNat ==
  /\ Width \in Nat /\ Width > 0 /\ Height \in Nat /\ Height > 0
  /\ 0 \in 0 .. Width - 1 /\ 0 \in 0 .. Height - 1 /\ Height - 1 \in 0 .. Height - 1
  /\ 1 \in 1 .. Width /\ 1 \in 1 .. Height /\ Height \in 1 .. Height
<1>1. Width \in Nat \ {0} /\ Height \in Nat \ {0}
  BY ScreenAssumption
<1> QED
  BY <1>1, SMT

LEMMA Characters ==
  /\ Blank \in STRING /\ LF \in STRING /\ S \in STRING /\ Pointer \in STRING
  /\ Unset \in STRING /\ Typeable \subseteq STRING /\ Blank # LF /\ LF \notin Typeable
BY ScreenAssumption

LEMMA PageParts ==
  ASSUME NEW p \in Page
  PROVE  /\ p.above \in Seq(Row) /\ Len(p.above) \in Nat
         /\ p.cells \in [1 .. Height -> Row]
         /\ p.cells \in Seq(Row) /\ Len(p.cells) = Height
         /\ p.x \in 0 .. Width - 1 /\ p.y \in 0 .. Height - 1
         /\ p.x \in Nat /\ p.y \in Nat
         /\ p.x + 1 \in 1 .. Width /\ p.y + 1 \in 1 .. Height
         /\ p = [above |-> p.above, cells |-> p.cells, x |-> p.x, y |-> p.y]
<1>1. /\ p.above \in Seq(Row) /\ p.cells \in [1 .. Height -> Row]
      /\ p.x \in 0 .. Width - 1 /\ p.y \in 0 .. Height - 1
      /\ p = [above |-> p.above, cells |-> p.cells, x |-> p.x, y |-> p.y]
  BY DEF Page
<1>2. \A cells \in [1 .. Height -> Row] : cells \in Seq(Row) /\ Len(cells) = Height
  BY SizesAreNat, SMT
<1>3. Len(p.above) \in Nat
  BY <1>1, LenProperties
<1>4. /\ p.x \in Nat /\ p.y \in Nat
      /\ p.x + 1 \in 1 .. Width /\ p.y + 1 \in 1 .. Height
  BY <1>1, SizesAreNat, SMT
<1> QED
  BY <1>1, <1>2, <1>3, <1>4

(* The rows of a page on paper. *)
Rows(p) == p.above \o p.cells
Drawing(p, c) == [p EXCEPT !.cells[p.y + 1][p.x + 1] = c]

LEMMA SpacesType == Spaces(Width) \in Row /\ \A n \in Nat : Spaces(n) \in Seq(STRING) /\ Len(Spaces(n)) = n
<1>1. Spaces(Width) \in Row
  BY Characters DEF Spaces, Row
<1>2. ASSUME NEW n \in Nat
      PROVE  Spaces(n) \in Seq(STRING) /\ Len(Spaces(n)) = n
  <2>1. Spaces(n) \in [1 .. n -> STRING]
    BY Characters DEF Spaces
  <2> QED
    BY <2>1, SMT
<1> QED
  BY <1>1, <1>2

LEMMA ClearType == clear_screen \in Page
<1>1. <<>> \in Seq(Row)
  BY EmptySeq
<1> QED
  BY <1>1, SpacesType, SizesAreNat DEF clear_screen, Page

LEMMA CursorType ==
  ASSUME NEW p \in Page, NEW x \in 0 .. Width - 1, NEW y \in 0 .. Height - 1
  PROVE  /\ set_cursor(p, x, y) \in Page
         /\ set_cursor(p, x, y) = [above |-> p.above, cells |-> p.cells, x |-> x, y |-> y]
<1>1. p = [above |-> p.above, cells |-> p.cells, x |-> p.x, y |-> p.y]
  BY PageParts
<1>2. ASSUME NEW a, NEW b, NEW m, NEW n
      PROVE  /\ [[above |-> a, cells |-> b, x |-> m, y |-> n] EXCEPT !.x = x] =
                  [above |-> a, cells |-> b, x |-> x, y |-> n]
             /\ [[above |-> a, cells |-> b, x |-> x, y |-> n] EXCEPT !.y = y] =
                  [above |-> a, cells |-> b, x |-> x, y |-> y]
  OBVIOUS
<1>3. set_cursor(p, x, y) = [[p EXCEPT !.x = x] EXCEPT !.y = y]
  BY DEF set_cursor
<1> DEFINE q == [p EXCEPT !.x = x]
<1>4. q = [above |-> p.above, cells |-> p.cells, x |-> x, y |-> p.y]
  BY <1>1
<1>5. set_cursor(p, x, y) = [q EXCEPT !.y = y]
  BY <1>3
<1> HIDE DEF q
<1>6. set_cursor(p, x, y) = [above |-> p.above, cells |-> p.cells, x |-> x, y |-> y]
  BY <1>2, <1>4, <1>5, Zenon
<1> QED
  BY <1>6, PageParts DEF Page

LEMMA DrawingType ==
  ASSUME NEW p \in Page, NEW c \in STRING
  PROVE  /\ Drawing(p, c) \in Page
         /\ Drawing(p, c) = [above |-> p.above, x |-> p.x, y |-> p.y,
                             cells |-> [p.cells EXCEPT ![p.y + 1][p.x + 1] = c]]
<1> DEFINE cells == [p.cells EXCEPT ![p.y + 1][p.x + 1] = c]
<1>1. cells \in [1 .. Height -> Row]
  BY PageParts DEF Row
<1>2. Drawing(p, c) = [p EXCEPT !.cells = cells]
  BY DEF Drawing
<1> HIDE DEF cells
<1>3. p = [above |-> p.above, cells |-> p.cells, x |-> p.x, y |-> p.y]
  BY PageParts
<1>4. Drawing(p, c) = [above |-> p.above, x |-> p.x, y |-> p.y, cells |-> cells]
  BY <1>2, <1>3
<1>5. Drawing(p, c) \in Page
  BY <1>1, <1>4, PageParts DEF Page
<1> QED
  BY <1>4, <1>5 DEF cells

LEMMA ShiftType ==
  ASSUME NEW p \in Page
  PROVE  /\ shift_screen(p) \in Page
         /\ shift_screen(p).above = Append(p.above, p.cells[1])
         /\ shift_screen(p).cells = Append(Tail(p.cells), Spaces(Width))
         /\ shift_screen(p).x = 0 /\ shift_screen(p).y = Height - 1
         /\ \A r \in 1 .. Height :
              shift_screen(p).cells[r] = IF r = Height THEN Spaces(Width) ELSE p.cells[r + 1]
<1> DEFINE cells == Append(Tail(p.cells), Spaces(Width))
<1>1. p.cells \in Seq(Row) /\ Len(p.cells) = Height /\ p.cells # <<>>
  BY PageParts, SizesAreNat, EmptySeq
<1>2. /\ Tail(p.cells) \in Seq(Row) /\ Len(Tail(p.cells)) = Height - 1
      /\ \A r \in 1 .. Height - 1 : Tail(p.cells)[r] = p.cells[r + 1]
  BY <1>1, HeadTailProperties
<1>3. /\ cells \in Seq(Row) /\ Len(cells) = Height - 1 + 1
      /\ \A r \in 1 .. Height - 1 : cells[r] = p.cells[r + 1]
      /\ cells[Height - 1 + 1] = Spaces(Width)
  BY <1>2, SpacesType, AppendProperties
<1>4. Len(cells) = Height /\ cells[Height] = Spaces(Width)
      /\ \A r \in 1 .. Height : r # Height => r \in 1 .. Height - 1
  BY <1>3, SizesAreNat, SMT
<1>5. cells \in [1 .. Height -> Row]
  BY <1>3, <1>4, LenProperties
<1>6. Append(p.above, p.cells[1]) \in Seq(Row)
  BY PageParts, SizesAreNat, AppendProperties
<1> HIDE DEF cells
<1>7. shift_screen(p) = [above |-> Append(p.above, p.cells[1]), cells |-> cells,
                         x |-> 0, y |-> Height - 1]
  BY DEF shift_screen, cells
<1> QED
  BY <1>3, <1>4, <1>5, <1>6, <1>7, SizesAreNat DEF Page, cells

(* What putc does, a newline in the last row and the right edge included. *)
LEMMA PutcDoes ==
  ASSUME NEW p \in Page, NEW c \in STRING
  PROVE  /\ c = LF /\ p.y + 1 = Height => putc(p, c) = shift_screen(p)
         /\ c = LF /\ p.y + 1 # Height =>
              putc(p, c) = set_cursor(p, 0, p.y + 1) /\ p.y + 1 \in 0 .. Height - 1
         /\ c # LF /\ p.x + 1 # Width =>
              putc(p, c) = set_cursor(Drawing(p, c), p.x + 1, p.y) /\ p.x + 1 \in 0 .. Width - 1
         /\ c # LF /\ p.x + 1 = Width /\ p.y + 1 = Height =>
              putc(p, c) = shift_screen(Drawing(p, c))
         /\ c # LF /\ p.x + 1 = Width /\ p.y + 1 # Height =>
              putc(p, c) = set_cursor(Drawing(p, c), 0, p.y + 1) /\ p.y + 1 \in 0 .. Height - 1
<1>1. /\ p.y + 1 > Height - 1 <=> p.y + 1 = Height
      /\ p.x + 1 < Width <=> p.x + 1 # Width
      /\ p.x + 1 # Width => p.x + 1 \in 0 .. Width - 1
      /\ p.y + 1 # Height => p.y + 1 \in 0 .. Height - 1
  BY PageParts, SizesAreNat, SMT
<1> QED
  BY <1>1, Zenon DEF putc, Drawing

LEMMA PutcType ==
  ASSUME NEW p \in Page, NEW c \in STRING
  PROVE  putc(p, c) \in Page
<1>1. Drawing(p, c) \in Page
  BY DrawingType
<1>2. p.x \in 0 .. Width - 1 /\ p.y \in 0 .. Height - 1
  BY PageParts
<1>3. shift_screen(p) \in Page /\ shift_screen(Drawing(p, c)) \in Page
  BY <1>1, ShiftType
<1>4. \A q \in {p, Drawing(p, c)}, x \in 0 .. Width - 1, y \in 0 .. Height - 1 :
        set_cursor(q, x, y) \in Page
  BY <1>1, CursorType
<1> QED
  BY <1>2, <1>3, <1>4, PutcDoes, SizesAreNat

LEMMA CursorParts ==
  ASSUME NEW p \in Page, NEW x \in 0 .. Width - 1, NEW y \in 0 .. Height - 1
  PROVE  /\ set_cursor(p, x, y) \in Page
         /\ set_cursor(p, x, y).above = p.above /\ set_cursor(p, x, y).cells = p.cells
         /\ set_cursor(p, x, y).x = x /\ set_cursor(p, x, y).y = y
<1> DEFINE q == set_cursor(p, x, y)
<1>1. q \in Page /\ q = [above |-> p.above, cells |-> p.cells, x |-> x, y |-> y]
  BY CursorType
<1> HIDE DEF q
<1>2. q.above = p.above /\ q.cells = p.cells /\ q.x = x /\ q.y = y
  BY <1>1
<1> QED
  BY <1>1, <1>2 DEF q

LEMMA DrawingParts ==
  ASSUME NEW p \in Page, NEW c \in STRING
  PROVE  /\ Drawing(p, c) \in Page
         /\ Drawing(p, c).above = p.above
         /\ Drawing(p, c).x = p.x /\ Drawing(p, c).y = p.y
         /\ Drawing(p, c).cells = [p.cells EXCEPT ![p.y + 1][p.x + 1] = c]
<1> DEFINE q == Drawing(p, c)
<1>1. PICK cells : /\ cells = [p.cells EXCEPT ![p.y + 1][p.x + 1] = c]
                   /\ q = [above |-> p.above, x |-> p.x, y |-> p.y, cells |-> cells]
  BY DrawingType
<1>2. q \in Page
  BY DrawingType
<1> HIDE DEF q
<1>3. q.above = p.above /\ q.x = p.x /\ q.y = p.y /\ q.cells = cells
  BY <1>1
<1> QED
  BY <1>1, <1>2, <1>3 DEF q

LEMMA EqualPages ==
  ASSUME NEW p \in Page, NEW q \in Page, p.above = q.above, p.cells = q.cells,
         p.x = q.x, p.y = q.y
  PROVE  p = q
<1>1. /\ p = [above |-> p.above, cells |-> p.cells, x |-> p.x, y |-> p.y]
      /\ q = [above |-> q.above, cells |-> q.cells, x |-> q.x, y |-> q.y]
  BY PageParts
<1> QED
  BY <1>1

LEMMA PutcCursor ==
  ASSUME NEW p \in Page, NEW c \in STRING
  PROVE  /\ putc(p, c).x = IF c = LF \/ p.x + 1 = Width THEN 0 ELSE p.x + 1
         /\ putc(p, c).y = IF c # LF /\ p.x + 1 # Width THEN p.y
                           ELSE IF p.y + 1 = Height THEN Height - 1 ELSE p.y + 1
<1>1. Drawing(p, c) \in Page
  BY DrawingParts
<1>2. p.y \in 0 .. Height - 1
  BY PageParts
<1>3. \A q \in {p, Drawing(p, c)} : shift_screen(q).x = 0 /\ shift_screen(q).y = Height - 1
  BY <1>1, ShiftType
<1>4. \A q \in {p, Drawing(p, c)}, x \in 0 .. Width - 1, y \in 0 .. Height - 1 :
        set_cursor(q, x, y).x = x /\ set_cursor(q, x, y).y = y
  BY <1>1, CursorParts
<1> QED
  BY <1>2, <1>3, <1>4, PutcDoes, SizesAreNat

-----------------------------------------------------------------------------
(* The page on paper *)

SheetOf(p) ==
  [rows |-> Rows(p), row |-> Len(p.above) + p.y + 1, col |-> p.x + 1]

LEMMA RowsType ==
  ASSUME NEW p \in Page
  PROVE  /\ Rows(p) \in Seq(Row) /\ Len(Rows(p)) = Len(p.above) + Height
         /\ \A k \in 1 .. Len(p.above) + Height :
              Rows(p)[k] = IF k <= Len(p.above) THEN p.above[k]
                           ELSE p.cells[k - Len(p.above)]
<1>1. /\ p.above \in Seq(Row) /\ p.cells \in Seq(Row) /\ Len(p.cells) = Height
  BY PageParts
<1> QED
  BY <1>1, ConcatProperties DEF Rows

LEMMA RowsOfDrawing ==
  ASSUME NEW p \in Page, NEW c \in STRING
  PROVE  Rows(Drawing(p, c)) =
           [Rows(p) EXCEPT ![Len(p.above) + p.y + 1][p.x + 1] = c]
<1> DEFINE q == Drawing(p, c)
           n == Len(p.above)
           e == [Rows(p) EXCEPT ![n + p.y + 1][p.x + 1] = c]
           row == [Rows(p)[n + p.y + 1] EXCEPT ![p.x + 1] = c]
<1>1. /\ q \in Page /\ q.above = p.above
      /\ q.cells = [p.cells EXCEPT ![p.y + 1][p.x + 1] = c]
  BY DrawingType
<1>2. /\ n \in Nat /\ p.cells \in [1 .. Height -> Row] /\ p.y + 1 \in 1 .. Height
      /\ p.y \in Nat
  BY PageParts
<1>3. /\ Rows(p) \in Seq(Row) /\ Len(Rows(p)) = n + Height
      /\ Rows(q) \in Seq(Row) /\ Len(Rows(q)) = n + Height
      /\ \A k \in 1 .. n + Height :
           /\ Rows(p)[k] = IF k <= n THEN p.above[k] ELSE p.cells[k - n]
           /\ Rows(q)[k] = IF k <= n THEN p.above[k] ELSE q.cells[k - n]
  BY <1>1, RowsType
<1>4. /\ n + p.y + 1 \in 1 .. n + Height
      /\ \A k \in 1 .. n + Height :
           /\ k <= n => k # n + p.y + 1
           /\ ~(k <= n) => k - n \in 1 .. Height /\ (k - n = p.y + 1 <=> k = n + p.y + 1)
  <2> HIDE DEF n
  <2> QED
    BY <1>2, SizesAreNat, SMT
<1>5. Rows(p)[n + p.y + 1] = p.cells[p.y + 1]
  <2>1. ~(n + p.y + 1 <= n) /\ (n + p.y + 1) - n = p.y + 1
    BY <1>2, SMT
  <2> QED
    BY <1>3, <1>4, <2>1
<1>6. row = [p.cells[p.y + 1] EXCEPT ![p.x + 1] = c] /\ row = q.cells[p.y + 1]
  BY <1>1, <1>2, <1>5
<1>7. \A r \in 1 .. Height : q.cells[r] = IF r = p.y + 1 THEN row ELSE p.cells[r]
  BY <1>1, <1>2, <1>6
<1>8. row \in Row
  <2>1. q.cells \in [1 .. Height -> Row]
    BY <1>1, PageParts
  <2> QED
    BY <1>2, <1>6, <2>1
<1>9. e = [Rows(p) EXCEPT ![n + p.y + 1] = row]
  OBVIOUS
<1> HIDE DEF e, row, q, n
<1>10. /\ e \in Seq(Row) /\ Len(e) = n + Height
       /\ \A k \in 1 .. n + Height : e[k] = IF k = n + p.y + 1 THEN row ELSE Rows(p)[k]
  BY <1>3, <1>4, <1>8, <1>9, ExceptSeq
<1>11. \A k \in 1 .. n + Height : Rows(q)[k] = e[k]
  <2> TAKE k \in 1 .. n + Height
  <2>1. CASE k <= n
    BY <1>3, <1>4, <1>10, <2>1
  <2>2. CASE ~(k <= n)
    BY <1>3, <1>4, <1>7, <1>10, <2>2
  <2> QED
    BY <2>1, <2>2
<1>12. Rows(q) = e
  BY <1>3, <1>10, <1>11, SeqEqual
<1> QED
  BY <1>12 DEF e, q, n

LEMMA RowsOfShift ==
  ASSUME NEW p \in Page
  PROVE  /\ Rows(shift_screen(p)) = Append(Rows(p), Spaces(Width))
         /\ Len(shift_screen(p).above) = Len(p.above) + 1
<1> DEFINE q == shift_screen(p)
           n == Len(p.above)
           e == Append(Rows(p), Spaces(Width))
<1>1. /\ q \in Page /\ q.above = Append(p.above, p.cells[1])
      /\ \A r \in 1 .. Height :
           q.cells[r] = IF r = Height THEN Spaces(Width) ELSE p.cells[r + 1]
  BY ShiftType
<1>2. n \in Nat /\ p.above \in Seq(Row) /\ p.cells[1] \in Row
  BY PageParts, SizesAreNat
<1>3. /\ Len(q.above) = n + 1
      /\ \A k \in 1 .. n : q.above[k] = p.above[k]
      /\ q.above[n + 1] = p.cells[1]
  BY <1>1, <1>2, AppendProperties
<1>4. /\ Rows(p) \in Seq(Row) /\ Len(Rows(p)) = n + Height
      /\ Rows(q) \in Seq(Row) /\ Len(Rows(q)) = n + 1 + Height
      /\ \A k \in 1 .. n + Height :
           Rows(p)[k] = IF k <= n THEN p.above[k] ELSE p.cells[k - n]
      /\ \A k \in 1 .. n + 1 + Height :
           Rows(q)[k] = IF k <= n + 1 THEN q.above[k] ELSE q.cells[k - (n + 1)]
  BY <1>1, <1>3, RowsType
<1>5. /\ e \in Seq(Row) /\ Len(e) = n + Height + 1
      /\ \A k \in 1 .. n + Height : e[k] = Rows(p)[k]
      /\ e[n + Height + 1] = Spaces(Width)
  BY <1>4, SpacesType, AppendProperties
<1> HIDE DEF q, n, e
<1>6. n + 1 + Height = n + Height + 1
  BY <1>2, SizesAreNat, SMT
<1>7. ASSUME NEW k \in 1 .. n + 1 + Height
      PROVE  Rows(q)[k] = e[k]
  <2>1. CASE k <= n
    <3>1. k \in 1 .. n /\ k \in 1 .. n + Height /\ k <= n + 1
      BY <1>2, <2>1, SizesAreNat, SMT
    <3> QED
      BY <1>3, <1>4, <1>5, <2>1, <3>1
  <2>2. CASE k = n + 1
    <3>1. k \in 1 .. n + Height /\ ~(k <= n) /\ k - n = 1 /\ k <= n + 1
      BY <1>2, <2>2, SizesAreNat, SMT
    <3> QED
      BY <1>3, <1>4, <1>5, <2>2, <3>1
  <2>3. CASE n + 1 < k /\ k <= n + Height
    <3>1. /\ k \in 1 .. n + Height /\ ~(k <= n) /\ ~(k <= n + 1)
          /\ k - (n + 1) \in 1 .. Height /\ k - (n + 1) # Height /\ k - (n + 1) + 1 = k - n
      BY <1>2, <2>3, SizesAreNat, SMT
    <3> QED
      BY <1>1, <1>4, <1>5, <3>1
  <2>4. CASE k = n + Height + 1
    <3>1. ~(k <= n + 1) /\ k - (n + 1) = Height /\ Height \in 1 .. Height
      BY <1>2, <2>4, SizesAreNat, SMT
    <3> QED
      BY <1>1, <1>4, <1>5, <2>4, <3>1
  <2> QED
    BY <1>2, <2>1, <2>2, <2>3, <2>4, SizesAreNat, SMT
<1>8. Rows(q) = e
  BY <1>4, <1>5, <1>6, <1>7, SeqEqual
<1> QED
  BY <1>3, <1>8 DEF q, n, e

LEMMA PaperBlank == \A n : Sheet!Blanks(n) = Spaces(n)
BY DEF Sheet!Blanks, Spaces

LEMMA InkedShows ==
  ASSUME NEW p \in Page, NEW c \in STRING
  PROVE  [SheetOf(p) EXCEPT !.rows[SheetOf(p).row][SheetOf(p).col] = c]
           = SheetOf(Drawing(p, c))
<1> DEFINE s == SheetOf(p)
           d == Drawing(p, c)
           inked == [s EXCEPT !.rows[s.row][s.col] = c]
<1>1. /\ s = [rows |-> Rows(p), row |-> Len(p.above) + p.y + 1, col |-> p.x + 1]
      /\ s.rows = Rows(p) /\ s.row = Len(p.above) + p.y + 1 /\ s.col = p.x + 1
  BY DEF SheetOf
<1>2. d.above = p.above /\ d.x = p.x /\ d.y = p.y
  BY DrawingParts
<1>3. inked = [s EXCEPT !.rows = [s.rows EXCEPT ![s.row][s.col] = c]]
  OBVIOUS
<1>4. [s.rows EXCEPT ![s.row][s.col] = c] = Rows(d)
  BY <1>1, RowsOfDrawing
<1>5. inked = [s EXCEPT !.rows = Rows(d)]
  BY <1>3, <1>4
<1> HIDE DEF s, d, inked
<1>6. inked = [rows |-> Rows(d), row |-> Len(p.above) + p.y + 1, col |-> p.x + 1]
  BY <1>1, <1>5
<1>7. inked = SheetOf(d)
  BY <1>2, <1>6 DEF SheetOf
<1> QED
  BY <1>7 DEF s, d, inked

(* A character goes to the same place on both. *)
LEMMA InkShows ==
  ASSUME NEW p \in Page, NEW c \in STRING
  PROVE  SheetOf(putc(p, c)) = Sheet!Ink(SheetOf(p), c)
<1> DEFINE s == SheetOf(p)
           n == Len(p.above)
           d == Drawing(p, c)
           inked == [s EXCEPT !.rows[s.row][s.col] = c]
<1>1. s = [rows |-> Rows(p), row |-> n + p.y + 1, col |-> p.x + 1]
  BY DEF SheetOf
<1>2. n \in Nat /\ p.x \in Nat /\ p.y \in Nat /\ p.y + 1 \in 1 .. Height
  BY PageParts
<1>3. /\ d \in Page /\ d.above = p.above /\ d.x = p.x /\ d.y = p.y
  <2>1. d \in Page
    BY DrawingType
  <2>2. PICK cells : d = [above |-> p.above, x |-> p.x, y |-> p.y, cells |-> cells]
    BY DrawingType
  <2> HIDE DEF d
  <2> QED
    BY <2>1, <2>2
<1>4. Len(Rows(p)) = n + Height /\ Len(Rows(d)) = n + Height
  BY <1>3, RowsType
<1>5. inked = [rows |-> Rows(d), row |-> n + p.y + 1, col |-> p.x + 1]
  <2>1. inked = SheetOf(d)
    BY InkedShows
  <2> HIDE DEF s, d, n, inked
  <2> QED
    BY <1>3, <2>1 DEF SheetOf, n
<1>6. Sheet!Ink(s, c) = IF c = LF THEN Sheet!NextRow(s)
                        ELSE IF p.x + 1 = Width THEN Sheet!NextRow(inked)
                        ELSE [inked EXCEPT !.col = @ + 1]
  <2>1. s.col = p.x + 1
    BY <1>1
  <2> QED
    BY <2>1 DEF Sheet!Ink
<1>7. ASSUME NEW q \in Page, Len(q.above) = n, q.y = p.y,
             NEW t, t = [rows |-> Rows(q), row |-> n + p.y + 1, col |-> p.x + 1]
      PROVE  Sheet!NextRow(t) =
               [rows |-> IF p.y + 1 = Height THEN Append(Rows(q), Spaces(Width))
                         ELSE Rows(q),
                row |-> n + p.y + 2, col |-> 1]
  <2>1. t.rows = Rows(q) /\ t.row = n + p.y + 1
    BY <1>7
  <2>2. t.row = Len(t.rows) <=> p.y + 1 = Height
    <3>1. Len(Rows(q)) = n + Height
      BY <1>7, RowsType
    <3> HIDE DEF n
    <3> QED
      BY <1>2, <2>1, <3>1, SizesAreNat, SMT
  <2>3. t.row + 1 = n + p.y + 2
    BY <1>2, <2>1, SMT
  <2> QED
    BY <2>1, <2>2, <2>3, PaperBlank DEF Sheet!NextRow
<1>8. ASSUME NEW q \in Page, Len(q.above) = n, p.y + 1 = Height
      PROVE  SheetOf(shift_screen(q)) =
               [rows |-> Append(Rows(q), Spaces(Width)), row |-> n + p.y + 2, col |-> 1]
  <2>1. /\ shift_screen(q).x = 0 /\ shift_screen(q).y = Height - 1
        /\ Len(shift_screen(q).above) = n + 1
        /\ Rows(shift_screen(q)) = Append(Rows(q), Spaces(Width))
    BY <1>8, ShiftType, RowsOfShift
  <2>2. n + 1 + (Height - 1) + 1 = n + p.y + 2 /\ 0 + 1 = 1
    BY <1>2, <1>8, SizesAreNat, SMT
  <2> HIDE DEF n
  <2> QED
    BY <2>1, <2>2, Zenon DEF SheetOf
<1>9. ASSUME NEW q \in Page, Len(q.above) = n, NEW x \in 0 .. Width - 1,
             NEW y \in 0 .. Height - 1
      PROVE  SheetOf(set_cursor(q, x, y)) =
               [rows |-> Rows(q), row |-> n + y + 1, col |-> x + 1]
  <2>1. set_cursor(q, x, y) = [above |-> q.above, cells |-> q.cells, x |-> x, y |-> y]
    BY CursorType
  <2> DEFINE t == set_cursor(q, x, y)
  <2>2. t.above = q.above /\ t.cells = q.cells /\ t.x = x /\ t.y = y
    BY <2>1
  <2> HIDE DEF t, n
  <2>3. SheetOf(t) = [rows |-> Rows(q), row |-> n + y + 1, col |-> x + 1]
    BY <1>9, <2>2, Zenon DEF SheetOf, Rows
  <2> QED
    BY <2>3 DEF t
<1>10. n + (p.y + 1) + 1 = n + p.y + 2 /\ 0 + 1 = 1
  BY <1>2, SMT
<1> HIDE DEF s, n, d, inked
<1>11. CASE c = LF
  <2>1. Sheet!Ink(s, c) = Sheet!NextRow(s)
    BY <1>6, <1>11
  <2>2. CASE p.y + 1 = Height
    BY <1>1, <1>7, <1>8, <1>11, <2>1, <2>2, PutcDoes DEF n, s
  <2>3. CASE p.y + 1 # Height
    BY <1>1, <1>7, <1>9, <1>10, <1>11, <2>1, <2>3, PutcDoes, SizesAreNat DEF n, s
  <2> QED
    BY <2>2, <2>3
<1>12. CASE c # LF /\ p.x + 1 = Width
  <2>1. Sheet!Ink(s, c) = Sheet!NextRow(inked)
    BY <1>6, <1>12
  <2>2. CASE p.y + 1 = Height
    BY <1>3, <1>5, <1>7, <1>8, <1>12, <2>1, <2>2, PutcDoes DEF n, d, s
  <2>3. CASE p.y + 1 # Height
    BY <1>3, <1>5, <1>7, <1>9, <1>10, <1>12, <2>1, <2>3, PutcDoes, SizesAreNat DEF n, d, s
  <2> QED
    BY <2>2, <2>3
<1>13. CASE c # LF /\ p.x + 1 # Width
  <2>1. Sheet!Ink(s, c) = [inked EXCEPT !.col = @ + 1]
    BY <1>6, <1>13
  <2>2. Sheet!Ink(s, c) = [rows |-> Rows(d), row |-> n + p.y + 1, col |-> p.x + 1 + 1]
    BY <1>5, <2>1
  <2>3. p.y \in 0 .. Height - 1
    BY PageParts
  <2> QED
    BY <1>3, <1>9, <1>13, <2>2, <2>3, PutcDoes DEF n, d, s
<1> QED
  BY <1>11, <1>12, <1>13

-----------------------------------------------------------------------------
(* Printing, character by character *)

(* Induction up to a bound, with a set for the predicate. *)
LEMMA Inductive ==
  ASSUME NEW N \in Nat, NEW T, 0 \in T, \A n \in 1 .. N : n - 1 \in T => n \in T
  PROVE  N \in T
<1> SUFFICES ASSUME N \notin T
             PROVE  FALSE
  OBVIOUS
<1> DEFINE R == OpToRel(<, Nat)
           U == {n \in 0 .. N : n \notin T}
<1>1. IsWellFoundedOn(R, Nat)
  BY NatLessThanWellFounded
<1>2. U \in SUBSET Nat /\ U # {}
  BY SMT
<1> HIDE DEF R
<1>3. PICK n \in U : \A k \in U : ~ (<<k, n>> \in R)
  BY <1>1, <1>2, WFMin
<1>4. \A x, y \in Nat : <<y, x>> \in R <=> y < x
  BY SMT DEF R, OpToRel
<1>5. n \in 0 .. N /\ n \notin T /\ n # 0
  BY <1>3
<1>6. n \in 1 .. N /\ n - 1 \in Nat /\ n \in Nat /\ n - 1 < n /\ n - 1 \in 0 .. N
  BY <1>5, SMT
<1>7. n - 1 \notin U
  BY <1>3, <1>4, <1>6
<1> QED
  BY <1>5, <1>6, <1>7

LEMMA PutsSteps ==
  ASSUME NEW p, NEW s, Len(s) \in Nat
  PROVE  \E f : /\ f[0] = p
                /\ \A n \in 1 .. Len(s) : f[n] = putc(f[n - 1], s[n])
                /\ puts(p, s) = f[Len(s)]
<1> DEFINE Prints(f, n) ==
             f = [k \in 0 .. n |-> IF k = 0 THEN p ELSE putc(f[k - 1], s[k])]
           T == {n \in 0 .. Len(s) : \E f : Prints(f, n)}
<1>1. 0 \in T
  <2>1. Prints([k \in 0 .. 0 |-> p], 0)
    BY SMT
  <2>2. 0 \in 0 .. Len(s)
    BY SMT
  <2> QED
    BY <2>1, <2>2
<1>2. ASSUME NEW n \in 1 .. Len(s), n - 1 \in T
      PROVE  n \in T
  <2>1. PICK f : Prints(f, n - 1)
    BY <1>2
  <2> DEFINE g == [k \in 0 .. n |-> IF k = n THEN putc(f[n - 1], s[n]) ELSE f[k]]
  <2>2. n # 0 /\ n \in 0 .. Len(s) /\ n \in 0 .. n /\ 0 \in 0 .. n
        /\ n - 1 \in 0 .. n /\ n - 1 # n
    BY SMT
  <2>3. \A k \in 0 .. n : k # n => k \in 0 .. n - 1
                                   /\ (k # 0 => k - 1 \in 0 .. n /\ k - 1 # n)
    BY SMT
  <2>4. \A k \in 0 .. n - 1 : f[k] = IF k = 0 THEN p ELSE putc(f[k - 1], s[k])
    BY <2>1
  <2>5. ASSUME NEW k \in 0 .. n
        PROVE  g[k] = IF k = 0 THEN p ELSE putc(g[k - 1], s[k])
    <3>1. CASE k = n
      BY <2>2, <3>1
    <3>2. CASE k # n
      BY <2>3, <2>4, <3>2
    <3> QED
      BY <3>1, <3>2
  <2>6. Prints(g, n)
    <3>1. g = [k \in 0 .. n |-> g[k]]
      OBVIOUS
    <3> HIDE DEF g
    <3> QED
      BY <2>5, <3>1
  <2> QED
    BY <2>2, <2>6
<1>3. \E f : Prints(f, Len(s))
  <2> HIDE DEF T
  <2>1. Len(s) \in T
    BY <1>1, <1>2, Inductive
  <2> QED
    BY <2>1 DEF T
<1> DEFINE h == CHOOSE f : Prints(f, Len(s))
<1>4. Prints(h, Len(s))
  BY <1>3
<1>5. puts(p, s) = h[Len(s)]
  BY DEF puts
<1> HIDE DEF h
<1>6. 0 \in 0 .. Len(s) /\ \A n \in 1 .. Len(s) : n \in 0 .. Len(s) /\ n # 0
  BY SMT
<1> QED
  BY <1>4, <1>5, <1>6

LEMMA PrintedSteps ==
  ASSUME NEW t, NEW s, Len(s) \in Nat
  PROVE  \E f : /\ f[0] = t
                /\ \A n \in 1 .. Len(s) : f[n] = Sheet!Ink(f[n - 1], s[n])
                /\ Sheet!Printed(t, s) = f[Len(s)]
<1> DEFINE Prints(f, n) ==
             f = [k \in 0 .. n |-> IF k = 0 THEN t ELSE Sheet!Ink(f[k - 1], s[k])]
           T == {n \in 0 .. Len(s) : \E f : Prints(f, n)}
<1>1. 0 \in T
  <2>1. Prints([k \in 0 .. 0 |-> t], 0)
    BY SMT
  <2>2. 0 \in 0 .. Len(s)
    BY SMT
  <2> QED
    BY <2>1, <2>2
<1>2. ASSUME NEW n \in 1 .. Len(s), n - 1 \in T
      PROVE  n \in T
  <2>1. PICK f : Prints(f, n - 1)
    BY <1>2
  <2> DEFINE g == [k \in 0 .. n |-> IF k = n THEN Sheet!Ink(f[n - 1], s[n]) ELSE f[k]]
  <2>2. n # 0 /\ n \in 0 .. Len(s) /\ n \in 0 .. n /\ 0 \in 0 .. n
        /\ n - 1 \in 0 .. n /\ n - 1 # n
    BY SMT
  <2>3. \A k \in 0 .. n : k # n => k \in 0 .. n - 1
                                   /\ (k # 0 => k - 1 \in 0 .. n /\ k - 1 # n)
    BY SMT
  <2>4. \A k \in 0 .. n - 1 : f[k] = IF k = 0 THEN t ELSE Sheet!Ink(f[k - 1], s[k])
    BY <2>1
  <2>5. ASSUME NEW k \in 0 .. n
        PROVE  g[k] = IF k = 0 THEN t ELSE Sheet!Ink(g[k - 1], s[k])
    <3>1. CASE k = n
      BY <2>2, <3>1
    <3>2. CASE k # n
      BY <2>3, <2>4, <3>2
    <3> QED
      BY <3>1, <3>2
  <2>6. Prints(g, n)
    <3>1. g = [k \in 0 .. n |-> g[k]]
      OBVIOUS
    <3> HIDE DEF g
    <3> QED
      BY <2>5, <3>1
  <2> QED
    BY <2>2, <2>6
<1>3. \E f : Prints(f, Len(s))
  <2> HIDE DEF T
  <2>1. Len(s) \in T
    BY <1>1, <1>2, Inductive
  <2> QED
    BY <2>1 DEF T
<1> DEFINE h == CHOOSE f : Prints(f, Len(s))
<1>4. Prints(h, Len(s))
  BY <1>3
<1>5. Sheet!Printed(t, s) = h[Len(s)]
  BY DEF Sheet!Printed
<1> HIDE DEF h
<1>6. 0 \in 0 .. Len(s) /\ \A n \in 1 .. Len(s) : n \in 0 .. Len(s) /\ n # 0
  BY SMT
<1> QED
  BY <1>4, <1>5, <1>6

LEMMA PutsShows ==
  ASSUME NEW p \in Page, NEW s \in Seq(STRING)
  PROVE  /\ puts(p, s) \in Page
         /\ SheetOf(puts(p, s)) = Sheet!Printed(SheetOf(p), s)
<1>1. Len(s) \in Nat /\ \A n \in 1 .. Len(s) : s[n] \in STRING
  BY LenProperties, ElementOfSeq
<1>2. PICK f : /\ f[0] = p
               /\ \A n \in 1 .. Len(s) : f[n] = putc(f[n - 1], s[n])
               /\ puts(p, s) = f[Len(s)]
  BY <1>1, PutsSteps
<1>3. PICK g : /\ g[0] = SheetOf(p)
               /\ \A n \in 1 .. Len(s) : g[n] = Sheet!Ink(g[n - 1], s[n])
               /\ Sheet!Printed(SheetOf(p), s) = g[Len(s)]
  BY <1>1, PrintedSteps
<1> DEFINE T == {n \in 0 .. Len(s) : f[n] \in Page /\ SheetOf(f[n]) = g[n]}
<1>4. 0 \in T
  BY <1>1, <1>2, <1>3, SMT
<1>5. \A n \in 1 .. Len(s) : n - 1 \in T => n \in T
  <2> TAKE n \in 1 .. Len(s)
  <2> HAVE n - 1 \in T
  <2>1. n \in 0 .. Len(s)
    BY SMT
  <2> QED
    BY <1>1, <1>2, <1>3, <2>1, PutcType, InkShows
<1>6. Len(s) \in T
  <2> HIDE DEF T
  <2> QED
    BY <1>1, <1>4, <1>5, Inductive
<1> QED
  BY <1>2, <1>3, <1>6

-----------------------------------------------------------------------------
(* The cells before the cursor *)

Cursor(p) == p.y * Width + p.x
CellOf(p, k) == p.cells[(k \div Width) + 1][(k % Width) + 1]

(* The first n characters of s stand before the cursor, as far as they     *)
(* have not scrolled off.                                                  *)
ShownTo(p, s, n) ==
  \A k \in 1 .. n :
    Cursor(p) - n + k > 0 => CellOf(p, Cursor(p) - n + k - 1) = s[k]

LEMMA Quotient ==
  ASSUME NEW b \in Nat, b > 0, NEW q \in Nat, NEW r \in Nat, r < b
  PROVE  (q * b + r) \div b = q /\ (q * b + r) % b = r
BY SMT

LEMMA QuotientBelow ==
  ASSUME NEW b \in Nat, b > 0, NEW n \in Nat, NEW k \in Nat, k < n * b
  PROVE  /\ k \div b \in Nat /\ k \div b < n
         /\ k % b \in Nat /\ k % b < b
         /\ k = (k \div b) * b + (k % b)
BY SMT

LEMMA CursorPlace ==
  ASSUME NEW p \in Page
  PROVE  /\ Cursor(p) \in Nat /\ Cursor(p) < Height * Width
         /\ \A k \in Nat : k < Height * Width =>
              /\ (k \div Width) + 1 \in 1 .. Height /\ (k % Width) + 1 \in 1 .. Width
              /\ k = Cursor(p) <=> k \div Width = p.y /\ k % Width = p.x
<1>1. /\ p.x \in Nat /\ p.y \in Nat /\ p.x < Width /\ p.y <= Height - 1
      /\ Width \in Nat /\ Width > 0 /\ Height \in Nat
  BY PageParts, SizesAreNat, SMT
<1> DEFINE a == p.x
           b == p.y
           c == b * Width + a
<1>2. a \in Nat /\ b \in Nat /\ a < Width /\ b <= Height - 1 /\ Cursor(p) = c
  BY <1>1 DEF Cursor
<1> HIDE DEF a, b
<1>3. c \in Nat /\ c < Height * Width
  <2>1. b * Width <= (Height - 1) * Width /\ (Height - 1) * Width + Width = Height * Width
        /\ b * Width \in Nat
    BY <1>1, <1>2, SMT
  <2>2. (Height - 1) * Width \in Int /\ Height * Width \in Int
    BY <1>1, SMT
  <2> HIDE DEF c
  <2>3. c = b * Width + a
    BY DEF c
  <2> DEFINE u == b * Width
             v == (Height - 1) * Width
             w == Height * Width
  <2>4. u <= v /\ v + Width = w /\ u \in Nat /\ v \in Int /\ w \in Int /\ c = u + a
    BY <2>1, <2>2, <2>3
  <2> HIDE DEF u, v, w
  <2>5. c \in Nat /\ c < w
    BY <1>1, <1>2, <2>4, SMT
  <2> QED
    BY <2>5 DEF w
<1>4. c \div Width = b /\ c % Width = a
  BY <1>1, <1>2, Quotient
<1>5. ASSUME NEW k \in Nat, k < Height * Width
      PROVE  /\ (k \div Width) + 1 \in 1 .. Height /\ (k % Width) + 1 \in 1 .. Width
             /\ k = c <=> k \div Width = b /\ k % Width = a
  <2>1. /\ k \div Width \in Nat /\ k \div Width < Height
        /\ k % Width \in Nat /\ k % Width < Width
        /\ k = (k \div Width) * Width + (k % Width)
    BY <1>1, <1>5, QuotientBelow
  <2>2. (k \div Width) + 1 \in 1 .. Height /\ (k % Width) + 1 \in 1 .. Width
    <3> DEFINE m == k \div Width
               n == k % Width
    <3>1. m \in Nat /\ m < Height /\ n \in Nat /\ n < Width
      BY <2>1
    <3> HIDE DEF m, n
    <3>2. m + 1 \in 1 .. Height /\ n + 1 \in 1 .. Width
      BY <1>1, <3>1, SMT
    <3> QED
      BY <3>2 DEF m, n
  <2>3. k \div Width = b /\ k % Width = a => k = c
    BY <2>1
  <2> QED
    BY <1>4, <2>2, <2>3
<1> QED
  BY <1>2, <1>3, <1>5 DEF a, b

LEMMA CellDrawn ==
  ASSUME NEW p \in Page, NEW c \in STRING, NEW k \in Nat, k < Height * Width
  PROVE  CellOf(Drawing(p, c), k) = IF k = Cursor(p) THEN c ELSE CellOf(p, k)
<1>1. PICK cells : /\ cells = [p.cells EXCEPT ![p.y + 1][p.x + 1] = c]
                   /\ Drawing(p, c) = [above |-> p.above, x |-> p.x, y |-> p.y,
                                       cells |-> cells]
  BY DrawingType
<1>2. Drawing(p, c).cells = [p.cells EXCEPT ![p.y + 1][p.x + 1] = c]
  BY <1>1
<1> DEFINE r == k \div Width
           m == k % Width
<1>3. /\ r + 1 \in 1 .. Height /\ m + 1 \in 1 .. Width
      /\ k = Cursor(p) <=> r = p.y /\ m = p.x
  BY CursorPlace
<1>4. r \in Int /\ m \in Int /\ p.x \in Nat /\ p.y \in Nat
      /\ p.x + 1 \in 1 .. Width /\ p.y + 1 \in 1 .. Height
      /\ p.cells \in [1 .. Height -> [1 .. Width -> STRING]]
  BY PageParts, SizesAreNat, SMT DEF Row
<1> HIDE DEF r, m
<1>5. (r + 1 = p.y + 1 <=> r = p.y) /\ (m + 1 = p.x + 1 <=> m = p.x)
  BY <1>4, SMT
<1>6. Drawing(p, c).cells[r + 1][m + 1] =
        IF r + 1 = p.y + 1 /\ m + 1 = p.x + 1 THEN c ELSE p.cells[r + 1][m + 1]
  BY <1>2, <1>3, <1>4
<1> QED
  BY <1>3, <1>5, <1>6 DEF CellOf, r, m

LEMMA CellShifted ==
  ASSUME NEW p \in Page, NEW k \in Nat, k + Width < Height * Width
  PROVE  CellOf(shift_screen(p), k) = CellOf(p, k + Width)
<1> DEFINE r == k \div Width
           m == k % Width
<1>1. Width \in Nat /\ Width > 0 /\ Height \in Nat
  BY SizesAreNat
<1>2. k < Height * Width /\ (Height - 1) * Width = Height * Width - Width
  BY <1>1, SMT
<1>3. k < (Height - 1) * Width /\ Height - 1 \in Nat
  <2> DEFINE w == Height * Width
             v == (Height - 1) * Width
  <2>1. w \in Nat /\ v = w - Width /\ k + Width < w
    BY <1>1, <1>2, SMT
  <2> HIDE DEF w, v
  <2>2. k < v
    BY <1>1, <2>1, SMT
  <2> QED
    BY <2>2, SizesAreNat, SMT DEF v
<1>4. /\ r \in Nat /\ r < Height - 1 /\ m \in Nat /\ m < Width /\ k = r * Width + m
  BY <1>1, <1>3, QuotientBelow
<1> HIDE DEF r, m
<1>5. k + Width = (r + 1) * Width + m /\ r + 1 \in Nat
  BY <1>1, <1>4, SMT
<1>6. (k + Width) \div Width = r + 1 /\ (k + Width) % Width = m
  BY <1>1, <1>4, <1>5, Quotient
<1>7. r + 1 \in 1 .. Height /\ r + 1 # Height
  BY <1>1, <1>4, SMT
<1>8. shift_screen(p).cells[r + 1] = p.cells[r + 1 + 1]
  BY <1>7, ShiftType
<1> QED
  BY <1>6, <1>8 DEF CellOf, r, m

(* A character advances the cursor by one cell, and by a row less when the *)
(* page scrolls.                                                           *)
LEMMA Advances ==
  ASSUME NEW p \in Page, NEW c \in STRING, c # LF
  PROVE  \E d \in {0, Width} :
           /\ Cursor(putc(p, c)) = Cursor(p) + 1 - d
           /\ \A i \in Nat : i < Cursor(p) + 1 - d =>
                CellOf(putc(p, c), i) = IF i + d = Cursor(p) THEN c ELSE CellOf(p, i + d)
<1> DEFINE q == Drawing(p, c)
<1>1. q \in Page /\ q.x = p.x /\ q.y = p.y
  <2>1. q \in Page
    BY DrawingType
  <2>2. PICK cells : q = [above |-> p.above, x |-> p.x, y |-> p.y, cells |-> cells]
    BY DrawingType
  <2> HIDE DEF q
  <2> QED
    BY <2>1, <2>2
<1>2. Cursor(p) \in Nat /\ Cursor(p) < Height * Width /\ Cursor(p) = p.y * Width + p.x
  BY CursorPlace DEF Cursor
<1>3. /\ p.x \in Nat /\ p.y \in Nat /\ Width \in Nat /\ Width > 0 /\ Height \in Nat
      /\ p.y \in 0 .. Height - 1 /\ Height * Width \in Nat
  BY PageParts, SizesAreNat, SMT
<1>4. \A k \in Nat : k < Height * Width =>
        CellOf(q, k) = IF k = Cursor(p) THEN c ELSE CellOf(p, k)
  BY CellDrawn
<1>5. ASSUME NEW x \in 0 .. Width - 1, NEW y \in 0 .. Height - 1
      PROVE  /\ Cursor(set_cursor(q, x, y)) = y * Width + x
             /\ \A k : CellOf(set_cursor(q, x, y), k) = CellOf(q, k)
  <2> DEFINE t == set_cursor(q, x, y)
  <2>1. t = [above |-> q.above, cells |-> q.cells, x |-> x, y |-> y]
    BY <1>1, CursorType
  <2> HIDE DEF t
  <2>2. t.x = x /\ t.y = y /\ t.cells = q.cells
    BY <2>1
  <2> QED
    BY <2>2 DEF Cursor, CellOf, t
<1> HIDE DEF q
<1>6. ASSUME putc(p, c) = set_cursor(q, p.x + 1, p.y), p.x + 1 \in 0 .. Width - 1
      PROVE  /\ Cursor(putc(p, c)) = Cursor(p) + 1
             /\ \A k : CellOf(putc(p, c), k) = CellOf(q, k)
  <2>1. p.y * Width + (p.x + 1) = p.y * Width + p.x + 1
    BY <1>3, SMT
  <2> QED
    BY <1>2, <1>3, <1>5, <1>6, <2>1
<1>7. ASSUME putc(p, c) = set_cursor(q, 0, p.y + 1), p.y + 1 \in 0 .. Height - 1,
             p.x + 1 = Width
      PROVE  /\ Cursor(putc(p, c)) = Cursor(p) + 1
             /\ \A k : CellOf(putc(p, c), k) = CellOf(q, k)
  <2>1. (p.y + 1) * Width + 0 = p.y * Width + p.x + 1
    BY <1>3, <1>7, SMT
  <2> QED
    BY <1>2, <1>5, <1>7, <2>1, SizesAreNat
<1>8. ASSUME Cursor(putc(p, c)) = Cursor(p) + 1,
             \A k : CellOf(putc(p, c), k) = CellOf(q, k)
      PROVE  \E d \in {0, Width} :
               /\ Cursor(putc(p, c)) = Cursor(p) + 1 - d
               /\ \A i \in Nat : i < Cursor(p) + 1 - d =>
                    CellOf(putc(p, c), i) = IF i + d = Cursor(p) THEN c ELSE CellOf(p, i + d)
  <2>1. Cursor(p) + 1 - 0 = Cursor(p) + 1 /\ \A i \in Nat : i + 0 = i
        /\ (i < Cursor(p) + 1 - 0 => i < Height * Width)
    BY <1>2, <1>3, SMT
  <2>2. ASSUME NEW i \in Nat, i < Cursor(p) + 1 - 0
        PROVE  CellOf(putc(p, c), i) = IF i + 0 = Cursor(p) THEN c ELSE CellOf(p, i + 0)
    BY <1>4, <1>8, <2>1, <2>2
  <2> QED
    BY <1>8, <2>1, <2>2
<1>9. ASSUME putc(p, c) = shift_screen(q), p.x + 1 = Width, p.y + 1 = Height
      PROVE  \E d \in {0, Width} :
               /\ Cursor(putc(p, c)) = Cursor(p) + 1 - d
               /\ \A i \in Nat : i < Cursor(p) + 1 - d =>
                    CellOf(putc(p, c), i) = IF i + d = Cursor(p) THEN c ELSE CellOf(p, i + d)
  <2> DEFINE u == p.y * Width
  <2>1. Height = p.y + 1 /\ (p.y + 1) * Width = u + Width /\ u \in Nat /\ Height - 1 = p.y
    BY <1>3, <1>9, SMT
  <2>2. Height * Width = u + Width /\ (Height - 1) * Width = u /\ Cursor(p) = u + p.x
    BY <1>2, <2>1
  <2>3. Cursor(p) + 1 = Height * Width /\ Height - 1 = p.y
        /\ (Height - 1) * Width + 0 = Cursor(p) + 1 - Width
    <3> DEFINE v == (Height - 1) * Width
               w == Height * Width
    <3>1. w = u + Width /\ v = u /\ Cursor(p) = u + p.x
      BY <2>2
    <3> HIDE DEF u, v, w
    <3>2. Cursor(p) + 1 = w /\ v + 0 = Cursor(p) + 1 - Width
      BY <1>3, <1>9, <2>1, <3>1, SMT
    <3> QED
      BY <2>1, <3>2 DEF v, w
  <2>4. Cursor(putc(p, c)) = Cursor(p) + 1 - Width
    <3>1. shift_screen(q).x = 0 /\ shift_screen(q).y = Height - 1
      BY <1>1, ShiftType
    <3> QED
      BY <1>9, <2>3, <3>1 DEF Cursor
  <2>5. ASSUME NEW i \in Nat, i < Cursor(p) + 1 - Width
        PROVE  CellOf(putc(p, c), i) =
                 IF i + Width = Cursor(p) THEN c ELSE CellOf(p, i + Width)
    <3>1. i + Width \in Nat /\ i + Width < Height * Width
      BY <1>2, <1>3, <2>3, <2>5, SMT
    <3> QED
      BY <1>1, <1>4, <1>9, <3>1, CellShifted
  <2> QED
    BY <2>4, <2>5
<1> QED
  BY <1>6, <1>7, <1>8, <1>9, PutcDoes DEF q

LEMMA PutcShown ==
  ASSUME NEW p \in Page, NEW c \in STRING, c # LF, NEW s, NEW t, NEW n \in Nat,
         ShownTo(p, s, n), \A k \in 1 .. n : t[k] = s[k], t[n + 1] = c
  PROVE  ShownTo(putc(p, c), t, n + 1)
<1>1. PICK d \in {0, Width} :
        /\ Cursor(putc(p, c)) = Cursor(p) + 1 - d
        /\ \A i \in Nat : i < Cursor(p) + 1 - d =>
             CellOf(putc(p, c), i) = IF i + d = Cursor(p) THEN c ELSE CellOf(p, i + d)
  BY Advances
<1>2. d \in Nat /\ Cursor(p) \in Nat
  BY SizesAreNat, CursorPlace
<1> SUFFICES ASSUME NEW k \in 1 .. n + 1, Cursor(putc(p, c)) - (n + 1) + k > 0
             PROVE  CellOf(putc(p, c), Cursor(putc(p, c)) - (n + 1) + k - 1) = t[k]
  BY DEF ShownTo
<1> DEFINE C == Cursor(p)
           i == C - d - n + k - 1
<1>3. C \in Nat
  BY <1>2
<1> HIDE DEF C
<1>4. Cursor(putc(p, c)) - (n + 1) + k - 1 = i /\ i \in Nat /\ i < C + 1 - d
  BY <1>1, <1>2, <1>3, SMT DEF C
<1>5. i + d = C - n + k - 1
  BY <1>2, <1>3, SMT
<1>6. CellOf(putc(p, c), i) = IF i + d = C THEN c ELSE CellOf(p, i + d)
  BY <1>1, <1>4 DEF C
<1>7. CASE k = n + 1
  <2>1. i + d = C
    BY <1>2, <1>3, <1>5, <1>7, SMT
  <2> QED
    BY <1>4, <1>6, <1>7, <2>1
<1>8. CASE k # n + 1
  <2>1. k \in 1 .. n /\ i + d # C /\ C - n + k > 0
    BY <1>2, <1>3, <1>4, <1>5, <1>8, SMT
  <2>2. CellOf(p, C - n + k - 1) = s[k]
    BY <2>1 DEF ShownTo, C
  <2> QED
    BY <1>4, <1>5, <1>6, <2>1, <2>2
<1> QED
  BY <1>7, <1>8

LEMMA PutsShown ==
  ASSUME NEW p \in Page, NEW s \in Seq(STRING), \A k \in 1 .. Len(s) : s[k] # LF
  PROVE  ShownTo(puts(p, s), s, Len(s))
<1>1. Len(s) \in Nat /\ \A n \in 1 .. Len(s) : s[n] \in STRING
  BY LenProperties, ElementOfSeq
<1>2. PICK f : /\ f[0] = p
               /\ \A n \in 1 .. Len(s) : f[n] = putc(f[n - 1], s[n])
               /\ puts(p, s) = f[Len(s)]
  BY <1>1, PutsSteps
<1> DEFINE T == {n \in 0 .. Len(s) : f[n] \in Page /\ ShownTo(f[n], s, n)}
<1>3. 0 \in T
  <2>1. 0 \in 0 .. Len(s) /\ \A k \in 1 .. 0 : FALSE
    BY <1>1, SMT
  <2>2. ShownTo(p, s, 0)
    BY <2>1 DEF ShownTo
  <2> QED
    BY <1>2, <2>1, <2>2
<1>4. \A n \in 1 .. Len(s) : n - 1 \in T => n \in T
  <2> TAKE n \in 1 .. Len(s)
  <2> HAVE n - 1 \in T
  <2>1. n \in 0 .. Len(s) /\ n - 1 \in Nat /\ n - 1 + 1 = n
    BY SMT
  <2>2. f[n] \in Page
    BY <1>1, <1>2, PutcType
  <2>3. ShownTo(f[n], s, n - 1 + 1)
    BY <1>1, <1>2, <2>1, PutcShown
  <2> QED
    BY <2>1, <2>2, <2>3
<1>5. Len(s) \in T
  <2> HIDE DEF T
  <2> QED
    BY <1>1, <1>3, <1>4, Inductive
<1> QED
  BY <1>2, <1>5

-----------------------------------------------------------------------------
(* Lines, erasing and redrawing *)

LEMMA LinesType ==
  /\ LineChars \subseteq STRING /\ LF \notin LineChars /\ Typeable \subseteq LineChars
  /\ Limit \in Nat /\ Len(History) \in Nat
  /\ \A r \in 1 .. Len(History) :
       History[r] \in Seq(LineChars) /\ Len(History[r]) \in Nat /\ Len(History[r]) <= Limit
<1>1. /\ Typeable \subseteq STRING /\ LF \notin Typeable /\ Limit \in Nat
      /\ History \in Seq(Seq(STRING \ {LF}))
      /\ \A r \in DOMAIN History : Len(History[r]) <= Limit
  BY ScreenAssumption
<1>2. /\ Len(History) \in Nat /\ DOMAIN History = 1 .. Len(History)
      /\ \A r \in 1 .. Len(History) : History[r] \in Seq(STRING \ {LF})
  BY <1>1, LenProperties, ElementOfSeq
<1>3. \A r \in 1 .. Len(History) :
        /\ Len(History[r]) \in Nat /\ DOMAIN History[r] = 1 .. Len(History[r])
        /\ History[r] \in [1 .. Len(History[r]) -> STRING \ {LF}]
  BY <1>2, LenProperties
<1>4. ASSUME NEW c \in LineChars
      PROVE  c \in STRING \ {LF}
  <2>1. CASE c \in Typeable
    BY <1>1, <2>1
  <2>2. CASE c \notin Typeable
    <3>1. PICK r \in DOMAIN History : c \in {History[r][k] : k \in DOMAIN History[r]}
      BY <1>4, <2>2, Zenon DEF LineChars
    <3>2. PICK k \in DOMAIN History[r] : c = History[r][k]
      BY <3>1
    <3> QED
      BY <1>2, <1>3, <3>2
  <2> QED
    BY <2>1, <2>2
<1>5. ASSUME NEW r \in 1 .. Len(History)
      PROVE  History[r] \in Seq(LineChars)
  <2>1. History[r] \in [1 .. Len(History[r]) -> LineChars]
    BY <1>2, <1>3 DEF LineChars
  <2> QED
    BY <1>3, <2>1, SeqDef
<1> QED
  BY <1>1, <1>2, <1>3, <1>4, <1>5 DEF LineChars

LEMMA LineType ==
  ASSUME NEW s \in Seq(LineChars)
  PROVE  /\ s \in Seq(STRING) /\ Len(s) \in Nat
         /\ s \in [1 .. Len(s) -> LineChars] /\ \A k \in 1 .. Len(s) : s[k] # LF
<1>1. Len(s) \in Nat /\ s \in [1 .. Len(s) -> LineChars]
  BY LenProperties
<1>2. s \in [1 .. Len(s) -> STRING]
  BY <1>1, LinesType
<1>3. s \in Seq(STRING)
  BY <1>1, <1>2, SeqDef
<1> QED
  BY <1>1, <1>3, LinesType

LEMMA PrefixType ==
  ASSUME NEW A, NEW s \in Seq(A), NEW n \in 0 .. Len(s)
  PROVE  /\ SubSeq(s, 1, n) \in Seq(A) /\ Len(SubSeq(s, 1, n)) = n
         /\ \A k \in 1 .. n : SubSeq(s, 1, n)[k] = s[k]
<1>1. Len(s) \in Nat /\ \A i \in 1 .. Len(s) : s[i] \in A
  BY LenProperties, ElementOfSeq
<1>2. n \in Nat /\ n \in Int /\ 1 \in Int /\ \A i \in 1 .. n : i \in 1 .. Len(s)
  BY <1>1, SMT
<1>3. /\ SubSeq(s, 1, n) \in Seq(A)
      /\ Len(SubSeq(s, 1, n)) = IF 1 <= n THEN n - 1 + 1 ELSE 0
      /\ \A i \in 1 .. n - 1 + 1 : SubSeq(s, 1, n)[i] = s[1 + i - 1]
  BY <1>1, <1>2, SubSeqProperties
<1>4. /\ (IF 1 <= n THEN n - 1 + 1 ELSE 0) = n
      /\ \A i \in 1 .. n : i \in 1 .. n - 1 + 1 /\ 1 + i - 1 = i
  BY <1>2, SMT
<1> QED
  BY <1>3, <1>4

(* What puts prints of a buffer is a prefix of it. *)
LEMMA CStringType ==
  ASSUME NEW A, NEW s \in Seq(A)
  PROVE  CString(s) \in Seq(A) /\ Len(CString(s)) \in Nat /\ Len(CString(s)) <= Len(s)
<1> DEFINE Prefixes == {SubSeq(s, 1, n) : n \in 0 .. Len(s)}
           Ends(t) == /\ \A k \in 1 .. Len(t) : t[k] # Unset
                      /\ Len(t) < Len(s) => s[Len(t) + 1] = Unset
           T == {n \in 0 .. Len(s) : \A k \in 1 .. n : s[k] # Unset}
<1>1. Len(s) \in Nat
  BY LenProperties
<1>2. \E t \in Prefixes : Ends(t)
  <2> SUFFICES ASSUME ~ \E t \in Prefixes : Ends(t)
               PROVE  FALSE
    OBVIOUS
  <2>1. 0 \in T
    BY <1>1, SMT
  <2>2. ASSUME NEW n \in 1 .. Len(s), n - 1 \in T
        PROVE  n \in T
    <3> DEFINE t == SubSeq(s, 1, n - 1)
    <3>1. /\ n - 1 \in 0 .. Len(s) /\ n - 1 < Len(s) /\ n - 1 + 1 = n /\ n \in 0 .. Len(s)
          /\ \A k \in 1 .. n : k = n \/ k \in 1 .. n - 1
      BY <1>1, SMT
    <3>2. Len(t) = n - 1 /\ \A k \in 1 .. n - 1 : t[k] = s[k]
      BY <3>1, PrefixType
    <3>3. t \in Prefixes
      BY <3>1
    <3>4. \A k \in 1 .. n - 1 : s[k] # Unset
      BY <2>2
    <3>5. s[n] # Unset
      <4>1. ~Ends(t)
        BY <3>3
      <4> QED
        BY <3>1, <3>2, <3>4, <4>1
    <3> QED
      BY <3>1, <3>4, <3>5
  <2>3. Len(s) \in T
    <3> HIDE DEF T
    <3> QED
      BY <1>1, <2>1, <2>2, Inductive
  <2> DEFINE t == SubSeq(s, 1, Len(s))
  <2>4. Len(s) \in 0 .. Len(s) /\ ~(Len(s) < Len(s))
    BY <1>1, SMT
  <2>5. Len(t) = Len(s) /\ \A k \in 1 .. Len(s) : t[k] = s[k]
    BY <2>4, PrefixType
  <2>6. t \in Prefixes /\ Ends(t)
    BY <2>3, <2>4, <2>5
  <2> QED
    BY <2>6
<1>3. CString(s) \in Prefixes
  <2>1. CString(s) = CHOOSE t \in Prefixes : Ends(t)
    BY DEF CString
  <2> HIDE DEF Prefixes, Ends
  <2> QED
    BY <1>2, <2>1
<1>4. PICK n \in 0 .. Len(s) : CString(s) = SubSeq(s, 1, n)
  BY <1>3
<1>5. n \in Nat /\ n <= Len(s)
  BY <1>1, SMT
<1> QED
  BY <1>4, <1>5, PrefixType

(* Characters before the right edge stay on the row. *)
LEMMA PutsOnRow ==
  ASSUME NEW p \in Page, NEW s \in Seq(STRING), \A k \in 1 .. Len(s) : s[k] # LF,
         p.x + Len(s) < Width
  PROVE  /\ puts(p, s).x = p.x + Len(s) /\ puts(p, s).y = p.y
         /\ puts(p, s).above = p.above
<1>1. Len(s) \in Nat /\ \A n \in 1 .. Len(s) : s[n] \in STRING
  BY LenProperties, ElementOfSeq
<1>2. PICK f : /\ f[0] = p
               /\ \A n \in 1 .. Len(s) : f[n] = putc(f[n - 1], s[n])
               /\ puts(p, s) = f[Len(s)]
  BY <1>1, PutsSteps
<1> DEFINE T == {n \in 0 .. Len(s) :
                   /\ f[n] \in Page /\ f[n].x = p.x + n /\ f[n].y = p.y
                   /\ f[n].above = p.above}
<1>3. p.x \in Nat /\ p.y \in 0 .. Height - 1 /\ Width \in Nat
  BY PageParts, SizesAreNat
<1>4. 0 \in T
  <2>1. 0 \in 0 .. Len(s) /\ p.x + 0 = p.x
    BY <1>1, <1>3, SMT
  <2> QED
    BY <1>2, <2>1
<1>5. ASSUME NEW n \in 1 .. Len(s), n - 1 \in T
      PROVE  n \in T
  <2> DEFINE q == f[n - 1]
             d == Drawing(q, s[n])
  <2>1. /\ q \in Page /\ q.x = p.x + (n - 1) /\ q.y = p.y /\ q.above = p.above
        /\ f[n] = putc(q, s[n]) /\ s[n] # LF /\ s[n] \in STRING
    BY <1>1, <1>2, <1>5
  <2>2. /\ p.x + (n - 1) + 1 # Width /\ p.x + (n - 1) + 1 = p.x + n /\ n \in 0 .. Len(s)
        /\ p.x + n \in 0 .. Width - 1
    BY <1>1, <1>3, SMT
  <2>3. f[n] = set_cursor(d, p.x + n, p.y)
    BY <2>1, <2>2, PutcDoes
  <2>4. d \in Page
    BY <2>1, DrawingType
  <2>5. d.above = p.above
    <3>1. PICK cells : d = [above |-> q.above, x |-> q.x, y |-> q.y, cells |-> cells]
      BY <2>1, DrawingType
    <3> HIDE DEF d, q
    <3> QED
      BY <2>1, <3>1
  <2> HIDE DEF d, q
  <2>6. /\ f[n] \in Page
        /\ f[n] = [above |-> d.above, cells |-> d.cells, x |-> p.x + n, y |-> p.y]
    BY <1>3, <2>2, <2>3, <2>4, CursorType
  <2>7. f[n].x = p.x + n /\ f[n].y = p.y /\ f[n].above = d.above
    BY <2>6
  <2> QED
    BY <2>2, <2>5, <2>6, <2>7
<1>6. Len(s) \in T
  <2> HIDE DEF T
  <2> QED
    BY <1>1, <1>4, <1>5, Inductive
<1> QED
  BY <1>2, <1>6

-----------------------------------------------------------------------------
(* Where the cursor goes *)

(* Where the cursor goes depends on nothing but where it is. *)
LEMMA PutsCursor ==
  ASSUME NEW p \in Page, NEW q \in Page, p.x = q.x, p.y = q.y, NEW s \in Seq(STRING)
  PROVE  puts(p, s).x = puts(q, s).x /\ puts(p, s).y = puts(q, s).y
<1>1. Len(s) \in Nat /\ \A n \in 1 .. Len(s) : s[n] \in STRING
  BY LenProperties, ElementOfSeq
<1>2. PICK f : /\ f[0] = p
               /\ \A n \in 1 .. Len(s) : f[n] = putc(f[n - 1], s[n])
               /\ puts(p, s) = f[Len(s)]
  BY <1>1, PutsSteps
<1>3. PICK g : /\ g[0] = q
               /\ \A n \in 1 .. Len(s) : g[n] = putc(g[n - 1], s[n])
               /\ puts(q, s) = g[Len(s)]
  BY <1>1, PutsSteps
<1> DEFINE T == {n \in 0 .. Len(s) : /\ f[n] \in Page /\ g[n] \in Page
                                     /\ f[n].x = g[n].x /\ f[n].y = g[n].y}
<1>4. 0 \in T
  <2>1. 0 \in 0 .. Len(s)
    BY <1>1, SMT
  <2> QED
    BY <1>2, <1>3, <2>1
<1>5. \A n \in 1 .. Len(s) : n - 1 \in T => n \in T
  <2> TAKE n \in 1 .. Len(s)
  <2> HAVE n - 1 \in T
  <2>1. n \in 0 .. Len(s)
    BY SMT
  <2> DEFINE a == f[n - 1]
             b == g[n - 1]
  <2>2. /\ a \in Page /\ b \in Page /\ a.x = b.x /\ a.y = b.y
        /\ f[n] = putc(a, s[n]) /\ g[n] = putc(b, s[n]) /\ s[n] \in STRING
    BY <1>1, <1>2, <1>3
  <2> HIDE DEF a, b
  <2>3. f[n] \in Page /\ g[n] \in Page
    BY <2>2, PutcType
  <2>4. f[n].x = g[n].x /\ f[n].y = g[n].y
    <3> HIDE DEF T
    <3> DEFINE c == s[n]
    <3>0. f[n] = putc(a, c) /\ g[n] = putc(b, c) /\ c \in STRING
      BY <2>2
    <3> HIDE DEF c
    <3>1. /\ f[n].x = IF c = LF \/ a.x + 1 = Width THEN 0 ELSE a.x + 1
          /\ f[n].y = IF c # LF /\ a.x + 1 # Width THEN a.y
                      ELSE IF a.y + 1 = Height THEN Height - 1 ELSE a.y + 1
      BY <2>2, <3>0, PutcCursor
    <3>2. /\ g[n].x = IF c = LF \/ b.x + 1 = Width THEN 0 ELSE b.x + 1
          /\ g[n].y = IF c # LF /\ b.x + 1 # Width THEN b.y
                      ELSE IF b.y + 1 = Height THEN Height - 1 ELSE b.y + 1
      BY <2>2, <3>0, PutcCursor
    <3> QED
      BY <2>2, <3>1, <3>2
  <2> QED
    BY <2>1, <2>3, <2>4
<1>6. Len(s) \in T
  <2> HIDE DEF T
  <2> QED
    BY <1>1, <1>4, <1>5, Inductive
<1> QED
  BY <1>2, <1>3, <1>6

LEMMA PutsOnly ==
  ASSUME NEW p, NEW c
  PROVE  puts(p, <<c>>) = putc(p, c)
<1>1. Len(<<c>>) = 1 /\ <<c>>[1] = c /\ 1 \in Nat /\ 1 \in 1 .. 1 /\ 1 - 1 = 0
  BY SMT
<1>2. PICK f : /\ f[0] = p
               /\ \A n \in 1 .. Len(<<c>>) : f[n] = putc(f[n - 1], <<c>>[n])
               /\ puts(p, <<c>>) = f[Len(<<c>>)]
  BY <1>1, PutsSteps
<1> QED
  BY <1>1, <1>2

LEMMA Singleton ==
  ASSUME NEW A, NEW c \in A
  PROVE  <<c>> \in Seq(A)
OBVIOUS

LEMMA PutsOne ==
  ASSUME NEW p \in Page, NEW c \in STRING
  PROVE  SheetOf(putc(p, c)) = Sheet!Printed(SheetOf(p), <<c>>)
<1>1. <<c>> \in Seq(STRING)
  BY Singleton, Zenon
<1>2. puts(p, <<c>>) = putc(p, c)
  BY PutsOnly, Zenon
<1>3. SheetOf(puts(p, <<c>>)) = Sheet!Printed(SheetOf(p), <<c>>)
  BY <1>1, PutsShows, Zenon
<1> QED
  BY <1>2, <1>3, Zenon

-----------------------------------------------------------------------------
(* Backspace: it blanks the cell that it goes back to. *)

Erased(p, x, y) == set_cursor(putc(set_cursor(p, x, y), Blank), x, y)

LEMMA ErasedDoes ==
  ASSUME NEW p \in Page, NEW x \in 0 .. Width - 1, NEW y \in 0 .. Height - 1,
         x + 1 # Width \/ y + 1 # Height
  PROVE  Erased(p, x, y) = Drawing(set_cursor(p, x, y), Blank)
<1> DEFINE q == set_cursor(p, x, y)
           d == Drawing(q, Blank)
<1>1. q \in Page /\ q.above = p.above /\ q.x = x /\ q.y = y
  BY CursorParts
<1>2. Blank \in STRING /\ Blank # LF
  BY Characters
<1> HIDE DEF q
<1>3. d \in Page /\ d.x = x /\ d.y = y
  BY <1>1, <1>2, DrawingParts
<1>4. PICK u \in 0 .. Width - 1, v \in 0 .. Height - 1 : putc(q, Blank) = set_cursor(d, u, v)
  <2>1. CASE x + 1 # Width
    BY <1>1, <1>2, <2>1, PutcDoes
  <2>2. CASE x + 1 = Width
    BY <1>1, <1>2, <2>2, PutcDoes, SizesAreNat
  <2> QED
    BY <2>1, <2>2
<1> HIDE DEF d
<1>5. set_cursor(d, u, v) \in Page /\ set_cursor(d, u, v).above = d.above
      /\ set_cursor(d, u, v).cells = d.cells
  BY <1>3, CursorParts
<1> DEFINE e == set_cursor(set_cursor(d, u, v), x, y)
<1>6. e \in Page /\ e.above = d.above /\ e.cells = d.cells /\ e.x = x /\ e.y = y
  BY <1>5, CursorParts
<1> HIDE DEF e
<1>7. e = d
  BY <1>3, <1>6, EqualPages
<1> QED
  BY <1>4, <1>7 DEF Erased, e, q, d

(* The place before the cursor, at the start of a row the end of the row   *)
(* above.                                                                  *)
BackX(p) == IF p.x = 0 THEN Width - 1 ELSE p.x - 1
BackY(p) == IF p.x = 0 THEN p.y - 1 ELSE p.y

LEMMA BackPlace ==
  ASSUME NEW p \in Page, p.x > 0 \/ p.y > 0
  PROVE  /\ BackX(p) \in 0 .. Width - 1 /\ BackY(p) \in 0 .. Height - 1
         /\ BackX(p) + 1 # Width \/ BackY(p) + 1 # Height
         /\ BackY(p) * Width + BackX(p) = Cursor(p) - 1
<1>1. /\ p.x \in Nat /\ p.y \in Nat /\ p.x <= Width - 1 /\ p.y <= Height - 1
      /\ Width \in Nat /\ Width > 0 /\ Height \in Nat
  BY PageParts, SizesAreNat, SMT
<1>2. Cursor(p) = p.y * Width + p.x
  BY DEF Cursor
<1> DEFINE a == p.x
           b == p.y
<1> HIDE DEF a, b
<1>3. CASE p.x = 0
  <2>1. BackX(p) = Width - 1 /\ BackY(p) = b - 1 /\ a = 0 /\ b > 0
    BY <1>1, <1>3 DEF BackX, BackY, a, b
  <2>2. (b - 1) * Width + (Width - 1) = (b * Width + 0) - 1
    BY <1>1, SMT DEF b
  <2>3. Width - 1 \in 0 .. Width - 1 /\ b - 1 \in 0 .. Height - 1 /\ b - 1 + 1 # Height
    BY <1>1, <2>1, SMT DEF b
  <2>4. BackY(p) * Width + BackX(p) = (b * Width + 0) - 1 /\ Cursor(p) = b * Width + 0
    BY <1>2, <1>3, <2>1, <2>2 DEF b
  <2>5. BackY(p) * Width + BackX(p) = Cursor(p) - 1
    BY <2>4, Zenon
  <2> QED
    BY <2>1, <2>3, <2>5
<1>4. CASE p.x # 0
  <2>1. BackX(p) = a - 1 /\ BackY(p) = b
    BY <1>4 DEF BackX, BackY, a, b
  <2>2. b * Width + (a - 1) = (b * Width + a) - 1
    BY <1>1, SMT DEF a, b
  <2>3. a - 1 \in 0 .. Width - 1 /\ b \in 0 .. Height - 1 /\ a - 1 + 1 # Width
    BY <1>1, <1>4, SMT DEF a, b
  <2>4. BackY(p) * Width + BackX(p) = (b * Width + a) - 1 /\ Cursor(p) = b * Width + a
    BY <1>2, <2>1, <2>2 DEF a, b
  <2>5. BackY(p) * Width + BackX(p) = Cursor(p) - 1
    BY <2>4, Zenon
  <2> QED
    BY <2>1, <2>3, <2>5
<1> QED
  BY <1>3, <1>4

LEMMA ErasedType ==
  ASSUME NEW p \in Page, p.x > 0 \/ p.y > 0
  PROVE  /\ Erased(p, BackX(p), BackY(p)) \in Page
         /\ Erased(p, BackX(p), BackY(p)).x = BackX(p)
         /\ Erased(p, BackX(p), BackY(p)).y = BackY(p)
<1> DEFINE q == set_cursor(p, BackX(p), BackY(p))
<1>1. q \in Page /\ q.x = BackX(p) /\ q.y = BackY(p)
  BY BackPlace, CursorParts
<1>2. Erased(p, BackX(p), BackY(p)) = Drawing(q, Blank)
  BY BackPlace, ErasedDoes
<1> HIDE DEF q
<1>3. /\ Drawing(q, Blank) \in Page /\ Drawing(q, Blank).x = q.x
      /\ Drawing(q, Blank).y = q.y
  BY <1>1, Characters, DrawingParts
<1> QED
  BY <1>1, <1>2, <1>3

LEMMA ErasedShown ==
  ASSUME NEW p \in Page, p.x > 0 \/ p.y > 0, NEW s, NEW t, NEW n \in Nat,
         ShownTo(p, s, n + 1), \A k \in 1 .. n : t[k] = s[k]
  PROVE  ShownTo(Erased(p, BackX(p), BackY(p)), t, n)
<1> DEFINE q == set_cursor(p, BackX(p), BackY(p))
           e == Erased(p, BackX(p), BackY(p))
<1>1. q \in Page /\ q.x = BackX(p) /\ q.y = BackY(p) /\ q.cells = p.cells
  BY BackPlace, CursorParts
<1>2. e = Drawing(q, Blank)
  BY BackPlace, ErasedDoes
<1>3. e.x = BackX(p) /\ e.y = BackY(p)
  BY ErasedType
<1> HIDE DEF q, e
<1>4. Cursor(q) = Cursor(p) - 1 /\ Cursor(e) = Cursor(p) - 1
  BY <1>1, <1>3, BackPlace DEF Cursor
<1>5. Cursor(p) \in Nat /\ Cursor(p) < Height * Width /\ Height * Width \in Nat
  BY CursorPlace, SizesAreNat, SMT
<1> SUFFICES ASSUME NEW k \in 1 .. n, Cursor(e) - n + k > 0
             PROVE  CellOf(e, Cursor(e) - n + k - 1) = t[k]
  BY DEF ShownTo, e
<1> DEFINE C == Cursor(p)
           i == C - (n + 1) + k - 1
<1>6. C \in Nat /\ C < Height * Width /\ Cursor(e) = C - 1 /\ Cursor(q) = C - 1
  BY <1>4, <1>5
<1> HIDE DEF C
<1> DEFINE w == Height * Width
<1>7. w \in Nat /\ C < w
  BY <1>5, <1>6
<1> HIDE DEF w
<1>8. /\ Cursor(e) - n + k - 1 = i /\ i \in Nat /\ i < w /\ i # Cursor(q)
      /\ k \in 1 .. n + 1 /\ C - (n + 1) + k > 0
  BY <1>6, <1>7, SMT
<1>9. CellOf(e, i) = CellOf(q, i)
  BY <1>1, <1>2, <1>8, CellDrawn, Characters DEF w
<1>10. CellOf(q, i) = CellOf(p, i)
  BY <1>1 DEF CellOf
<1>11. CellOf(p, i) = s[k]
  BY <1>8 DEF ShownTo, C
<1> QED
  BY <1>8, <1>9, <1>10, <1>11

LEMMA MovedShows ==
  ASSUME NEW p \in Page, NEW x \in 0 .. Width - 1, NEW y \in 0 .. Height - 1
  PROVE  SheetOf(set_cursor(p, x, y)) =
           [rows |-> Rows(p), row |-> Len(p.above) + y + 1, col |-> x + 1]
<1> DEFINE q == set_cursor(p, x, y)
<1>1. q.above = p.above /\ q.cells = p.cells /\ q.x = x /\ q.y = y
  BY CursorParts
<1> HIDE DEF q
<1>2. SheetOf(q) = [rows |-> Rows(p), row |-> Len(p.above) + y + 1, col |-> x + 1]
  BY <1>1 DEF SheetOf, Rows
<1> QED
  BY <1>2 DEF q

LEMMA LeftShows ==
  ASSUME NEW p \in Page, NEW n \in Nat, n <= p.x
  PROVE  /\ p.x - n \in 0 .. Width - 1
         /\ SheetOf(set_cursor(p, p.x - n, p.y)) = Sheet!Left(SheetOf(p), n)
<1>1. p.x \in 0 .. Width - 1 /\ p.x \in Nat /\ p.y \in 0 .. Height - 1 /\ Width \in Nat
  BY PageParts, SizesAreNat
<1>2. p.x - n \in 0 .. Width - 1 /\ p.x - n + 1 = (p.x + 1) - n
  BY <1>1, SMT
<1> DEFINE s == SheetOf(p)
<1>3. s = [rows |-> Rows(p), row |-> Len(p.above) + p.y + 1, col |-> p.x + 1]
  BY DEF SheetOf
<1> HIDE DEF s
<1>4. [s EXCEPT !.col = @ - n] =
        [rows |-> Rows(p), row |-> Len(p.above) + p.y + 1, col |-> p.x - n + 1]
  BY <1>2, <1>3
<1>5. Sheet!Left(s, n) = [s EXCEPT !.col = @ - n]
  BY DEF Sheet!Left
<1>6. SheetOf(set_cursor(p, p.x - n, p.y)) =
        [rows |-> Rows(p), row |-> Len(p.above) + p.y + 1, col |-> p.x - n + 1]
  BY <1>1, <1>2, MovedShows
<1> QED
  BY <1>2, <1>4, <1>5, <1>6 DEF s

BackOf(s) ==
  IF s.col > 1 THEN Sheet!Left(s, 1) ELSE [s EXCEPT !.row = @ - 1, !.col = Width]

LEMMA ErasedShows ==
  ASSUME NEW p \in Page, p.x > 0 \/ p.y > 0
  PROVE  /\ SheetOf(p).col > 1 \/ SheetOf(p).row > 1
         /\ SheetOf(Erased(p, BackX(p), BackY(p))) =
              [BackOf(SheetOf(p)) EXCEPT
                 !.rows[BackOf(SheetOf(p)).row][BackOf(SheetOf(p)).col] = Blank]
<1> DEFINE s == SheetOf(p)
           q == set_cursor(p, BackX(p), BackY(p))
           n == Len(p.above)
<1>1. /\ s = [rows |-> Rows(p), row |-> n + p.y + 1, col |-> p.x + 1]
      /\ s.rows = Rows(p) /\ s.row = n + p.y + 1 /\ s.col = p.x + 1
  BY DEF SheetOf
<1>2. n \in Nat /\ p.x \in Nat /\ p.y \in Nat /\ Width \in Nat
  BY PageParts, SizesAreNat
<1>3. q \in Page
  BY BackPlace, CursorParts
<1>4. SheetOf(q) = [rows |-> Rows(p), row |-> n + BackY(p) + 1, col |-> BackX(p) + 1]
  BY BackPlace, MovedShows
<1> HIDE DEF s, q, n
<1>5. s.col > 1 \/ s.row > 1
  BY <1>1, <1>2, SMT
<1>6. BackOf(s) = SheetOf(q)
  <2>1. CASE p.x = 0
    <3>1. ~(s.col > 1) /\ BackX(p) + 1 = Width /\ n + BackY(p) + 1 = (n + p.y + 1) - 1
      BY <1>1, <1>2, <2>1, SMT DEF BackX, BackY
    <3>2. BackOf(s) = [s EXCEPT !.row = @ - 1, !.col = Width]
      BY <3>1 DEF BackOf
    <3> DEFINE t == [s EXCEPT !.row = @ - 1]
    <3>3. t = [rows |-> Rows(p), row |-> (n + p.y + 1) - 1, col |-> p.x + 1]
      BY <1>1
    <3>4. BackOf(s) = [t EXCEPT !.col = Width]
      BY <3>2
    <3> HIDE DEF t
    <3>5. BackOf(s) = [rows |-> Rows(p), row |-> (n + p.y + 1) - 1, col |-> Width]
      BY <3>3, <3>4
    <3> QED
      BY <1>4, <3>1, <3>5
  <2>2. CASE p.x # 0
    <3>1. 1 \in Nat /\ 1 <= p.x /\ s.col > 1
      BY <1>1, <1>2, <2>2, SMT
    <3>2. BackX(p) = p.x - 1 /\ BackY(p) = p.y
      BY <2>2 DEF BackX, BackY
    <3>3. SheetOf(set_cursor(p, p.x - 1, p.y)) = Sheet!Left(s, 1)
      BY <3>1, LeftShows DEF s
    <3> QED
      BY <3>1, <3>2, <3>3 DEF BackOf, q
  <2> QED
    BY <2>1, <2>2
<1>7. Erased(p, BackX(p), BackY(p)) = Drawing(q, Blank)
  BY BackPlace, ErasedDoes DEF q
<1>8. [SheetOf(q) EXCEPT !.rows[SheetOf(q).row][SheetOf(q).col] = Blank]
        = SheetOf(Drawing(q, Blank))
  BY <1>3, Characters, InkedShows
<1> QED
  BY <1>5, <1>6, <1>7, <1>8 DEF s

(* Up and Down: blanks over the row that is left, the other one from where *)
(* the line begins.                                                        *)
Blanked(p, left) == puts(set_cursor(p, p.x - left, p.y), Spaces(left))
Redrawn(p, left, n, chars) ==
  puts(set_cursor(Blanked(p, left), p.x - n, p.y), CString(chars))

LEMMA BlankedDoes ==
  ASSUME NEW p \in Page, NEW left \in Nat, left <= p.x
  PROVE  /\ Blanked(p, left) \in Page
         /\ Blanked(p, left).x = p.x /\ Blanked(p, left).y = p.y
         /\ SheetOf(Blanked(p, left)) =
              Sheet!Printed(Sheet!Left(SheetOf(p), left), Sheet!Blanks(left))
<1> DEFINE q == set_cursor(p, p.x - left, p.y)
<1>1. /\ p.x \in Nat /\ p.x \in 0 .. Width - 1 /\ p.y \in 0 .. Height - 1
      /\ p.x - left \in 0 .. Width - 1
      /\ SheetOf(q) = Sheet!Left(SheetOf(p), left)
  BY PageParts, LeftShows
<1>2. q \in Page /\ q.x = p.x - left /\ q.y = p.y
  BY <1>1, CursorParts
<1>3. /\ Spaces(left) \in Seq(STRING) /\ Len(Spaces(left)) = left
      /\ \A k \in 1 .. Len(Spaces(left)) : Spaces(left)[k] # LF
  <2>1. Spaces(left) \in Seq(STRING) /\ Len(Spaces(left)) = left
    BY SpacesType
  <2>2. \A k \in 1 .. left : Spaces(left)[k] = Blank
    BY DEF Spaces
  <2> QED
    BY <2>1, <2>2, Characters
<1> HIDE DEF q
<1>4. q.x + Len(Spaces(left)) = p.x /\ p.x < Width
  BY <1>1, <1>2, <1>3, SizesAreNat, SMT
<1>5. puts(q, Spaces(left)).x = p.x /\ puts(q, Spaces(left)).y = p.y
  BY <1>2, <1>3, <1>4, PutsOnRow
<1>6. /\ puts(q, Spaces(left)) \in Page
      /\ SheetOf(puts(q, Spaces(left))) = Sheet!Printed(SheetOf(q), Spaces(left))
  BY <1>2, <1>3, PutsShows
<1>7. Blanked(p, left) = puts(q, Spaces(left)) /\ Sheet!Blanks(left) = Spaces(left)
  BY PaperBlank DEF Blanked, q
<1> QED
  BY <1>1, <1>5, <1>6, <1>7

LEMMA RedrawnDoes ==
  ASSUME NEW p \in Page, NEW left \in Nat, left <= p.x, NEW n \in Nat, n <= p.x,
         NEW chars \in Seq(STRING)
  PROVE  /\ Redrawn(p, left, n, chars) \in Page
         /\ SheetOf(Redrawn(p, left, n, chars)) =
              Sheet!Printed(
                Sheet!Left(
                  Sheet!Printed(Sheet!Left(SheetOf(p), left), Sheet!Blanks(left)), n),
                CString(chars))
         /\ (\A k \in 1 .. Len(CString(chars)) : CString(chars)[k] # LF) =>
              ShownTo(Redrawn(p, left, n, chars), CString(chars), Len(CString(chars)))
<1> DEFINE b == Blanked(p, left)
           q == set_cursor(b, b.x - n, b.y)
           s == CString(chars)
<1>1. /\ b \in Page /\ b.x = p.x /\ b.y = p.y
      /\ SheetOf(b) = Sheet!Printed(Sheet!Left(SheetOf(p), left), Sheet!Blanks(left))
  BY BlankedDoes
<1>2. s \in Seq(STRING)
  BY CStringType
<1> HIDE DEF b, s
<1>3. b.x - n \in 0 .. Width - 1 /\ SheetOf(q) = Sheet!Left(SheetOf(b), n)
  BY <1>1, LeftShows
<1>4. q \in Page
  BY <1>1, <1>3, CursorParts, PageParts
<1>5. Redrawn(p, left, n, chars) = puts(q, s)
  BY <1>1 DEF Redrawn, b, q, s
<1> HIDE DEF q
<1>6. puts(q, s) \in Page /\ SheetOf(puts(q, s)) = Sheet!Printed(SheetOf(q), s)
  BY <1>2, <1>4, PutsShows
<1>7. (\A k \in 1 .. Len(s) : s[k] # LF) => ShownTo(puts(q, s), s, Len(s))
  BY <1>2, <1>4, PutsShown
<1> QED
  BY <1>1, <1>3, <1>5, <1>6, <1>7 DEF s

LEMMA RedrawnCursor ==
  ASSUME NEW p \in Page, NEW q \in Page, p.x = q.x, p.y = q.y, NEW left \in Nat,
         left <= p.x, NEW n \in Nat, n <= p.x, NEW chars \in Seq(STRING)
  PROVE  /\ Redrawn(p, left, n, chars).x = Redrawn(q, left, n, chars).x
         /\ Redrawn(p, left, n, chars).y = Redrawn(q, left, n, chars).y
<1> DEFINE b == set_cursor(Blanked(p, left), p.x - n, p.y)
           c == set_cursor(Blanked(q, left), q.x - n, q.y)
<1>1. Blanked(p, left) \in Page /\ Blanked(q, left) \in Page
  BY BlankedDoes
<1>2. p.x - n \in 0 .. Width - 1 /\ p.y \in 0 .. Height - 1
  BY LeftShows, PageParts
<1>3. b \in Page /\ c \in Page /\ b.x = c.x /\ b.y = c.y
  BY <1>1, <1>2, CursorParts
<1>4. CString(chars) \in Seq(STRING)
  BY CStringType
<1>5. Redrawn(p, left, n, chars) = puts(b, CString(chars))
      /\ Redrawn(q, left, n, chars) = puts(c, CString(chars))
  BY DEF Redrawn
<1> HIDE DEF b, c
<1> QED
  BY <1>3, <1>4, <1>5, PutsCursor

LEMMA ClearShows ==
  clear_screen.x = 0 /\ clear_screen.y = 0 /\ SheetOf(clear_screen) = Sheet!NewSheet
<1> DEFINE cells == [r \in 1 .. Height |-> Spaces(Width)]
<1>1. cells \in Seq(Row)
  BY SpacesType, SizesAreNat, SMT
<1>2. <<>> \o cells = cells
  BY <1>1, ConcatEmptySeq
<1>3. \A r \in 1 .. Height : Sheet!Blanks(Width) = Spaces(Width)
  BY PaperBlank
<1>4. Sheet!NewSheet = [rows |-> cells, row |-> 1, col |-> 1]
  BY <1>3 DEF Sheet!NewSheet
<1>5. clear_screen = [above |-> <<>>, cells |-> cells, x |-> 0, y |-> 0]
  BY DEF clear_screen
<1> HIDE DEF cells
<1>6. /\ clear_screen.above = <<>> /\ clear_screen.cells = cells
      /\ clear_screen.x = 0 /\ clear_screen.y = 0
  BY <1>5
<1>7. Len(<<>>) + 0 + 1 = 1 /\ 0 + 1 = 1
  BY SMT
<1>8. SheetOf(clear_screen) = [rows |-> cells, row |-> 1, col |-> 1]
  BY <1>2, <1>6, <1>7, Zenon DEF SheetOf, Rows
<1> QED
  BY <1>4, <1>6, <1>8

-----------------------------------------------------------------------------
(* The invariant *)

PagesType ==
  /\ screen \in Page /\ text \in Page
  /\ screen.x = text.x /\ screen.y = text.y

KeysType ==
  /\ line \in Seq(LineChars) /\ Len(line) <= Limit
  /\ command_pos \in 0 .. Len(History)
  /\ saved \in [chars : Seq(LineChars), length : Nat]
  /\ Len(saved.chars) <= Limit /\ saved.length <= Len(saved.chars)

PointerType ==
  /\ mouse \in [x : 0 .. Width - 1, y : 0 .. Height - 1]
  /\ prev_char \in STRING
  /\ {enter_flag, intact, typing, paint, clean, touched} \subseteq BOOLEAN

(* Until the first packet the pointer is nowhere. *)
NoPointer == clean /\ prev_char = Unset => screen = text

ScreenInv ==
  /\ PagesType /\ KeysType /\ PointerType
  /\ NoPointer /\ PointerHarmless /\ LineShown

LEMMA LineWords ==
  /\ LineShown <=> (intact /\ ~enter_flag => ShownTo(text, line, Len(line)))
  /\ LineShown' <=> (intact' /\ ~enter_flag' => ShownTo(text', line', Len(line')))
BY DEF LineShown, At, ShownTo, CellOf, Cursor

LEMMA InvParts ==
  ASSUME ScreenInv
  PROVE  /\ screen \in Page /\ text \in Page /\ screen.x = text.x /\ screen.y = text.y
         /\ text.x \in Nat /\ text.y \in Nat
         /\ line \in Seq(LineChars) /\ Len(line) \in Nat /\ Len(line) <= Limit
         /\ line \in Seq(STRING) /\ \A k \in 1 .. Len(line) : line[k] # LF
<1>1. /\ screen \in Page /\ text \in Page /\ screen.x = text.x /\ screen.y = text.y
      /\ line \in Seq(LineChars) /\ Len(line) <= Limit
  BY DEF ScreenInv, PagesType, KeysType
<1> QED
  BY <1>1, LineType, PageParts

(* The same is printed on the page and on the text. *)
LEMMA ChangeKeeps ==
  ASSUME ScreenInv, NEW a \in Page, NEW b \in Page, a.x = b.x, a.y = b.y,
         screen = text => a = b, screen' = a, text' = b, touched' = TRUE,
         UNCHANGED pointer
  PROVE  PagesType' /\ NoPointer' /\ PointerHarmless'
<1>1. PagesType'
  BY DEF PagesType
<1>2. NoPointer'
  BY DEF ScreenInv, NoPointer, pointer
<1>3. PointerHarmless'
  BY DEF PointerHarmless
<1> QED
  BY <1>1, <1>2, <1>3

(* Paper's steps, in terms of two sheets. *)
SheetTexts == Output \cup {<<c>> : c \in Typeable \cup {LF}} \cup {Spaces(4)}
SheetLines == UNION {[1 .. n -> LineChars] : n \in 0 .. Limit}

SheetNext(a, b) ==
  \/ \E chars \in SheetTexts : b = Sheet!Printed(a, chars)
  \/ /\ a.col > 1 \/ a.row > 1
     /\ b = [BackOf(a) EXCEPT !.rows[BackOf(a).row][BackOf(a).col] = Blank]
  \/ \E old, shown \in 0 .. Width, chars \in SheetLines :
       /\ old < a.col /\ shown < a.col
       /\ b = Sheet!Printed(
                Sheet!Left(Sheet!Printed(Sheet!Left(a, old), Sheet!Blanks(old)), shown),
                chars)
  \/ b = Sheet!NewSheet

LEMMA SheetWords ==
  ASSUME SheetNext(SheetOf(text), SheetOf(text'))
  PROVE  Sheet!Next
<1> DEFINE a == SheetOf(text)
           b == SheetOf(text')
<1>1. a = [rows |-> text.above \o text.cells, row |-> Len(text.above) + text.y + 1,
           col |-> text.x + 1]
  BY DEF SheetOf, Rows
<1>2. b = [rows |-> text'.above \o text'.cells, row |-> Len(text'.above) + text'.y + 1,
           col |-> text'.x + 1]
  BY DEF SheetOf, Rows
<1> HIDE DEF a, b
<1>3. CASE \E chars \in SheetTexts : b = Sheet!Printed(a, chars)
  <2>1. PICK chars \in SheetTexts : b = Sheet!Printed(a, chars)
    BY <1>3
  <2>2. Sheet!Write(chars)
    BY <1>1, <1>2, <2>1, Zenon DEF Sheet!Write
  <2> QED
    BY <2>1, <2>2 DEF Sheet!Next, SheetTexts
<1>4. CASE /\ a.col > 1 \/ a.row > 1
           /\ b = [BackOf(a) EXCEPT !.rows[BackOf(a).row][BackOf(a).col] = Blank]
  <2>1. Sheet!Erase
    BY <1>1, <1>2, <1>4, Zenon DEF Sheet!Erase, BackOf
  <2> QED
    BY <2>1 DEF Sheet!Next
<1>5. CASE \E old, shown \in 0 .. Width, chars \in SheetLines :
             /\ old < a.col /\ shown < a.col
             /\ b = Sheet!Printed(
                      Sheet!Left(Sheet!Printed(Sheet!Left(a, old), Sheet!Blanks(old)),
                                 shown), chars)
  <2>1. PICK old \in 0 .. Width, shown \in 0 .. Width, chars \in SheetLines :
             /\ old < a.col /\ shown < a.col
             /\ b = Sheet!Printed(
                      Sheet!Left(Sheet!Printed(Sheet!Left(a, old), Sheet!Blanks(old)),
                                 shown), chars)
    BY <1>5
  <2>2. Sheet!Retype(old, shown, chars)
    BY <1>1, <1>2, <2>1, Zenon DEF Sheet!Retype
  <2> QED
    BY <2>1, <2>2 DEF Sheet!Next, SheetLines
<1>6. CASE b = Sheet!NewSheet
  <2>1. Sheet!Clear
    BY <1>2, <1>6, Zenon DEF Sheet!Clear
  <2> QED
    BY <2>1 DEF Sheet!Next
<1> QED
  BY <1>3, <1>4, <1>5, <1>6 DEF SheetNext, a, b

-----------------------------------------------------------------------------
(* The actions: each keeps the invariant, and is a step of Paper or leaves *)
(* the text as it is.                                                      *)

SheetStep == SheetNext(SheetOf(text), SheetOf(text')) \/ text' = text

LEMMA WriteKeeps ==
  ASSUME ScreenInv, NEW s \in Output, Write(s)
  PROVE  ScreenInv' /\ SheetStep
<1>1. s \in Seq(STRING)
  <2>1. s \in Seq(STRING \ {Unset})
    BY ScreenAssumption
  <2>2. s \in [1 .. Len(s) -> STRING] /\ Len(s) \in Nat
    BY <2>1, LenProperties
  <2> QED
    BY <2>2, SeqDef
<1>2. /\ screen' = puts(screen, s) /\ text' = puts(text, s) /\ touched' = TRUE
      /\ intact' = (intact /\ line = <<>>) /\ UNCHANGED <<keys, pointer, mode>>
  BY DEF Write, Change
<1>3. /\ puts(screen, s) \in Page /\ puts(text, s) \in Page
      /\ SheetOf(puts(text, s)) = Sheet!Printed(SheetOf(text), s)
      /\ puts(screen, s).x = puts(text, s).x /\ puts(screen, s).y = puts(text, s).y
  BY <1>1, InvParts, PutsShows, PutsCursor
<1>4. PagesType' /\ NoPointer' /\ PointerHarmless'
  <2>1. screen = text => puts(screen, s) = puts(text, s)
    OBVIOUS
  <2>2. UNCHANGED pointer
    BY <1>2
  <2> QED
    BY <1>2, <1>3, <2>1, <2>2, ChangeKeeps
<1>5. KeysType' /\ PointerType'
  BY <1>2 DEF ScreenInv, KeysType, PointerType, keys, pointer, mode
<1>6. LineShown'
  <2>1. intact' => line' = <<>>
    BY <1>2 DEF keys
  <2> QED
    BY <2>1, LineWords DEF ShownTo
<1>7. SheetStep
  BY <1>2, <1>3 DEF SheetStep, SheetNext, SheetTexts
<1> QED
  BY <1>4, <1>5, <1>6, <1>7 DEF ScreenInv

LEMMA TypeKeeps ==
  ASSUME ScreenInv, NEW c \in Typeable, Type(c)
  PROVE  ScreenInv' /\ SheetStep
<1>1. c \in STRING /\ c # LF /\ c \in LineChars
  BY Characters, LinesType
<1>2. /\ screen' = putc(screen, c) /\ text' = putc(text, c) /\ touched' = TRUE
      /\ Len(LocalLine) < Limit /\ line' = Append(LocalLine, c)
      /\ intact' = (intact /\ ~enter_flag) /\ enter_flag' = FALSE
      /\ UNCHANGED <<command_pos, saved, pointer, mode>>
  BY DEF Type, Change, KeyPress
<1>3. /\ putc(screen, c) \in Page /\ putc(text, c) \in Page
      /\ putc(screen, c).x = putc(text, c).x /\ putc(screen, c).y = putc(text, c).y
  BY <1>1, InvParts, PutcType, PutcCursor
<1>4. PagesType' /\ NoPointer' /\ PointerHarmless'
  <2>1. screen = text => putc(screen, c) = putc(text, c)
    OBVIOUS
  <2>2. UNCHANGED pointer
    BY <1>2
  <2> QED
    BY <1>2, <1>3, <2>1, <2>2, ChangeKeeps
<1>5. /\ LocalLine \in Seq(LineChars) /\ Len(LocalLine) \in Nat
      /\ ~enter_flag => LocalLine = line
  BY InvParts, EmptySeq, LenProperties DEF LocalLine
<1>6. /\ line' \in Seq(LineChars) /\ Len(line') = Len(LocalLine) + 1
      /\ \A k \in 1 .. Len(LocalLine) : line'[k] = LocalLine[k]
      /\ line'[Len(LocalLine) + 1] = c
  <2> DEFINE l == Append(LocalLine, c)
  <2>1. /\ l \in Seq(LineChars) /\ Len(l) = Len(LocalLine) + 1
        /\ \A k \in 1 .. Len(LocalLine) : l[k] = LocalLine[k]
        /\ l[Len(LocalLine) + 1] = c
    <3>1. \A m \in Seq(LineChars) :
            /\ Append(m, c) \in Seq(LineChars) /\ Len(Append(m, c)) = Len(m) + 1
            /\ \A k \in 1 .. Len(m) : Append(m, c)[k] = m[k]
            /\ Append(m, c)[Len(m) + 1] = c
      <4>1. c \in LineChars
        BY <1>1
      <4> QED
        BY <4>1, AppendProperties
    <3> QED
      BY <1>5, <3>1, Zenon
  <2> QED
    BY <1>2, <2>1
<1>7. KeysType' /\ PointerType'
  <2>1. Len(line') <= Limit
    BY <1>2, <1>5, <1>6, LinesType, SMT
  <2> QED
    BY <1>2, <1>6, <2>1 DEF ScreenInv, KeysType, PointerType, pointer, mode
<1>8. LineShown'
  <2> SUFFICES ASSUME intact' PROVE ShownTo(text', line', Len(line'))
    BY LineWords
  <2>1. LocalLine = line /\ ShownTo(text, line, Len(line))
    BY <1>2, <1>5, LineWords DEF ScreenInv
  <2>2. ShownTo(putc(text, c), line', Len(line) + 1)
    BY <1>1, <1>6, <2>1, InvParts, PutcShown
  <2> QED
    BY <1>2, <1>6, <2>1, <2>2
<1>9. SheetStep
  <2>1. SheetOf(putc(text, c)) = Sheet!Printed(SheetOf(text), <<c>>)
    BY <1>1, InvParts, PutsOne
  <2> QED
    BY <1>2, <2>1 DEF SheetStep, SheetNext, SheetTexts
<1> QED
  BY <1>4, <1>7, <1>8, <1>9 DEF ScreenInv

LEMMA BackspaceKeeps ==
  ASSUME ScreenInv, Backspace
  PROVE  ScreenInv' /\ SheetStep
<1> DEFINE a == Erased(screen, BackX(screen), BackY(screen))
           b == Erased(text, BackX(text), BackY(text))
<1>1. /\ LocalLine # <<>>
      /\ text.x > 0 \/ text.y > 0
      /\ BackX(screen) = BackX(text) /\ BackY(screen) = BackY(text)
  BY InvParts DEF Backspace, BackX, BackY
<1>2. /\ screen' = a /\ text' = b /\ touched' = TRUE
      /\ line' = SubSeq(LocalLine, 1, Len(LocalLine) - 1)
      /\ saved' = [chars |-> LocalLine, length |-> Len(LocalLine) - 1]
      /\ enter_flag' = FALSE /\ UNCHANGED <<command_pos, intact, pointer, mode>>
  <2>1. screen.x = text.x /\ screen.y = text.y
    BY InvParts
  <2> QED
    BY <1>1, <2>1 DEF Backspace, Change, KeyPress, Erased, BackX, BackY
<1>3. /\ a \in Page /\ b \in Page /\ a.x = b.x /\ a.y = b.y
  BY <1>1, InvParts, ErasedType
<1>4. screen = text => a = b
  OBVIOUS
<1>5. SheetNext(SheetOf(text), SheetOf(b))
  BY <1>1, InvParts, ErasedShows DEF SheetNext
<1>6. ~enter_flag /\ LocalLine = line
  BY <1>1 DEF LocalLine
<1>7. Len(line) # 0
  BY <1>1, <1>6, InvParts, EmptySeq
<1> DEFINE n == Len(line) - 1
<1>8. n \in Nat /\ n \in 0 .. Len(line) /\ Len(line) = n + 1 /\ n <= Limit
  BY <1>7, InvParts, LinesType, SMT
<1> HIDE DEF n, a, b
<1>9. line' = SubSeq(line, 1, n) /\ saved' = [chars |-> line, length |-> n]
  BY <1>2, <1>6 DEF n
<1>10. /\ line' \in Seq(LineChars) /\ Len(line') = n
       /\ \A k \in 1 .. n : line'[k] = line[k]
  BY <1>8, <1>9, InvParts, PrefixType
<1>11. PagesType' /\ NoPointer' /\ PointerHarmless'
  <2>1. UNCHANGED pointer
    BY <1>2
  <2> QED
    BY <1>2, <1>3, <1>4, <2>1, ChangeKeeps
<1>12. KeysType' /\ PointerType'
  <2>1. saved'.chars = line /\ saved'.length = n
        /\ saved' \in [chars : Seq(LineChars), length : Nat]
    BY <1>8, <1>9, InvParts
  <2>2. n <= Len(line)
    BY <1>8, SMT
  <2> QED
    BY <1>2, <1>8, <1>10, <2>1, <2>2, InvParts
    DEF ScreenInv, KeysType, PointerType, pointer, mode
<1>13. LineShown'
  <2> SUFFICES ASSUME intact' PROVE ShownTo(text', line', Len(line'))
    BY LineWords
  <2>1. ShownTo(text, line, n + 1)
    BY <1>2, <1>6, <1>8, LineWords DEF ScreenInv
  <2> QED
    BY <1>1, <1>2, <1>8, <1>10, <2>1, InvParts, ErasedShown DEF b
<1>14. SheetStep
  BY <1>2, <1>5 DEF SheetStep
<1> QED
  BY <1>11, <1>12, <1>13, <1>14 DEF ScreenInv

LEMMA TabKeeps ==
  ASSUME ScreenInv, Tab
  PROVE  ScreenInv' /\ SheetStep
<1> DEFINE s == Spaces(4)
<1>1. s \in Seq(STRING) /\ s \in SheetTexts
  BY SpacesType DEF SheetTexts
<1>2. /\ screen' = puts(screen, s) /\ text' = puts(text, s) /\ touched' = TRUE
      /\ intact' = (intact /\ line = <<>>) /\ enter_flag' = FALSE
      /\ UNCHANGED <<line, command_pos, saved, pointer, mode>>
  BY DEF Tab, Change, KeyPress
<1> HIDE DEF s
<1>3. /\ puts(screen, s) \in Page /\ puts(text, s) \in Page
      /\ SheetOf(puts(text, s)) = Sheet!Printed(SheetOf(text), s)
      /\ puts(screen, s).x = puts(text, s).x /\ puts(screen, s).y = puts(text, s).y
  BY <1>1, InvParts, PutsShows, PutsCursor
<1>4. PagesType' /\ NoPointer' /\ PointerHarmless'
  <2>1. screen = text => puts(screen, s) = puts(text, s)
    OBVIOUS
  <2>2. UNCHANGED pointer
    BY <1>2
  <2> QED
    BY <1>2, <1>3, <2>1, <2>2, ChangeKeeps
<1>5. KeysType' /\ PointerType'
  BY <1>2 DEF ScreenInv, KeysType, PointerType, pointer, mode
<1>6. LineShown'
  <2>1. intact' => line' = <<>>
    BY <1>2
  <2> QED
    BY <2>1, LineWords DEF ShownTo
<1>7. SheetStep
  BY <1>1, <1>2, <1>3 DEF SheetStep, SheetNext
<1> QED
  BY <1>4, <1>5, <1>6, <1>7 DEF ScreenInv

LEMMA EnterKeeps ==
  ASSUME ScreenInv, Enter
  PROVE  ScreenInv' /\ SheetStep
<1>1. \A p \in Page :
        (IF p.y = Height - 1 THEN shift_screen(p) ELSE putc(p, LF)) = putc(p, LF)
  <2> TAKE p \in Page
  <2>1. p.y = Height - 1 => p.y + 1 = Height
    BY PageParts, SizesAreNat, SMT
  <2> QED
    BY <2>1, PutcDoes, Characters
<1>2. /\ screen' = putc(screen, LF) /\ text' = putc(text, LF) /\ touched' = TRUE
      /\ enter_flag' = TRUE /\ intact' = (intact /\ ~enter_flag)
      /\ UNCHANGED <<line, command_pos, saved, pointer, mode>>
  BY <1>1, InvParts DEF Enter, Change
<1>3. /\ putc(screen, LF) \in Page /\ putc(text, LF) \in Page
      /\ putc(screen, LF).x = putc(text, LF).x /\ putc(screen, LF).y = putc(text, LF).y
  <2>1. LF \in STRING
    BY Characters
  <2>2. putc(screen, LF) \in Page /\ putc(text, LF) \in Page
    BY <2>1, InvParts, PutcType
  <2>3. \A p \in Page : putc(p, LF).x = 0
          /\ putc(p, LF).y = IF p.y + 1 = Height THEN Height - 1 ELSE p.y + 1
    BY <2>1, PutcCursor
  <2> QED
    BY <2>2, <2>3, InvParts
<1>4. PagesType' /\ NoPointer' /\ PointerHarmless'
  <2>1. screen = text => putc(screen, LF) = putc(text, LF)
    OBVIOUS
  <2>2. UNCHANGED pointer
    BY <1>2
  <2> QED
    BY <1>2, <1>3, <2>1, <2>2, ChangeKeeps
<1>5. KeysType' /\ PointerType'
  BY <1>2 DEF ScreenInv, KeysType, PointerType, pointer, mode
<1>6. LineShown'
  BY <1>2, LineWords
<1>7. SheetStep
  <2>1. <<LF>> \in SheetTexts
    BY DEF SheetTexts
  <2>2. SheetOf(putc(text, LF)) = Sheet!Printed(SheetOf(text), <<LF>>)
    BY Characters, InvParts, PutsOne
  <2> QED
    BY <1>2, <2>1, <2>2 DEF SheetStep, SheetNext
<1> QED
  BY <1>4, <1>5, <1>6, <1>7 DEF ScreenInv

(* What Up and Down share. *)
LEMMA RedrawKeeps ==
  ASSUME ScreenInv, NEW left \in Nat, NEW chars \in Seq(LineChars), Len(chars) <= Limit,
         redraw(left, chars), UNCHANGED pointer
  PROVE  /\ PagesType' /\ NoPointer' /\ PointerHarmless' /\ SheetStep
         /\ ShownTo(text', CString(chars), Len(CString(chars))) /\ touched' = TRUE
<1> DEFINE n == Len(line)
           a == Redrawn(screen, left, n, chars)
           b == Redrawn(text, left, n, chars)
           t == CString(chars)
<1>1. /\ chars \in Seq(STRING) /\ n \in Nat /\ screen \in Page /\ text \in Page
      /\ screen.x = text.x /\ screen.y = text.y /\ text.x \in 0 .. Width - 1
  BY LineType, InvParts, PageParts
<1>2. /\ left <= screen.x /\ n <= screen.x
      /\ screen' = a /\ text' = b /\ touched' = TRUE
  BY DEF redraw, Change, Redrawn, Blanked
<1>3. /\ t \in Seq(LineChars) /\ Len(t) \in Nat /\ Len(t) <= Limit
      /\ t \in [1 .. Len(t) -> LineChars] /\ \A k \in 1 .. Len(t) : t[k] # LF
  <2>1. t \in Seq(LineChars) /\ Len(t) \in Nat /\ Len(t) <= Len(chars) /\ Len(chars) \in Nat
    BY CStringType, LenProperties
  <2> HIDE DEF t
  <2>2. Len(t) <= Limit
    BY <2>1, LinesType, SMT
  <2> QED
    BY <2>1, <2>2, LineType
<1> HIDE DEF n
<1>4. /\ a \in Page /\ b \in Page
      /\ SheetOf(b) = Sheet!Printed(
                        Sheet!Left(
                          Sheet!Printed(Sheet!Left(SheetOf(text), left), Sheet!Blanks(left)),
                          n), t)
      /\ (\A k \in 1 .. Len(t) : t[k] # LF) => ShownTo(b, t, Len(t))
  BY <1>1, <1>2, RedrawnDoes
<1>5. a.x = b.x /\ a.y = b.y
  BY <1>1, <1>2, RedrawnCursor
<1>6. screen = text => a = b
  OBVIOUS
<1> HIDE DEF a, b, t
<1>7. PagesType' /\ NoPointer' /\ PointerHarmless'
  BY <1>2, <1>4, <1>5, <1>6, ChangeKeeps
<1>8. SheetStep
  <2>1. /\ left \in 0 .. Width /\ n \in 0 .. Width
        /\ left < text.x + 1 /\ n < text.x + 1
    BY <1>1, <1>2, SizesAreNat, SMT
  <2>2. SheetOf(text).col = text.x + 1
    BY DEF SheetOf
  <2>3. t \in SheetLines
    <3>1. Len(t) \in 0 .. Limit
      BY <1>3, LinesType, SMT
    <3> QED
      BY <1>3, <3>1 DEF SheetLines
  <2>4. \E old, shown \in 0 .. Width, s \in SheetLines :
          /\ old < SheetOf(text).col /\ shown < SheetOf(text).col
          /\ SheetOf(b) = Sheet!Printed(
                   Sheet!Left(Sheet!Printed(Sheet!Left(SheetOf(text), old),
                                            Sheet!Blanks(old)), shown), s)
    BY <1>4, <2>1, <2>2, <2>3
  <2> QED
    BY <1>2, <2>4, Zenon DEF SheetStep, SheetNext
<1> QED
  BY <1>2, <1>3, <1>4, <1>7, <1>8 DEF t

LEMMA UpKeeps ==
  ASSUME ScreenInv, Up
  PROVE  ScreenInv' /\ SheetStep
<1> DEFINE chars == History[command_pos + 1]
           left == IF command_pos = 0 THEN Len(line) ELSE Len(History[command_pos])
<1>1. command_pos \in 0 .. Len(History) /\ command_pos < Len(History)
      /\ Len(History) \in Nat
  BY LinesType DEF ScreenInv, KeysType, Up
<1>2. /\ command_pos + 1 \in 1 .. Len(History)
      /\ command_pos # 0 => command_pos \in 1 .. Len(History)
      /\ command_pos + 1 \in 0 .. Len(History)
  BY <1>1, SMT
<1>3. chars \in Seq(LineChars) /\ Len(chars) <= Limit /\ left \in Nat
  BY <1>2, InvParts, LinesType
<1>4. /\ redraw(left, chars) /\ UNCHANGED <<pointer, mode>>
      /\ command_pos' = command_pos + 1 /\ line' = chars /\ enter_flag' = FALSE
      /\ saved' = IF command_pos = 0 THEN [chars |-> line, length |-> Len(line)] ELSE saved
      /\ intact' = (intact /\ ~enter_flag /\ CString(line') = line')
  BY DEF Up, KeyPress
<1> HIDE DEF chars, left
<1>5. /\ PagesType' /\ NoPointer' /\ PointerHarmless' /\ SheetStep
      /\ ShownTo(text', CString(chars), Len(CString(chars))) /\ touched' = TRUE
  <2>1. UNCHANGED pointer
    BY <1>4
  <2> QED
    BY <1>3, <1>4, <2>1, RedrawKeeps
<1>6. KeysType' /\ PointerType'
  <2>1. /\ saved' \in [chars : Seq(LineChars), length : Nat]
        /\ Len(saved'.chars) <= Limit /\ saved'.length <= Len(saved'.chars)
    <3>1. CASE command_pos = 0
      <4>1. saved' = [chars |-> line, length |-> Len(line)]
        BY <1>4, <3>1
      <4>2. saved'.chars = line /\ saved'.length = Len(line)
        BY <4>1
      <4> QED
        BY <4>1, <4>2, InvParts
    <3>2. CASE command_pos # 0
      BY <1>4, <3>2 DEF ScreenInv, KeysType
    <3> QED
      BY <3>1, <3>2
  <2> QED
    BY <1>2, <1>3, <1>4, <1>5, <2>1 DEF ScreenInv, KeysType, PointerType, pointer, mode
<1>7. LineShown'
  <2> SUFFICES ASSUME intact' PROVE ShownTo(text', line', Len(line'))
    BY LineWords
  <2>1. CString(chars) = line'
    BY <1>4
  <2> QED
    BY <1>5, <2>1
<1> QED
  BY <1>5, <1>6, <1>7 DEF ScreenInv

LEMMA DownKeeps ==
  ASSUME ScreenInv, Down
  PROVE  ScreenInv' /\ SheetStep
<1> DEFINE chars == IF command_pos = 1 THEN saved.chars ELSE History[command_pos - 1]
           length == IF command_pos = 1 THEN saved.length ELSE Len(chars)
           left == Len(History[command_pos])
<1>1. command_pos \in 0 .. Len(History) /\ command_pos > 0 /\ Len(History) \in Nat
  BY LinesType DEF ScreenInv, KeysType, Down
<1>2. /\ command_pos \in 1 .. Len(History)
      /\ command_pos # 1 => command_pos - 1 \in 1 .. Len(History)
      /\ command_pos - 1 \in 0 .. Len(History)
  BY <1>1, SMT
<1>3. /\ saved \in [chars : Seq(LineChars), length : Nat]
      /\ saved.chars \in Seq(LineChars) /\ saved.length \in Nat
      /\ Len(saved.chars) <= Limit /\ saved.length <= Len(saved.chars)
  BY DEF ScreenInv, KeysType
<1>4. chars \in Seq(LineChars) /\ Len(chars) <= Limit /\ left \in Nat
  BY <1>2, <1>3, LinesType
<1>5. Len(chars) \in Nat
  BY <1>4, LenProperties
<1>6. /\ redraw(left, chars) /\ line' = SubSeq(chars, 1, length)
      /\ intact' = (intact /\ ~enter_flag /\ CString(chars) = line')
      /\ command_pos' = command_pos - 1 /\ enter_flag' = FALSE
      /\ UNCHANGED <<saved, pointer, mode>>
  BY DEF Down, KeyPress
<1>7. length \in 0 .. Len(chars)
  <2>1. CASE command_pos = 1
    BY <1>3, <2>1, SMT
  <2>2. CASE command_pos # 1
    BY <1>5, <2>2, SMT
  <2> QED
    BY <2>1, <2>2
<1> HIDE DEF chars, length, left
<1>8. line' \in Seq(LineChars) /\ Len(line') = length /\ length <= Limit
  <2>1. SubSeq(chars, 1, length) \in Seq(LineChars) /\ Len(SubSeq(chars, 1, length)) = length
    BY <1>4, <1>7, PrefixType
  <2>2. length <= Limit
    BY <1>4, <1>5, <1>7, LinesType, SMT
  <2> QED
    BY <1>6, <2>1, <2>2
<1>9. /\ PagesType' /\ NoPointer' /\ PointerHarmless' /\ SheetStep
      /\ ShownTo(text', CString(chars), Len(CString(chars))) /\ touched' = TRUE
  <2>1. UNCHANGED pointer
    BY <1>6
  <2> QED
    BY <1>4, <1>6, <2>1, RedrawKeeps
<1>10. KeysType' /\ PointerType'
  <2>1. KeysType'
    BY <1>2, <1>3, <1>6, <1>8 DEF KeysType
  <2>2. PointerType'
    BY <1>6, <1>9 DEF ScreenInv, PointerType, pointer, mode
  <2> QED
    BY <2>1, <2>2
<1>11. LineShown'
  <2> SUFFICES ASSUME intact' PROVE ShownTo(text', line', Len(line'))
    BY LineWords
  <2>1. CString(chars) = line'
    BY <1>6
  <2> QED
    BY <1>9, <2>1
<1> QED
  BY <1>9, <1>10, <1>11 DEF ScreenInv

LEMMA ClearKeyKeeps ==
  ASSUME ScreenInv, ClearKey
  PROVE  ScreenInv' /\ SheetStep
<1>1. /\ screen' = clear_screen /\ text' = clear_screen /\ touched' = TRUE
      /\ intact' = (intact /\ line = <<>>) /\ enter_flag' = FALSE
      /\ UNCHANGED <<line, command_pos, saved, pointer, mode>>
  BY DEF ClearKey, Change, KeyPress
<1>2. PagesType' /\ NoPointer' /\ PointerHarmless'
  <2>1. UNCHANGED pointer
    BY <1>1
  <2> QED
    BY <1>1, <2>1, ClearType, ChangeKeeps
<1>3. KeysType' /\ PointerType'
  BY <1>1 DEF ScreenInv, KeysType, PointerType, pointer, mode
<1>4. LineShown'
  <2>1. intact' => line' = <<>>
    BY <1>1
  <2> QED
    BY <2>1, LineWords DEF ShownTo
<1>5. SheetStep
  BY <1>1, ClearShows DEF SheetStep, SheetNext
<1> QED
  BY <1>2, <1>3, <1>4, <1>5 DEF ScreenInv

LEMMA OtherKeyKeeps ==
  ASSUME ScreenInv, OtherKey
  PROVE  ScreenInv' /\ SheetStep
<1>1. /\ UNCHANGED <<screen, text, touched, line, command_pos, saved>>
      /\ UNCHANGED <<typing, paint, mouse, prev_char, clean>>
      /\ intact' = (intact /\ ~enter_flag) /\ enter_flag' = FALSE
  BY DEF OtherKey, KeyPress, page, pointer, mode
<1>2. PagesType' /\ KeysType' /\ PointerType' /\ NoPointer'
  BY <1>1 DEF ScreenInv, PagesType, KeysType, PointerType, NoPointer
<1>3. PointerHarmless'
  BY <1>1 DEF ScreenInv, PointerHarmless
<1>4. LineShown'
  BY <1>1, LineWords DEF ScreenInv
<1> QED
  BY <1>1, <1>2, <1>3, <1>4 DEF ScreenInv, SheetStep

LEMMA ReadKeeps ==
  ASSUME ScreenInv, Read
  PROVE  ScreenInv' /\ SheetStep
<1>1. /\ UNCHANGED <<screen, text, touched, typing, paint, mouse, prev_char, clean>>
      /\ enter_flag' = FALSE /\ line' = <<>> /\ intact' = TRUE
      /\ \/ command_pos' = 0 /\ saved' = [chars |-> <<>>, length |-> 0]
         \/ UNCHANGED <<command_pos, saved>>
  BY DEF Read, page, pointer, mode
<1>2. PagesType' /\ PointerType' /\ NoPointer'
  BY <1>1 DEF ScreenInv, PagesType, PointerType, NoPointer
<1>3. KeysType'
  <2>1. <<>> \in Seq(LineChars) /\ Len(<<>>) = 0 /\ 0 <= Limit /\ 0 \in 0 .. Len(History)
    BY LinesType, EmptySeq, SMT
  <2>2. CASE command_pos' = 0 /\ saved' = [chars |-> <<>>, length |-> 0]
    <3>1. saved'.chars = <<>> /\ saved'.length = 0
      BY <2>2
    <3> QED
      BY <1>1, <2>1, <2>2, <3>1 DEF KeysType
  <2>3. CASE UNCHANGED <<command_pos, saved>>
    BY <1>1, <2>1, <2>3 DEF ScreenInv, KeysType
  <2> QED
    BY <1>1, <2>2, <2>3
<1>4. PointerHarmless'
  BY <1>1 DEF ScreenInv, PointerHarmless
<1>5. LineShown'
  BY <1>1, LineWords DEF ShownTo
<1> QED
  BY <1>1, <1>2, <1>3, <1>4, <1>5 DEF ScreenInv, SheetStep

LEMMA ForegroundKeeps ==
  ASSUME ScreenInv, NEW kind \in {"shell", "typing", "drawing"}, Foreground(kind)
  PROVE  ScreenInv' /\ SheetStep
<1>1. /\ UNCHANGED <<screen, text, touched, line, enter_flag, command_pos, saved>>
      /\ UNCHANGED <<paint, mouse, prev_char, clean, intact>>
      /\ typing' \in BOOLEAN
  BY DEF Foreground, page, keys, pointer
<1>2. PagesType' /\ KeysType' /\ PointerType' /\ NoPointer'
  BY <1>1 DEF ScreenInv, PagesType, KeysType, PointerType, NoPointer
<1>3. PointerHarmless'
  BY <1>1 DEF ScreenInv, PointerHarmless
<1>4. LineShown'
  BY <1>1, LineWords DEF ScreenInv
<1> QED
  BY <1>1, <1>2, <1>3, <1>4 DEF ScreenInv, SheetStep

-----------------------------------------------------------------------------
(* The pointer *)

LEMMA ClampType ==
  ASSUME NEW n \in Int, NEW last \in Nat
  PROVE  Clamp(n, last) \in 0 .. last
BY SMT DEF Clamp

LEMMA DrawType ==
  ASSUME NEW p \in Page, NEW x \in 0 .. Width - 1, NEW y \in 0 .. Height - 1,
         NEW c \in STRING
  PROVE  /\ Draw(p, x, y, c) \in Page
         /\ Draw(p, x, y, c).x = p.x /\ Draw(p, x, y, c).y = p.y
         /\ Drawn(p, x, y) \in STRING
         /\ \A u \in 0 .. Width - 1, v \in 0 .. Height - 1 :
              Drawn(Draw(p, x, y, c), u, v) =
                IF u = x /\ v = y THEN c ELSE Drawn(p, u, v)
<1> DEFINE cells == [p.cells EXCEPT ![y + 1][x + 1] = c]
           q == Draw(p, x, y, c)
<1>1. p.cells \in [1 .. Height -> [1 .. Width -> STRING]]
  BY PageParts DEF Row
<1>2. \A u \in 0 .. Width - 1, v \in 0 .. Height - 1 :
        /\ u + 1 \in 1 .. Width /\ v + 1 \in 1 .. Height
        /\ (u + 1 = x + 1 <=> u = x) /\ (v + 1 = y + 1 <=> v = y)
  BY SizesAreNat, SMT
<1>3. cells \in [1 .. Height -> [1 .. Width -> STRING]]
  BY <1>1, <1>2
<1>4. q = [p EXCEPT !.cells = cells]
  BY DEF Draw
<1>5. \A u \in 0 .. Width - 1, v \in 0 .. Height - 1 :
        cells[v + 1][u + 1] = IF u = x /\ v = y THEN c ELSE p.cells[v + 1][u + 1]
  BY <1>1, <1>2
<1> HIDE DEF cells, q
<1>6. p = [above |-> p.above, cells |-> p.cells, x |-> p.x, y |-> p.y]
  BY PageParts
<1>7. q = [above |-> p.above, cells |-> cells, x |-> p.x, y |-> p.y]
  BY <1>4, <1>6
<1>8. q \in Page
  BY <1>3, <1>7, PageParts DEF Page, Row
<1>9. q.x = p.x /\ q.y = p.y /\ q.cells = cells
  BY <1>7
<1>10. Drawn(p, x, y) \in STRING
  BY <1>1, <1>2 DEF Drawn
<1> QED
  BY <1>5, <1>8, <1>9, <1>10 DEF Drawn, q

LEMMA LabelledType ==
  ASSUME NEW p \in Page
  PROVE  Labelled(p) \in Page /\ Labelled(p).x = p.x /\ Labelled(p).y = p.y
<1> DEFINE row == [k \in 1 .. Width |-> IF k <= Len(Title) THEN Title[k] ELSE p.cells[1][k]]
           cells == [p.cells EXCEPT ![1] = row]
           q == Labelled(p)
<1>1. p.cells \in [1 .. Height -> [1 .. Width -> STRING]] /\ 1 \in 1 .. Height
  BY PageParts, SizesAreNat DEF Row
<1>2. row \in [1 .. Width -> STRING]
  <2>1. Title \in Seq(STRING)
    BY ScreenAssumption
  <2>2. \A k \in 1 .. Width : k <= Len(Title) => Title[k] \in STRING
    <3>1. Len(Title) \in Nat
      BY <2>1, LenProperties
    <3>2. \A k \in 1 .. Width : k <= Len(Title) => k \in 1 .. Len(Title)
      BY <3>1, SizesAreNat, SMT
    <3> QED
      BY <2>1, <3>2, ElementOfSeq
  <2> QED
    BY <1>1, <2>2
<1>3. q = [p EXCEPT !.cells = cells]
  BY DEF Labelled
<1> HIDE DEF row
<1>4. cells \in [1 .. Height -> Row]
  BY <1>1, <1>2 DEF Row
<1> HIDE DEF cells, q
<1>5. p = [above |-> p.above, cells |-> p.cells, x |-> p.x, y |-> p.y]
  BY PageParts
<1>6. q = [above |-> p.above, cells |-> cells, x |-> p.x, y |-> p.y]
  BY <1>3, <1>5
<1>7. q \in Page
  BY <1>4, <1>6, PageParts DEF Page
<1>8. q.x = p.x /\ q.y = p.y
  BY <1>6
<1> QED
  BY <1>7, <1>8 DEF q

LEMMA ClearDrawn ==
  \A u \in 0 .. Width - 1, v \in 0 .. Height - 1 : Drawn(clear_screen, u, v) = Blank
<1> TAKE u \in 0 .. Width - 1, v \in 0 .. Height - 1
<1>1. u + 1 \in 1 .. Width /\ v + 1 \in 1 .. Height
  BY SizesAreNat, SMT
<1>2. clear_screen.cells = [r \in 1 .. Height |-> [k \in 1 .. Width |-> Blank]]
  BY DEF clear_screen, Spaces
<1> QED
  BY <1>1, <1>2 DEF Drawn

LEMMA MovePointerDoes ==
  ASSUME NEW p \in Page, mouse \in [x : 0 .. Width - 1, y : 0 .. Height - 1],
         NEW old \in STRING, NEW x \in 0 .. Width - 1, NEW y \in 0 .. Height - 1
  PROVE  /\ MovePointer(p, old, x, y).page \in Page
         /\ MovePointer(p, old, x, y).page.x = p.x
         /\ MovePointer(p, old, x, y).page.y = p.y
         /\ MovePointer(p, old, x, y).prev \in STRING
         /\ MovePointer(p, old, x, y).prev =
              IF x = mouse.x /\ y = mouse.y THEN old ELSE Drawn(p, x, y)
         /\ \A u \in 0 .. Width - 1, v \in 0 .. Height - 1 :
              u # x \/ v # y =>
                Drawn(MovePointer(p, old, x, y).page, u, v) =
                  IF u = mouse.x /\ v = mouse.y THEN old ELSE Drawn(p, u, v)
<1> DEFINE e == Draw(p, mouse.x, mouse.y, old)
           q == Draw(e, x, y, Pointer)
<1>1. /\ e \in Page /\ e.x = p.x /\ e.y = p.y
      /\ \A u \in 0 .. Width - 1, v \in 0 .. Height - 1 :
           Drawn(e, u, v) = IF u = mouse.x /\ v = mouse.y THEN old ELSE Drawn(p, u, v)
  BY DrawType
<1>2. MovePointer(p, old, x, y) = [page |-> q, prev |-> Drawn(e, x, y)]
  BY DEF MovePointer
<1> HIDE DEF e
<1>3. /\ q \in Page /\ q.x = e.x /\ q.y = e.y
      /\ \A u \in 0 .. Width - 1, v \in 0 .. Height - 1 :
           Drawn(q, u, v) = IF u = x /\ v = y THEN Pointer ELSE Drawn(e, u, v)
  BY <1>1, Characters, DrawType
<1>4. Drawn(e, x, y) \in STRING
  BY <1>1, Characters, DrawType
<1> HIDE DEF q
<1>5. /\ MovePointer(p, old, x, y).page = q
      /\ MovePointer(p, old, x, y).prev = Drawn(e, x, y)
  BY <1>2
<1> QED
  BY <1>1, <1>3, <1>4, <1>5

(* What the pointer puts back is what the text has there, on a page that   *)
(* is followed.                                                            *)
LEMMA PutBack ==
  ASSUME ScreenInv, clean, prev_char # Unset => ~touched, ~paint,
         prev_char = Unset => Drawn(screen, mouse.x, mouse.y) = S,
         NEW u \in 0 .. Width - 1, NEW v \in 0 .. Height - 1
  PROVE  Drawn(text, u, v) =
           IF u = mouse.x /\ v = mouse.y
             THEN IF prev_char = Unset THEN S ELSE prev_char
             ELSE Drawn(screen, u, v)
<1>1. mouse \in [x : 0 .. Width - 1, y : 0 .. Height - 1]
  BY DEF ScreenInv, PointerType
<1>2. mouse = [x |-> mouse.x, y |-> mouse.y]
  BY <1>1
<1>3. CASE prev_char = Unset
  <2>1. screen = text
    BY <1>3 DEF ScreenInv, NoPointer
  <2> QED
    BY <1>3, <2>1
<1>4. CASE prev_char # Unset
  <2>1. IF mouse = [x |-> u, y |-> v]
          THEN prev_char = Drawn(text, u, v)
          ELSE Drawn(screen, u, v) = Drawn(text, u, v)
    BY <1>4 DEF ScreenInv, PointerHarmless
  <2>2. mouse = [x |-> u, y |-> v] <=> u = mouse.x /\ v = mouse.y
    BY <1>2
  <2> QED
    BY <1>4, <2>1, <2>2
<1> QED
  BY <1>3, <1>4

LEMMA PacketKeeps ==
  ASSUME ScreenInv, NEW right \in BOOLEAN, NEW left \in BOOLEAN,
         NEW dx \in -1 .. 1, NEW dy \in -1 .. 1, Packet(right, left, dx, dy)
  PROVE  ScreenInv' /\ SheetStep
<1> DEFINE toggles == right /\ ~right_click /\ top = "shell"
           painting == IF toggles THEN ~paint ELSE paint
           p == IF toggles THEN clear_screen ELSE screen
           prev == IF toggles THEN Blank ELSE prev_char
           old == IF prev = Unset THEN S ELSE prev
           x == Clamp(mouse.x + dx, Width - 1)
           y == Clamp(mouse.y - dy, Height - 1)
           moved == IF painting /\ left
                      THEN [page |-> Draw(Draw(p, mouse.x, mouse.y, Pointer), x, y, Pointer),
                            prev |-> prev]
                      ELSE MovePointer(p, old, x, y)
<1>1. /\ screen' = IF toggles /\ painting THEN Labelled(moved.page) ELSE moved.page
      /\ prev_char' = moved.prev
      /\ text' = IF toggles THEN clear_screen ELSE text
      /\ paint' = painting
      /\ typing' = IF toggles THEN paint ELSE typing
      /\ mouse' = [x |-> x, y |-> y]
      /\ enter_flag' = (enter_flag \/ (toggles /\ paint))
      /\ touched' = FALSE
      /\ clean' = /\ toggles \/ clean
                  /\ prev_char = Unset /\ ~toggles => Drawn(screen, mouse.x, mouse.y) = S
                  /\ prev_char # Unset /\ ~toggles => ~touched
                  /\ moved.prev # Unset
      /\ intact' = (intact /\ (toggles => line = <<>>))
      /\ UNCHANGED <<line, command_pos, saved>>
  BY DEF Packet
<1>2. /\ mouse \in [x : 0 .. Width - 1, y : 0 .. Height - 1] /\ prev_char \in STRING
      /\ mouse.x \in 0 .. Width - 1 /\ mouse.y \in 0 .. Height - 1
      /\ {enter_flag, intact, typing, paint, clean, touched} \subseteq BOOLEAN
  BY DEF ScreenInv, PointerType
<1>3. x \in 0 .. Width - 1 /\ y \in 0 .. Height - 1
  <2>1. /\ mouse.x + dx \in Int /\ mouse.y - dy \in Int
        /\ Width - 1 \in Nat /\ Height - 1 \in Nat
    BY <1>2, SizesAreNat, SMT
  <2> QED
    BY <2>1, ClampType
<1>4. /\ p \in Page /\ prev \in STRING /\ old \in STRING
      /\ p.x = (IF toggles THEN clear_screen ELSE text).x
      /\ p.y = (IF toggles THEN clear_screen ELSE text).y
  BY <1>2, InvParts, ClearType, Characters
<1>5. toggles \in BOOLEAN /\ painting \in BOOLEAN
  BY <1>2
<1>6. toggles => p = clear_screen /\ prev = Blank /\ old = Blank /\ text' = clear_screen
  <2>1. Blank # Unset
    BY ScreenAssumption
  <2> QED
    BY <1>1, <2>1
<1>7. ~toggles => /\ p = screen /\ text' = text /\ painting = paint
                  /\ old = IF prev_char = Unset THEN S ELSE prev_char
  BY <1>1
<1> HIDE DEF toggles, painting, p, prev, old, x, y
<1>8. moved.page \in Page /\ moved.page.x = p.x /\ moved.page.y = p.y /\ moved.prev \in STRING
  <2>1. CASE painting /\ left
    <3> DEFINE e == Draw(p, mouse.x, mouse.y, Pointer)
               q == Draw(e, x, y, Pointer)
    <3>1. e \in Page /\ e.x = p.x /\ e.y = p.y
      BY <1>2, <1>4, Characters, DrawType
    <3> HIDE DEF e
    <3>2. q \in Page /\ q.x = e.x /\ q.y = e.y
      BY <1>3, <3>1, Characters, DrawType
    <3>3. moved = [page |-> q, prev |-> prev]
      BY <2>1 DEF e
    <3> HIDE DEF q, moved
    <3>4. moved.page = q /\ moved.prev = prev
      BY <3>3
    <3> QED
      BY <1>4, <3>1, <3>2, <3>4
  <2>2. CASE ~(painting /\ left)
    <3>1. moved = MovePointer(p, old, x, y)
      BY <2>2
    <3> DEFINE m == MovePointer(p, old, x, y)
    <3>2. m.page \in Page /\ m.page.x = p.x /\ m.page.y = p.y /\ m.prev \in STRING
      BY <1>2, <1>3, <1>4, MovePointerDoes
    <3> HIDE DEF moved, m
    <3>3. moved = m
      BY <3>1 DEF m
    <3> QED
      BY <3>2, <3>3, Zenon
  <2> QED
    BY <2>1, <2>2
<1>9. ~painting => moved = MovePointer(p, old, x, y)
  OBVIOUS
<1> HIDE DEF moved
<1>10. PagesType'
  <2>1. screen' \in Page /\ screen'.x = p.x /\ screen'.y = p.y
    BY <1>1, <1>8, LabelledType
  <2>2. text' \in Page /\ text'.x = p.x /\ text'.y = p.y
    BY <1>1, <1>4, InvParts, ClearType
  <2> QED
    BY <2>1, <2>2 DEF PagesType
<1>11. KeysType'
  BY <1>1 DEF ScreenInv, KeysType
<1>12. PointerType'
  <2>1. mouse' \in [x : 0 .. Width - 1, y : 0 .. Height - 1] /\ prev_char' \in STRING
    BY <1>1, <1>3, <1>8
  <2>2. typing' \in BOOLEAN /\ paint' \in BOOLEAN /\ touched' \in BOOLEAN
    BY <1>1, <1>2, <1>5
  <2>3. enter_flag' \in BOOLEAN /\ intact' \in BOOLEAN /\ clean' \in BOOLEAN
    BY <1>1, <1>2, <1>5
  <2> QED
    BY <2>1, <2>2, <2>3 DEF PointerType
<1>13. NoPointer'
  BY <1>1 DEF NoPointer
<1>14. PointerHarmless'
  <2> SUFFICES ASSUME clean', ~paint', NEW u \in 0 .. Width - 1, NEW v \in 0 .. Height - 1
               PROVE  IF mouse' = [x |-> u, y |-> v]
                        THEN prev_char' = Drawn(text', u, v)
                        ELSE Drawn(screen', u, v) = Drawn(text', u, v)
    BY DEF PointerHarmless
  <2>1. moved = MovePointer(p, old, x, y) /\ screen' = moved.page /\ prev_char' = moved.prev
    BY <1>1, <1>9
  <2>2. mouse' = [x |-> u, y |-> v] <=> u = x /\ v = y
    BY <1>1
  <2>3. Drawn(text', u, v) = IF u = mouse.x /\ v = mouse.y THEN old ELSE Drawn(p, u, v)
    <3>1. CASE toggles
      BY <1>6, <3>1, ClearDrawn
    <3>2. CASE ~toggles
      <4>1. /\ clean /\ ~paint /\ (prev_char # Unset => ~touched)
            /\ prev_char = Unset => Drawn(screen, mouse.x, mouse.y) = S
        <5>1. /\ toggles \/ clean
              /\ prev_char = Unset /\ ~toggles => Drawn(screen, mouse.x, mouse.y) = S
              /\ prev_char # Unset /\ ~toggles => ~touched
          BY <1>1, Zenon
        <5>2. ~paint
          BY <1>1, <1>7, <3>2
        <5> QED
          BY <3>2, <5>1, <5>2
      <4> QED
        BY <1>7, <3>2, <4>1, PutBack
    <3> QED
      BY <3>1, <3>2
  <2>4. CASE u = x /\ v = y
    BY <1>2, <1>3, <1>4, <2>1, <2>2, <2>3, <2>4, MovePointerDoes
  <2>5. CASE u # x \/ v # y
    BY <1>2, <1>3, <1>4, <2>1, <2>2, <2>3, <2>5, MovePointerDoes
  <2> QED
    BY <2>4, <2>5
<1>15. LineShown'
  <2> SUFFICES ASSUME intact', ~enter_flag' PROVE ShownTo(text', line', Len(line'))
    BY LineWords
  <2>1. CASE toggles
    <3>1. line' = <<>>
      BY <1>1, <2>1
    <3> QED
      BY <3>1 DEF ShownTo
  <2>2. CASE ~toggles
    <3>1. intact /\ ~enter_flag /\ text' = text /\ line' = line
      BY <1>1, <1>7, <2>2
    <3> QED
      BY <3>1, LineWords DEF ScreenInv
  <2> QED
    BY <2>1, <2>2
<1>16. SheetStep
  BY <1>6, <1>7, ClearShows DEF SheetStep, SheetNext
<1> QED
  BY <1>10, <1>11, <1>12, <1>13, <1>14, <1>15, <1>16 DEF ScreenInv

-----------------------------------------------------------------------------
(* The theorems *)

LEMMA InitInv ==
  ASSUME Init
  PROVE  ScreenInv /\ Sheet!Init
<1>1. /\ screen = clear_screen /\ text = clear_screen /\ line = <<>> /\ enter_flag = FALSE
      /\ command_pos = 0 /\ saved = [chars |-> <<>>, length |-> 0]
      /\ typing = TRUE /\ paint = FALSE /\ mouse = [x |-> 0, y |-> 0]
      /\ prev_char = Unset /\ intact = TRUE /\ clean = TRUE /\ touched = TRUE
  BY DEF Init
<1>2. PagesType
  BY <1>1, ClearType DEF PagesType
<1>3. KeysType
  <2>1. <<>> \in Seq(LineChars) /\ Len(<<>>) = 0 /\ 0 <= Limit /\ 0 \in 0 .. Len(History)
    BY LinesType, EmptySeq, SMT
  <2>2. saved.chars = <<>> /\ saved.length = 0
    BY <1>1
  <2> QED
    BY <1>1, <2>1, <2>2 DEF KeysType
<1>4. PointerType
  BY <1>1, SizesAreNat, Characters DEF PointerType
<1>5. NoPointer /\ PointerHarmless
  BY <1>1 DEF NoPointer, PointerHarmless
<1>6. LineShown
  BY <1>1, LineWords DEF ShownTo
<1>7. Sheet!Init
  <2>1. SheetOf(text) = Sheet!NewSheet
    BY <1>1, ClearShows
  <2> QED
    BY <2>1 DEF SheetOf, Rows, Sheet!Init
<1> QED
  BY <1>2, <1>3, <1>4, <1>5, <1>6, <1>7 DEF ScreenInv

LEMMA NextKeeps ==
  ASSUME ScreenInv, [Next]_vars
  PROVE  ScreenInv' /\ SheetStep
<1>1. ASSUME NEW s \in Output, Write(s)
      PROVE  ScreenInv' /\ SheetStep
  BY <1>1, WriteKeeps
<1>2. ASSUME Key
      PROVE  ScreenInv' /\ SheetStep
  BY <1>2, TypeKeeps, BackspaceKeeps, TabKeeps, EnterKeeps, UpKeeps, DownKeeps,
     ClearKeyKeeps, OtherKeyKeeps DEF Key
<1>3. ASSUME Read
      PROVE  ScreenInv' /\ SheetStep
  BY <1>3, ReadKeeps
<1>4. ASSUME NEW kind \in {"shell", "typing", "drawing"}, Foreground(kind)
      PROVE  ScreenInv' /\ SheetStep
  BY <1>4, ForegroundKeeps
<1>5. ASSUME NEW right \in BOOLEAN, NEW left \in BOOLEAN, NEW dx \in -1 .. 1,
             NEW dy \in -1 .. 1, Packet(right, left, dx, dy)
      PROVE  ScreenInv' /\ SheetStep
  BY <1>5, PacketKeeps
<1>6. ASSUME UNCHANGED vars
      PROVE  ScreenInv' /\ SheetStep
  <2>1. UNCHANGED <<screen, text, touched, line, enter_flag, command_pos, saved, typing,
                    paint, mouse, prev_char, clean, intact>>
    BY <1>6 DEF vars, page, keys, pointer, mode
  <2>2. PagesType' /\ KeysType' /\ PointerType' /\ NoPointer'
    BY <2>1 DEF ScreenInv, PagesType, KeysType, PointerType, NoPointer
  <2>3. PointerHarmless'
    BY <2>1 DEF ScreenInv, PointerHarmless
  <2>4. LineShown'
    BY <2>1, LineWords DEF ScreenInv
  <2> QED
    BY <2>1, <2>2, <2>3, <2>4 DEF ScreenInv, SheetStep
<1> QED
  BY <1>1, <1>2, <1>3, <1>4, <1>5, <1>6 DEF Next

LEMMA ScreenInvHolds == Spec => []ScreenInv
<1>1. Init => ScreenInv
  BY InitInv
<1>2. ScreenInv /\ [Next]_vars => ScreenInv'
  BY NextKeeps
<1> QED
  BY <1>1, <1>2, PTL DEF Spec

(* The screen shows the end of what a teletype would have printed since    *)
(* the last clear: putc and its scrolling, Enter's way around putc, a      *)
(* deletion at the start of a row and the redrawing of Up and Down lose    *)
(* and add no row and no character.                                        *)
THEOREM ShowsWhatIsPrinted == Spec => ShowsPaper
<1>1. Init => Sheet!Init
  BY InitInv
<1>2. ScreenInv /\ [Next]_vars =>
        [Sheet!Next]_[rows |-> text.above \o text.cells,
                      row |-> Len(text.above) + text.y + 1, col |-> text.x + 1]
  <2> SUFFICES ASSUME ScreenInv, [Next]_vars, text' # text
               PROVE  Sheet!Next
    OBVIOUS
  <2>1. SheetStep
    BY NextKeeps
  <2> QED
    BY <2>1, SheetWords DEF SheetStep
<1> QED
  BY <1>1, <1>2, ScreenInvHolds, PTL DEF Spec, ShowsPaper, Sheet!Spec

(* Whoever types, deletes or recalls a command sees before the cursor the  *)
(* line that Enter will deliver, over row ends and scrolling.              *)
THEOREM LineIsShown == Spec => []LineShown
<1>1. ScreenInv => LineShown
  BY DEF ScreenInv
<1> QED
  BY <1>1, ScreenInvHolds, PTL

(* The pointer, wherever it goes, hides one character, which prev_char     *)
(* keeps, and leaves the others, as long as nothing is printed under it.   *)
THEOREM PointerIsHarmless == Spec => []PointerHarmless
<1>1. ScreenInv => PointerHarmless
  BY DEF ScreenInv
<1> QED
  BY <1>1, ScreenInvHolds, PTL
=============================================================================
