------------------------------- MODULE Paper -------------------------------
(***************************************************************************)
(* A teletype: what is printed since the last clear stands on a sheet that *)
(* grows at its end.  The screen is promised to show its last rows.        *)
(***************************************************************************)
EXTENDS Integers, Sequences

CONSTANTS Width, Height, Blank, LF,
          Texts,      \* what may be printed at once
          Lines       \* what may replace a line

VARIABLE sheet   \* its rows, and the row and the column of the next character

Blanks(n) == [k \in 1 .. n |-> Blank]
NewSheet == [rows |-> [r \in 1 .. Height |-> Blanks(Width)], row |-> 1, col |-> 1]

NextRow(s) ==
  [rows |-> IF s.row = Len(s.rows) THEN Append(s.rows, Blanks(Width)) ELSE s.rows,
   row |-> s.row + 1,
   col |-> 1]

Ink(s, c) ==
  LET inked == [s EXCEPT !.rows[s.row][s.col] = c] IN
  IF c = LF THEN NextRow(s)
  ELSE IF s.col = Width THEN NextRow(inked)
  ELSE [inked EXCEPT !.col = @ + 1]

Printed(s, chars) ==
  LET print[n \in 0 .. Len(chars)] ==
        IF n = 0 THEN s ELSE Ink(print[n - 1], chars[n])
  IN  print[Len(chars)]

Left(s, n) == [s EXCEPT !.col = @ - n]

Write(chars) == sheet' = Printed(sheet, chars)

(* The place before the next one becomes blank, and the next one. *)
Erase ==
  LET back == IF sheet.col > 1 THEN Left(sheet, 1)
              ELSE [sheet EXCEPT !.row = @ - 1, !.col = Width]
  IN  /\ sheet.col > 1 \/ sheet.row > 1
      /\ sheet' = [back EXCEPT !.rows[back.row][back.col] = Blank]

(* Blanks over the last characters, and others from an earlier place on. *)
Retype(old, shown, chars) ==
  /\ old < sheet.col /\ shown < sheet.col
  /\ sheet' = Printed(Left(Printed(Left(sheet, old), Blanks(old)), shown), chars)

Clear == sheet' = NewSheet

Init == sheet = NewSheet

Next ==
  \/ \E chars \in Texts : Write(chars)
  \/ Erase
  \/ \E old, shown \in 0 .. Width, chars \in Lines : Retype(old, shown, chars)
  \/ Clear

Spec == Init /\ [][Next]_sheet
=============================================================================
