------------------------------- MODULE Screen -------------------------------
(***************************************************************************)
(* What one terminal's screen shows: putc and its scrolling in lib.c, the  *)
(* echo of keyboard_handler, terminal_write, and the pointer that          *)
(* mouse_handler draws over the text.  All of them run with interrupts     *)
(* off, so that each is a step.                                            *)
(*                                                                         *)
(* The terminal is the displayed one; a hidden one prints by the same code *)
(* to its own page (module Video).  The line, its history and its readers  *)
(* are TerminalLine's: here only what they do to the screen, the commands  *)
(* of the history given.  Attributes are left out: every write of a        *)
(* character writes its terminal's colour too.                             *)
(***************************************************************************)
EXTENDS Integers, Sequences

CONSTANTS
  Width, Height,   \* NUM_COLS and NUM_ROWS: 80 and 25
  Typeable,        \* the characters of the keys
  Blank, LF,       \* the characters 32 and 10
  S,               \* 'S', which an unset prev_char stands for
  Pointer,         \* the character 0xDB
  Unset,           \* the character 0: prev_char before the first packet, and
                   \* what the Escape key types
  Title,           \* "PAINT"
  Output,          \* what programs write at once
  History,         \* the commands entered earlier, the latest first
  Limit,           \* the longest line: 72
  Scrolls          \* a bound: the rows that leave the screen

(* terminal_write skips the character 0.  A newline is not part of a line. *)
ASSUME ScreenAssumption ==
  /\ {Width, Height} \subseteq Nat \ {0} /\ Limit \in Nat
  /\ {Blank, LF, S, Pointer, Unset} \cup Typeable \subseteq STRING
  /\ Output \subseteq Seq(STRING \ {Unset})
  /\ Title \in Seq(STRING) /\ Len(Title) <= Width
  /\ History \in Seq(Seq(STRING \ {LF}))
  /\ \A r \in DOMAIN History : Len(History[r]) <= Limit
  /\ LF \notin Typeable \cup {Blank} /\ Blank # Unset

VARIABLES
  screen,       \* the video page: its cells, the cursor, and what has
                \* scrolled off, which nobody can see
  text,         \* the same as it would be without a pointer
  top,          \* the kind of program on top: "shell", or one that lets
                \* the user type, or one that draws
  line,         \* keyboard_buf up to keyboard_idx
  enter_flag,
  command_pos,
  saved,        \* row 0 of the history: its characters and its length
  typing,       \* typing_mask
  paint, right_click,
  mouse,        \* mouse_x and mouse_y
  prev_char,
  intact,       \* nothing has parted the line from the cursor
  clean,        \* since the last clear of the page, each packet found it as
                \* the one before had left it, and took up no character 0
  touched       \* the page has changed since the latest packet

page == <<screen, text, touched>>
keys == <<line, enter_flag, command_pos, saved>>
pointer == <<right_click, mouse, prev_char, clean>>
mode == <<top, typing, paint>>
vars == <<page, keys, pointer, mode, intact>>

-----------------------------------------------------------------------------
(* lib.c *)

Spaces(n) == [k \in 1 .. n |-> Blank]

clear_screen ==
  [above |-> <<>>, cells |-> [r \in 1 .. Height |-> Spaces(Width)], x |-> 0, y |-> 0]

set_cursor(p, x, y) == [p EXCEPT !.x = x, !.y = y]

(* Mutant of shift_screen: the last row is not blanked. *)
ShiftKeepsRow(p) ==
  [above |-> Append(p.above, p.cells[1]),
   cells |-> Append(Tail(p.cells), p.cells[Height]),
   x |-> 0, y |-> Height - 1]

shift_screen(p) ==
  [above |-> Append(p.above, p.cells[1]),
   cells |-> Append(Tail(p.cells), Spaces(Width)),
   x |-> 0, y |-> Height - 1]

putc(p, c) ==
  LET q == [p EXCEPT !.cells[p.y + 1][p.x + 1] = c]
      last == p.y + 1 > Height - 1
  IN CASE c = LF /\ last                     -> shift_screen(p)
       [] c = LF /\ ~last                    -> set_cursor(p, 0, p.y + 1)
       [] c # LF /\ p.x + 1 < Width          -> set_cursor(q, p.x + 1, p.y)
       [] c # LF /\ p.x + 1 = Width /\ last  -> shift_screen(q)
       [] c # LF /\ p.x + 1 = Width /\ ~last -> set_cursor(q, 0, p.y + 1)

puts(p, s) ==
  LET print[n \in 0 .. Len(s)] == IF n = 0 THEN p ELSE putc(print[n - 1], s[n])
  IN  print[Len(s)]

(* What puts prints of a buffer: nothing from its first 0 on. *)
CString(s) ==
  CHOOSE t \in {SubSeq(s, 1, n) : n \in 0 .. Len(s)} :
    /\ \A k \in 1 .. Len(t) : t[k] # Unset
    /\ Len(t) < Len(s) => s[Len(t) + 1] = Unset

Change(Op(_)) ==
  /\ screen' = Op(screen)
  /\ text' = Op(text)
  /\ Len(text'.above) <= Scrolls
  /\ touched' = TRUE

-----------------------------------------------------------------------------
(* terminal_write *)

Write(s) ==
  /\ Change(LAMBDA p : puts(p, s))
  /\ intact' = (intact /\ line = <<>>)
  /\ UNCHANGED <<keys, pointer, mode>>

-----------------------------------------------------------------------------
(* keyboard_handler.  An Enter that nobody has read makes the key's local  *)
(* copy of the line empty, but not the line itself.                        *)

LocalLine == IF enter_flag THEN <<>> ELSE line

KeyPress ==
  /\ enter_flag' = FALSE
  /\ UNCHANGED <<pointer, mode>>

Type(c) ==
  /\ typing
  /\ Len(LocalLine) < Limit
  /\ Change(LAMBDA p : putc(p, c))
  /\ line' = Append(LocalLine, c)
  /\ intact' = (intact /\ ~enter_flag)
  /\ UNCHANGED <<command_pos, saved>>
  /\ KeyPress

(* Mutant of Backspace: at the start of a row it stays there. *)
BackspaceStays ==
  /\ LocalLine # <<>>
  /\ screen.x > 0 \/ screen.y > 0
  /\ LET x == IF screen.x = 0 THEN 0 ELSE screen.x - 1 IN
     Change(LAMBDA p : set_cursor(putc(set_cursor(p, x, p.y), Blank), x, p.y))
  /\ line' = SubSeq(LocalLine, 1, Len(LocalLine) - 1)
  /\ saved' = [chars |-> LocalLine, length |-> Len(LocalLine) - 1]
  /\ UNCHANGED <<command_pos, intact>>
  /\ KeyPress

(* It keeps, in row 0 of the history, the line before the deletion with    *)
(* the length after it: Down shows one character too many.                 *)
Backspace ==
  /\ LocalLine # <<>>
  /\ screen.x > 0 \/ screen.y > 0
  /\ LET x == IF screen.x = 0 THEN Width - 1 ELSE screen.x - 1
         y == IF screen.x = 0 THEN screen.y - 1 ELSE screen.y
     IN Change(LAMBDA p : set_cursor(putc(set_cursor(p, x, y), Blank), x, y))
  /\ line' = SubSeq(LocalLine, 1, Len(LocalLine) - 1)
  /\ saved' = [chars |-> LocalLine, length |-> Len(LocalLine) - 1]
  /\ UNCHANGED <<command_pos, intact>>
  /\ KeyPress

Tab ==
  /\ Change(LAMBDA p : puts(p, Spaces(4)))
  /\ intact' = (intact /\ line = <<>>)
  /\ UNCHANGED <<line, command_pos, saved>>
  /\ KeyPress

Enter ==
  /\ typing
  /\ Change(LAMBDA p : IF p.y = Height - 1 THEN shift_screen(p) ELSE putc(p, LF))
  /\ enter_flag' = TRUE
  /\ intact' = (intact /\ ~enter_flag)
  /\ UNCHANGED <<line, command_pos, saved, pointer, mode>>

(* The row that is left, as long as the history says, becomes blank; the   *)
(* other is printed where the line begins.  A bound: both begin on the row *)
(* of the cursor; otherwise the code takes a column of more than 200.      *)
redraw(left, chars) ==
  /\ left <= screen.x /\ Len(line) <= screen.x
  /\ Change(LAMBDA p :
       LET blanked == puts(set_cursor(p, p.x - left, p.y), Spaces(left)) IN
       puts(set_cursor(blanked, p.x - Len(line), p.y), CString(chars)))

Up ==
  /\ typing
  /\ command_pos < Len(History)
  /\ redraw(IF command_pos = 0 THEN Len(line) ELSE Len(History[command_pos]),
            History[command_pos + 1])
  /\ command_pos' = command_pos + 1
  /\ saved' = IF command_pos = 0 THEN [chars |-> line, length |-> Len(line)] ELSE saved
  /\ line' = History[command_pos + 1]
  /\ intact' = (intact /\ ~enter_flag /\ CString(line') = line')
  /\ KeyPress

Down ==
  /\ typing
  /\ command_pos > 0
  /\ LET chars == IF command_pos = 1 THEN saved.chars ELSE History[command_pos - 1]
         length == IF command_pos = 1 THEN saved.length ELSE Len(chars)
     IN /\ redraw(Len(History[command_pos]), chars)
        /\ line' = SubSeq(chars, 1, length)
        /\ intact' = (intact /\ ~enter_flag /\ CString(chars) = line')
  /\ command_pos' = command_pos - 1
  /\ UNCHANGED saved
  /\ KeyPress

(* Control and L *)
ClearKey ==
  /\ Change(LAMBDA p : clear_screen)
  /\ intact' = (intact /\ line = <<>>)
  /\ UNCHANGED <<line, command_pos, saved>>
  /\ KeyPress

OtherKey ==
  /\ intact' = (intact /\ ~enter_flag)
  /\ UNCHANGED <<page, line, command_pos, saved>>
  /\ KeyPress

(* The end of terminal_read. *)
Read ==
  /\ enter_flag
  /\ enter_flag' = FALSE
  /\ line' = <<>>
  /\ intact' = TRUE
  /\ IF top = "shell"
       THEN command_pos' = 0 /\ saved' = [chars |-> <<>>, length |-> 0]
       ELSE UNCHANGED <<command_pos, saved>>
  /\ UNCHANGED <<page, pointer, mode>>

(* execute and halt *)
Foreground(kind) ==
  /\ top' = kind
  /\ typing' = (kind # "drawing")
  /\ UNCHANGED <<page, keys, pointer, paint, intact>>

-----------------------------------------------------------------------------
(* mouse_handler *)

Clamp(n, last) == IF n < 0 THEN 0 ELSE IF n > last THEN last ELSE n
Draw(p, x, y, c) == [p EXCEPT !.cells[y + 1][x + 1] = c]
Drawn(p, x, y) == p.cells[y + 1][x + 1]

(* Mutant of MovePointer: it looks at the page before it erases. *)
MoveWithoutErasing(p, old, x, y) ==
  [page |-> Draw(Draw(p, mouse.x, mouse.y, old), x, y, Pointer),
   prev |-> Drawn(p, x, y)]

(* Normal movement: erase the pointer, remember what will be under it. *)
MovePointer(p, old, x, y) ==
  LET erased == Draw(p, mouse.x, mouse.y, old) IN
  [page |-> Draw(erased, x, y, Pointer), prev |-> Drawn(erased, x, y)]

Labelled(p) ==
  [p EXCEPT !.cells[1] = [k \in 1 .. Width |-> IF k <= Len(Title) THEN Title[k] ELSE @[k]]]

(* A packet: the buttons and the movement in cells.  One that overflows is *)
(* left after its first byte, and what follows is then taken for packets.  *)
Packet(right, left, dx, dy) ==
  LET toggles == right /\ ~right_click /\ top = "shell"
      painting == IF toggles THEN ~paint ELSE paint
      p == IF toggles THEN clear_screen ELSE screen
      prev == IF toggles THEN Blank ELSE prev_char
      x == Clamp(mouse.x + dx, Width - 1)
      y == Clamp(mouse.y - dy, Height - 1)
      moved == IF painting /\ left
                 THEN [page |-> Draw(Draw(p, mouse.x, mouse.y, Pointer), x, y, Pointer),
                       prev |-> prev]
                 ELSE MovePointer(p, IF prev = Unset THEN S ELSE prev, x, y)
  IN /\ typing \/ paint
     /\ screen' = IF toggles /\ painting THEN Labelled(moved.page) ELSE moved.page
     /\ prev_char' = moved.prev
     /\ text' = IF toggles THEN clear_screen ELSE text
     /\ paint' = painting
     /\ typing' = IF toggles THEN paint ELSE typing
     /\ right_click' = right
     /\ mouse' = [x |-> x, y |-> y]
     /\ enter_flag' = (enter_flag \/ (toggles /\ paint))
     /\ touched' = FALSE
     /\ clean' = /\ toggles \/ clean
                 /\ prev_char = Unset /\ ~toggles => Drawn(screen, mouse.x, mouse.y) = S
                 /\ prev_char # Unset /\ ~toggles => ~touched
                 /\ moved.prev # Unset
     /\ intact' = (intact /\ (toggles => line = <<>>))
     /\ UNCHANGED <<line, command_pos, saved, top>>

-----------------------------------------------------------------------------
Init ==
  /\ screen = clear_screen
  /\ text = clear_screen
  /\ top = "shell"
  /\ line = <<>>
  /\ enter_flag = FALSE
  /\ command_pos = 0
  /\ saved = [chars |-> <<>>, length |-> 0]
  /\ typing = TRUE
  /\ paint = FALSE
  /\ right_click = FALSE
  /\ mouse = [x |-> 0, y |-> 0]
  /\ prev_char = Unset
  /\ intact = TRUE
  /\ clean = TRUE
  /\ touched = TRUE

Key ==
  \/ \E c \in Typeable : Type(c)
  \/ Backspace \/ Tab \/ Enter \/ Up \/ Down \/ ClearKey \/ OtherKey

Next ==
  \/ \E s \in Output : Write(s)
  \/ Key
  \/ Read
  \/ \E kind \in {"shell", "typing", "drawing"} : Foreground(kind)
  \/ \E right, left \in BOOLEAN, dx, dy \in -1 .. 1 : Packet(right, left, dx, dy)

Spec == Init /\ [][Next]_vars

-----------------------------------------------------------------------------
(* Properties *)

(* The text of the screen is the end of what has been printed since the    *)
(* last clear, at the places where a sheet without an end would have it:   *)
(* however characters, newlines, deletions over the start of a row, and    *)
(* recalled commands meet the right edge and the last row.                 *)
LineChars ==
  Typeable \cup UNION {{History[r][k] : k \in DOMAIN History[r]} : r \in DOMAIN History}

Sheet ==
  INSTANCE Paper WITH
    Texts <- Output \cup {<<c>> : c \in Typeable \cup {LF}} \cup {Spaces(4)},
    Lines <- UNION {[1 .. n -> LineChars] : n \in 0 .. Limit},
    sheet <- [rows |-> text.above \o text.cells,
              row |-> Len(text.above) + text.y + 1,
              col |-> text.x + 1]

ShowsPaper == Sheet!Spec

(* Before the cursor stands the line that Enter will deliver, over however *)
(* many rows, as long as no Tab, clear or output came into it, no Enter    *)
(* was left unread, Down did not go back to a row that Backspace left, and *)
(* no line with a 0 was recalled.                                          *)
At(k) == text.cells[(k \div Width) + 1][(k % Width) + 1]

LineShown ==
  intact /\ ~enter_flag =>
    LET cursor == text.y * Width + text.x IN
    \A k \in 1 .. Len(line) :
      cursor - Len(line) + k > 0 => At(cursor - Len(line) + k - 1) = line[k]

(* The pointer hides one character and spoils none, if nothing is printed  *)
(* between its first move and the last one.                                *)
PointerHarmless ==
  clean /\ ~touched /\ ~paint =>
    /\ \A x \in 0 .. Width - 1, y \in 0 .. Height - 1 :
         IF mouse = [x |-> x, y |-> y]
           THEN prev_char = Drawn(text, x, y)
           ELSE Drawn(screen, x, y) = Drawn(text, x, y)
=============================================================================
