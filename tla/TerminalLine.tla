---------------------------- MODULE TerminalLine ----------------------------
(***************************************************************************)
(* The line editor of one terminal: keyboard_handler of keyboard.c, which  *)
(* an interrupt runs, terminal_read of terminal.c, which a process runs    *)
(* with interrupts enabled, and the clicks of mouse.c that begin and end   *)
(* painting.  They share keyboard_buf, keyboard_idx and enter_flag of the  *)
(* terminal_t without a lock.  A handler is one step; terminal_read is one *)
(* step for each byte and each variable that it copies, tests or stores.   *)
(*                                                                         *)
(* Terminals share nothing of this: a key goes to the displayed terminal,  *)
(* and to this module while that is this terminal.                         *)
(***************************************************************************)
EXTENDS Integers

CONSTANTS Char,       \* the characters of the code tables, without NUL
          NUL, LF,    \* the characters 0 and 10
          Limit,      \* the longest line: 72
          BufSize,    \* the bytes of keyboard_buf: 128
          Depth,      \* the rows of command_buf: 10
          NBytes      \* the sizes that programs pass to read

ASSUME SizeAssumption == /\ Limit \in Nat \ {0}
                         /\ BufSize \in Nat
                         /\ Limit < BufSize
                         /\ Depth \in Nat
                         /\ Depth > 1
                         /\ NBytes \subseteq Int
ASSUME CharAssumption == /\ NUL \notin Char
                         /\ LF \notin Char \cup {NUL}

UNSET == -1      \* an uninitialised i
Index == 0 .. BufSize - 1
Row == 0 .. Depth - 1
Buffer == [Index -> Char \cup {NUL}]
Empty == [k \in Index |-> NUL]
Fresh == [k \in 0 .. BufSize |-> NUL]
Looping == {"check", "copy", "test"}
Filing == {"shift", "clear", "clear_idx", "reset_pos"}
Resetting == {"reset_buf", "reset_idx", "reset_flag"}

VARIABLES
  keyboard_buf, keyboard_idx, enter_flag,
  command_buf, command_idx, command_pos,
  typing,         \* typing_mask of the terminal
  shell,          \* shell_mask of the process on top of the terminal
  paint,          \* paint of mouse.c
  pc,             \* where terminal_read is, "idle" outside of it
  i, nbytes, buf, \* its counter, its size and the user's buffer
  row, j,         \* the row of the history it moves, and the byte of it
  entered,        \* the line that was shown when Enter was last pressed
  dirty,          \* a key has changed the line since the pass began
  clean           \* nothing has disturbed the read in progress

line == <<keyboard_buf, keyboard_idx>>
history == <<command_buf, command_idx, command_pos>>
foreground == <<typing, shell, paint>>
local == <<i, nbytes, buf>>
place == <<row, j>>
reader == <<pc, local, place>>
ghost == <<entered, dirty, clean>>
vars == <<line, enter_flag, history, foreground, reader, ghost>>

Init ==
  /\ keyboard_buf = Empty
  /\ keyboard_idx = 0
  /\ enter_flag = FALSE
  /\ command_buf = [r \in Row |-> Empty]
  /\ command_idx = [r \in Row |-> 0]
  /\ command_pos = 0
  /\ typing = TRUE
  /\ shell = TRUE
  /\ paint = FALSE
  /\ pc = "idle"
  /\ i = UNSET
  /\ nbytes = 0
  /\ buf = Fresh
  /\ row = 0
  /\ j = 0
  /\ entered = Empty
  /\ dirty = FALSE
  /\ clean = FALSE

-----------------------------------------------------------------------------
(* keyboard_handler: it works on local copies, empty ones if Enter has     *)
(* been pressed and not read yet, and clears the flag.                     *)

LocalBuf == IF enter_flag THEN Empty ELSE keyboard_buf
LocalIdx == IF enter_flag THEN 0 ELSE keyboard_idx

(* What any key does: the local copies are written back by some keys only. *)
(* A key in the middle of terminal_read's epilogue, or one that wipes out  *)
(* an Enter, disturbs the read.                                            *)
KeyPress ==
  /\ dirty' = (pc # "idle" /\ (dirty \/ keyboard_buf' # keyboard_buf))
  /\ UNCHANGED <<foreground, reader>>
  /\ clean' = /\ clean
              /\ ~enter_flag
              /\ pc \in Looping

TypeUnbounded(c) ==
  /\ typing
  /\ LocalIdx <= Limit
  /\ keyboard_buf' = [LocalBuf EXCEPT ![LocalIdx] = c]
  /\ keyboard_idx' = LocalIdx + 1
  /\ enter_flag' = FALSE
  /\ KeyPress
  /\ UNCHANGED <<history, entered>>

(* Escape is the character NUL in all four code tables. *)
Type(c) ==
  /\ typing
  /\ LocalIdx < Limit
  /\ keyboard_buf' = [LocalBuf EXCEPT ![LocalIdx] = c]
  /\ keyboard_idx' = LocalIdx + 1
  /\ enter_flag' = FALSE
  /\ KeyPress
  /\ UNCHANGED <<history, entered>>

BackspaceAtStart ==
  /\ keyboard_idx' = LocalIdx - 1
  /\ keyboard_buf' = [keyboard_buf EXCEPT ![LocalIdx - 1] = NUL]
  /\ command_buf' = [command_buf EXCEPT ![0] = LocalBuf]
  /\ command_idx' = [command_idx EXCEPT ![0] = LocalIdx - 1]
  /\ enter_flag' = FALSE
  /\ KeyPress
  /\ UNCHANGED <<command_pos, entered>>

(* The history keeps the line as it was before the deletion.  At the home  *)
(* position of the screen nothing is deleted: that is OtherKey.            *)
Backspace ==
  /\ LocalIdx > 0
  /\ keyboard_idx' = LocalIdx - 1
  /\ keyboard_buf' = [keyboard_buf EXCEPT ![LocalIdx - 1] = NUL]
  /\ command_buf' = [command_buf EXCEPT ![0] = LocalBuf]
  /\ command_idx' = [command_idx EXCEPT ![0] = LocalIdx - 1]
  /\ enter_flag' = FALSE
  /\ KeyPress
  /\ UNCHANGED <<command_pos, entered>>

(* A pass of terminal_read that a key has disturbed, or no pass at all, is *)
(* no copy of the line.                                                    *)
Enter ==
  /\ typing
  /\ enter_flag' = TRUE
  /\ clean' = /\ clean
              /\ ~enter_flag
              /\ ~dirty
              /\ i # UNSET
              /\ pc \in Looping
  /\ entered' = IF clean' THEN keyboard_buf ELSE Empty
  /\ UNCHANGED <<line, history, foreground, reader, dirty>>

Up ==
  /\ typing
  /\ command_pos < Depth - 1
  /\ command_idx[command_pos + 1] # 0
  /\ command_pos' = command_pos + 1
  /\ IF command_pos = 0
       THEN /\ command_buf' = [command_buf EXCEPT ![0] = keyboard_buf]
            /\ command_idx' = [command_idx EXCEPT ![0] = keyboard_idx]
       ELSE UNCHANGED <<command_buf, command_idx>>
  /\ keyboard_buf' = command_buf[command_pos + 1]
  /\ keyboard_idx' = command_idx[command_pos + 1]
  /\ enter_flag' = FALSE
  /\ KeyPress
  /\ UNCHANGED entered

Down ==
  /\ typing
  /\ command_pos > 0
  /\ command_pos' = command_pos - 1
  /\ keyboard_buf' = command_buf[command_pos - 1]
  /\ keyboard_idx' = command_idx[command_pos - 1]
  /\ enter_flag' = FALSE
  /\ KeyPress
  /\ UNCHANGED <<command_buf, command_idx, entered>>

(* Every other key, press or release, and every key that is refused above: *)
(* releases of Enter and of the letters among them.                        *)
OtherKey ==
  /\ enter_flag' = FALSE
  /\ UNCHANGED <<line, history, entered>>
  /\ KeyPress

-----------------------------------------------------------------------------
(* A right click over a shell begins or ends painting; ending it pretends  *)
(* that Enter was pressed.                                                 *)
RightClick ==
  /\ shell
  /\ typing \/ paint
  /\ paint' = ~paint
  /\ typing' = paint
  /\ enter_flag' = (enter_flag \/ paint)
  /\ clean' = (clean /\ ~paint)
  /\ UNCHANGED <<line, history, shell, reader, entered, dirty>>

(* execute and halt put another program on top of the terminal. *)
Foreground(s, t) ==
  /\ pc = "idle"
  /\ s => t
  /\ shell' = s
  /\ typing' = t
  /\ UNCHANGED <<line, enter_flag, history, paint, reader, ghost>>

-----------------------------------------------------------------------------
(* terminal_read *)

Call(n) ==
  /\ pc = "idle"
  /\ pc' = "check"
  /\ nbytes' = n
  /\ clean' = TRUE
  /\ UNCHANGED <<line, enter_flag, history, foreground, i, buf, place, entered,
                 dirty>>

CheckStale ==
  /\ pc = "check"
  /\ pc' = "copy"
  /\ i' = 0
  /\ dirty' = FALSE
  /\ UNCHANGED <<line, enter_flag, history, foreground, nbytes, buf, place,
                 entered, clean>>

CheckGoesOn ==
  /\ pc = "check"
  /\ IF enter_flag
       THEN /\ pc' = "newline"
            /\ IF i = UNSET
                 THEN i' \in 0 .. BufSize /\ clean' = FALSE
                 ELSE UNCHANGED <<i, clean>>
            /\ UNCHANGED dirty
       ELSE /\ pc' = "copy"
            /\ i' = IF i = UNSET THEN 0 ELSE i
            /\ dirty' = FALSE
            /\ UNCHANGED clean
  /\ UNCHANGED <<line, enter_flag, history, foreground, nbytes, buf, place,
                 entered>>

(* The loop condition.  If the flag is set on entry, i has whatever value  *)
(* its stack slot has: the ones past the end stand for all beyond it.      *)
Check ==
  /\ pc = "check"
  /\ IF enter_flag
       THEN /\ pc' = "newline"
            /\ IF i = UNSET
                 THEN i' \in 0 .. BufSize /\ clean' = FALSE
                 ELSE UNCHANGED <<i, clean>>
            /\ UNCHANGED dirty
       ELSE /\ pc' = "copy"
            /\ i' = 0
            /\ dirty' = FALSE
            /\ UNCHANGED clean
  /\ UNCHANGED <<line, enter_flag, history, foreground, nbytes, buf, place,
                 entered>>

(* The byte is read twice: to be copied and to be compared with NUL.       *)
CopyByte ==
  /\ pc = "copy"
  /\ IF i >= nbytes
       THEN pc' = "check" /\ UNCHANGED buf
       ELSE pc' = "test" /\ buf' = [buf EXCEPT ![i] = keyboard_buf[i]]
  /\ UNCHANGED <<line, enter_flag, history, foreground, i, nbytes, place,
                 ghost>>

TestByte ==
  /\ pc = "test"
  /\ IF keyboard_buf[i] = NUL
       THEN pc' = "check" /\ UNCHANGED i
       ELSE pc' = "copy" /\ i' = i + 1
  /\ UNCHANGED <<line, enter_flag, history, foreground, nbytes, buf, place,
                 ghost>>

NewlineSwapped ==
  /\ pc = "newline"
  /\ buf' = [buf EXCEPT ![i] = LF]
  /\ pc' = IF shell THEN "reset_buf" ELSE "shift"
  /\ row' = Depth - 1
  /\ j' = 0
  /\ UNCHANGED <<line, enter_flag, history, foreground, i, nbytes, ghost>>

Newline ==
  /\ pc = "newline"
  /\ buf' = [buf EXCEPT ![i] = LF]
  /\ pc' = IF shell THEN "shift" ELSE "reset_buf"
  /\ row' = Depth - 1
  /\ j' = 0
  /\ UNCHANGED <<line, enter_flag, history, foreground, i, nbytes, ghost>>

(* The rows of the history move back, each byte by byte and then its index. *)
ShiftByte ==
  /\ pc = "shift"
  /\ row > 1
  /\ j < BufSize
  /\ command_buf' = [command_buf EXCEPT ![row][j] = command_buf[row - 1][j]]
  /\ j' = j + 1
  /\ UNCHANGED <<line, enter_flag, command_idx, command_pos, foreground, pc,
                 local, row, ghost>>

ShiftIdx ==
  /\ pc = "shift"
  /\ row > 1
  /\ j = BufSize
  /\ command_idx' = [command_idx EXCEPT ![row] = command_idx[row - 1]]
  /\ row' = row - 1
  /\ j' = 0
  /\ UNCHANGED <<line, enter_flag, command_buf, command_pos, foreground, pc,
                 local, ghost>>

(* The line becomes row 1, and row 0 is emptied along with it. *)
StoreByte ==
  /\ pc = "shift"
  /\ row = 1
  /\ j < BufSize
  /\ command_buf' = [command_buf EXCEPT ![1][j] = keyboard_buf[j]]
  /\ pc' = "clear"
  /\ UNCHANGED <<line, enter_flag, command_idx, command_pos, foreground, local,
                 place, ghost>>

ClearByte ==
  /\ pc = "clear"
  /\ command_buf' = [command_buf EXCEPT ![0][j] = NUL]
  /\ pc' = "shift"
  /\ j' = j + 1
  /\ UNCHANGED <<line, enter_flag, command_idx, command_pos, foreground, local,
                 row, ghost>>

StoreIdx ==
  /\ pc = "shift"
  /\ row = 1
  /\ j = BufSize
  /\ command_idx' = [command_idx EXCEPT ![1] = keyboard_idx]
  /\ pc' = "clear_idx"
  /\ UNCHANGED <<line, enter_flag, command_buf, command_pos, foreground, local,
                 place, ghost>>

ClearIdx ==
  /\ pc = "clear_idx"
  /\ command_idx' = [command_idx EXCEPT ![0] = 0]
  /\ pc' = "reset_pos"
  /\ UNCHANGED <<line, enter_flag, command_buf, command_pos, foreground, local,
                 place, ghost>>

KeepPos ==
  /\ pc = "reset_pos"
  /\ pc' = "reset_buf"
  /\ j' = 0
  /\ UNCHANGED <<line, enter_flag, history, foreground, local, row, ghost>>

ResetPos ==
  /\ pc = "reset_pos"
  /\ command_pos' = 0
  /\ pc' = "reset_buf"
  /\ j' = 0
  /\ UNCHANGED <<line, enter_flag, command_buf, command_idx, foreground, local,
                 row, ghost>>

(* memset; the code clears four bytes at a time where it can.              *)
ResetBuf ==
  /\ pc = "reset_buf"
  /\ j < BufSize
  /\ keyboard_buf' = [keyboard_buf EXCEPT ![j] = NUL]
  /\ j' = j + 1
  /\ pc' = IF j' = BufSize THEN "reset_idx" ELSE "reset_buf"
  /\ UNCHANGED <<keyboard_idx, enter_flag, history, foreground, local, row,
                 ghost>>

ResetIdx ==
  /\ pc = "reset_idx"
  /\ keyboard_idx' = 0
  /\ pc' = "reset_flag"
  /\ UNCHANGED <<keyboard_buf, enter_flag, history, foreground, local, place,
                 ghost>>

(* read returns i + 1, and its local variables are gone. *)
ResetFlag ==
  /\ pc = "reset_flag"
  /\ enter_flag' = FALSE
  /\ pc' = "idle"
  /\ i' = UNSET
  /\ nbytes' = 0
  /\ row' = 0
  /\ j' = 0
  /\ buf' = Fresh
  /\ entered' = Empty
  /\ dirty' = FALSE
  /\ clean' = FALSE
  /\ UNCHANGED <<line, history, foreground>>

Key == \/ \E c \in Char \cup {NUL} : Type(c)
       \/ Backspace \/ Enter \/ Up \/ Down \/ OtherKey

ReadStep == \/ Check \/ CopyByte \/ TestByte \/ Newline
            \/ ShiftByte \/ ShiftIdx
            \/ StoreByte \/ ClearByte \/ StoreIdx \/ ClearIdx \/ ResetPos
            \/ ResetBuf \/ ResetIdx \/ ResetFlag

Next ==
  \/ Key
  \/ RightClick
  \/ \E s \in BOOLEAN, t \in BOOLEAN : Foreground(s, t)
  \/ \E n \in NBytes : Call(n)
  \/ ReadStep

Spec == Init /\ [][Next]_vars

(* A process that reads gets the processor again and again; nobody need    *)
(* ever press a key.                                                       *)
FairSpec == Spec /\ WF_vars(ReadStep)

-----------------------------------------------------------------------------
(* Properties *)

TypeOK ==
  /\ keyboard_buf \in Buffer
  /\ keyboard_idx \in 0 .. BufSize
  /\ enter_flag \in BOOLEAN
  /\ command_buf \in [Row -> Buffer]
  /\ command_idx \in [Row -> 0 .. BufSize]
  /\ command_pos \in Row
  /\ typing \in BOOLEAN
  /\ shell \in BOOLEAN
  /\ paint \in BOOLEAN
  /\ pc \in {"idle", "newline"} \cup Looping \cup Filing \cup Resetting
  /\ i \in 0 .. BufSize \cup {UNSET}
  /\ nbytes \in NBytes \cup {0}
  /\ buf \in [0 .. BufSize -> Char \cup {NUL, LF}]
  /\ row \in Row
  /\ j \in 0 .. BufSize
  /\ entered \in Buffer
  /\ dirty \in BOOLEAN
  /\ clean \in BOOLEAN

Fits(b, n) == n <= Limit /\ \A k \in Index : k >= Limit => b[k] = NUL

(* No key, in whatever state it finds the line, the history or a read that *)
(* is under way, makes a line longer than the limit: terminal_read's loop, *)
(* whatever size it is asked for, and the next key's store stay inside     *)
(* keyboard_buf.                                                           *)
LineFits ==
  /\ Fits(keyboard_buf, keyboard_idx)
  /\ \A r \in Row : Fits(command_buf[r], command_idx[r])
  /\ pc \in {"copy", "test"} => i <= Limit

(* The loop has delivered the characters of b up to its first NUL or to    *)
(* the size of the read, and a newline after them.                         *)
Delivered(b) ==
  /\ \A k \in 0 .. i - 1 : buf[k] = b[k] /\ b[k] # NUL
  /\ i >= nbytes \/ b[i] = NUL
  /\ buf[i] = LF

(* A read that no hazard disturbs returns the line that was on the screen  *)
(* when Enter was pressed, although it copies while keys change the line.  *)
DeliversLine ==
  clean /\ pc \in Filing \cup Resetting => Delivered(entered)

(* Such a read by a shell leaves the line, with its length, where the next *)
(* Up finds it.                                                            *)
RecallsLine ==
  clean /\ shell /\ pc \in Resetting =>
    /\ command_buf[1] = entered
    /\ pc \in {"reset_buf", "reset_idx"} => command_idx[1] = keyboard_idx
    /\ command_pos = 0

(* Up and Down never stop at a row that holds no command, but for the row  *)
(* that terminal_read has just filed, before it resets the position.       *)
RecalledLineExists ==
  command_pos > 0 => \/ command_idx[command_pos] # 0
                     \/ command_pos = 1 /\ pc \in {"clear_idx", "reset_pos"}

(* A read is not deaf to an Enter that lasts. *)
EnterHeard == ~<>[](pc # "idle" /\ enter_flag)
=============================================================================
