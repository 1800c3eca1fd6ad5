-------------------------- MODULE TerminalLineProofs --------------------------
(***************************************************************************)
(* Theorems about TerminalLine, for lines, buffers and histories of any    *)
(* size, those of the code among them.                                     *)
(***************************************************************************)
EXTENDS TerminalLine, TLAPS

-----------------------------------------------------------------------------
(* TypeOK in three parts, of which an action disturbs one or two.          *)

LineTypes == /\ keyboard_buf \in Buffer
             /\ keyboard_idx \in 0 .. BufSize
             /\ command_buf \in [Row -> Buffer]
             /\ command_idx \in [Row -> 0 .. BufSize]
             /\ command_pos \in Row
             /\ row \in Row
             /\ j \in 0 .. BufSize

FlagTypes == {enter_flag, typing, shell, paint, dirty, clean} \subseteq BOOLEAN

ReaderTypes ==
  /\ pc \in {"idle", "newline"} \cup Looping \cup Filing \cup Resetting
  /\ i \in 0 .. BufSize \cup {UNSET}
  /\ nbytes \in NBytes \cup {0}
  /\ buf \in [0 .. BufSize -> Char \cup {NUL, LF}]
  /\ entered \in Buffer

(* The lines that the variables hold fit.                                  *)
LinesFit == /\ Fits(keyboard_buf, keyboard_idx)
            /\ \A r \in Row : Fits(command_buf[r], command_idx[r])

(* The loop of terminal_read stays within the line: whatever the size of   *)
(* the read, it meets a NUL at the limit.                                  *)
LoopFits == pc \in {"copy", "test"} => i \in 0 .. Limit

(* A byte of row 0 is cleared where one of row 1 has been stored.          *)
ClearOK == pc = "clear" => j < BufSize

(* The newline goes where the loop stopped.                                *)
CounterOK == pc = "newline" => i # UNSET

(* The history holds commands from row 1 to the one that is shown, also    *)
(* while terminal_read moves its rows, until it files an empty line.       *)
RowsOK == \A r \in 1 .. command_pos :
            \/ command_idx[r] # 0
            \/ r = 1 /\ pc \in {"clear_idx", "reset_pos"}

LineInv == LineTypes /\ LinesFit /\ LoopFits /\ ClearOK /\ RowsOK

ReadInv == FlagTypes /\ ReaderTypes /\ CounterOK

LEMMA Sizes == /\ Limit \in Nat \ {0}
               /\ BufSize \in Nat \ {0}
               /\ Limit < BufSize
               /\ Depth \in Nat
               /\ Depth > 1
               /\ 0 \in Row
               /\ 0 \in Index
               /\ UNSET \notin 0 .. BufSize
               /\ NBytes \subseteq Int
BY SizeAssumption, SMT DEF Row, Index, UNSET

LEMMA EmptyFits == Empty \in Buffer /\ Fits(Empty, 0)
BY Sizes, SMT DEF Empty, Buffer, Fits, Index

(* What a key leaves of a line still fits, and so does one shorter or      *)
(* longer by one character.                                                *)
LEMMA LocalFits ==
  ASSUME LineInv
  PROVE  /\ LocalBuf \in Buffer
         /\ LocalIdx \in 0 .. Limit
         /\ Fits(LocalBuf, LocalIdx)
<1>1. LocalBuf \in Buffer /\ LocalIdx \in 0 .. BufSize /\ Fits(LocalBuf, LocalIdx)
  BY EmptyFits, Sizes DEF LocalBuf, LocalIdx, LineInv, LineTypes, LinesFit
<1> QED
  BY <1>1, Sizes, SMT DEF Fits

LEMMA CharFits ==
  ASSUME NEW b \in Buffer, NEW n \in 0 .. Limit, Fits(b, n), n < Limit,
         NEW c \in Char \cup {NUL}
  PROVE  /\ [b EXCEPT ![n] = c] \in Buffer
         /\ n + 1 \in 0 .. BufSize
         /\ Fits([b EXCEPT ![n] = c], n + 1)
BY Sizes, SMT DEF Buffer, Fits, Index

LEMMA ShorterFits ==
  ASSUME NEW b \in Buffer, NEW n \in 1 .. Limit, Fits(b, n)
  PROVE  /\ [b EXCEPT ![n - 1] = NUL] \in Buffer
         /\ n - 1 \in 0 .. BufSize
         /\ Fits([b EXCEPT ![n - 1] = NUL], n - 1)
BY Sizes, SMT DEF Buffer, Fits, Index

LEMMA ByteFits ==
  ASSUME NEW b \in Buffer, NEW n, Fits(b, n), NEW k \in Index,
         NEW c \in Char \cup {NUL}, k >= Limit => c = NUL
  PROVE  /\ [b EXCEPT ![k] = c] \in Buffer
         /\ Fits([b EXCEPT ![k] = c], n)
BY Sizes, SMT DEF Buffer, Fits, Index

(* The rows keep their types and fit when one of them takes a line that    *)
(* fits.                                                                   *)
LEMMA RowTakes ==
  ASSUME LineInv, NEW r \in Row,
         NEW b \in Buffer, NEW n \in 0 .. BufSize, Fits(b, n)
  PROVE  /\ [command_buf EXCEPT ![r] = b] \in [Row -> Buffer]
         /\ [command_idx EXCEPT ![r] = n] \in [Row -> 0 .. BufSize]
         /\ \A q \in Row : Fits([command_buf EXCEPT ![r] = b][q],
                                [command_idx EXCEPT ![r] = n][q])
BY DEF LineInv, LineTypes, LinesFit

LEMMA RowTakesByte ==
  ASSUME LineInv, NEW r \in Row, NEW k \in Index,
         NEW c \in Char \cup {NUL}, k >= Limit => c = NUL
  PROVE  /\ [command_buf EXCEPT ![r][k] = c] \in [Row -> Buffer]
         /\ \A q \in Row : Fits([command_buf EXCEPT ![r][k] = c][q],
                                command_idx[q])
<1> DEFINE b == [command_buf[r] EXCEPT ![k] = c]
<1>1. command_buf \in [Row -> Buffer] /\ LinesFit
  BY DEF LineInv, LineTypes
<1>2. b \in Buffer /\ Fits(b, command_idx[r])
  BY <1>1, ByteFits DEF LinesFit
<1>3. [command_buf EXCEPT ![r][k] = c] = [command_buf EXCEPT ![r] = b]
  OBVIOUS
<1> HIDE DEF b
<1> QED
  BY <1>1, <1>2, <1>3 DEF LinesFit

-----------------------------------------------------------------------------
LEMMA LineInit == Init => LineInv
<1> SUFFICES ASSUME Init
             PROVE  LineInv
  OBVIOUS
<1>1. LineTypes
  BY Sizes, EmptyFits DEF Init, LineTypes
<1>2. LinesFit
  BY EmptyFits DEF Init, LinesFit
<1>3. RowsOK
  BY SMT DEF Init, RowsOK
<1>4. LoopFits /\ ClearOK
  BY DEF Init, LoopFits, ClearOK
<1> QED
  BY <1>1, <1>2, <1>3, <1>4 DEF LineInv

(* Whatever leaves the reader where it is keeps what is said of its place. *)
LEMMA KeptPlace ==
  ASSUME LineInv, UNCHANGED reader
  PROVE  /\ LoopFits' /\ ClearOK'
         /\ row' \in Row /\ j' \in 0 .. BufSize
         /\ pc' = pc
BY DEF LineInv, LineTypes, LoopFits, ClearOK, reader, local, place

(* What a key may leave: a line and a history that fit, and rows that hold *)
(* commands.                                                               *)
LEMMA KeyKeeps ==
  ASSUME LineInv, UNCHANGED reader,
         keyboard_buf' \in Buffer, keyboard_idx' \in 0 .. BufSize,
         Fits(keyboard_buf', keyboard_idx'),
         command_buf' \in [Row -> Buffer],
         command_idx' \in [Row -> 0 .. BufSize],
         \A r \in Row : Fits(command_buf'[r], command_idx'[r]),
         command_pos' \in Row, RowsOK'
  PROVE  LineInv'
BY KeptPlace DEF LineInv, LineTypes, LinesFit

(* A step of terminal_read that moves on and keeps the line and history.   *)
LEMMA Kept ==
  ASSUME LineInv, UNCHANGED <<line, history>>,
         pc \notin {"clear_idx", "reset_pos"},
         row' \in Row, j' \in 0 .. BufSize, LoopFits', ClearOK'
  PROVE  LineInv'
<1>1. RowsOK'
  BY DEF LineInv, RowsOK, history
<1> QED
  BY <1>1 DEF LineInv, LineTypes, LinesFit, line, history, Fits

LEMMA KeyLine == LineInv /\ Key => LineInv'
<1> SUFFICES ASSUME LineInv, Key
             PROVE  LineInv'
  OBVIOUS
<1>t. LineTypes /\ LinesFit /\ RowsOK
  BY DEF LineInv
<1>1. ASSUME NEW c \in Char \cup {NUL}, Type(c)
      PROVE  LineInv'
  <2>1. UNCHANGED <<command_buf, command_idx, command_pos, reader>>
    BY <1>1 DEF Type, KeyPress, history
  <2>2. /\ keyboard_buf' \in Buffer
        /\ keyboard_idx' \in 0 .. BufSize
        /\ Fits(keyboard_buf', keyboard_idx')
    BY <1>1, LocalFits, CharFits DEF Type
  <2>3. RowsOK'
    BY <1>t, <2>1 DEF RowsOK, reader
  <2> QED
    BY <1>t, <2>1, <2>2, <2>3, KeyKeeps DEF LineTypes, LinesFit
<1>2. CASE Backspace
  <2>1. keyboard_buf \in Buffer /\ LocalIdx \in 1 .. Limit
        /\ Fits(keyboard_buf, LocalIdx)
    <3>1. LocalIdx = keyboard_idx /\ LocalIdx \in 0 .. Limit /\ LocalIdx > 0
      BY <1>2, LocalFits, Sizes DEF Backspace, LocalIdx
    <3> QED
      BY <1>t, <3>1, Sizes DEF LineTypes, LinesFit
  <2>2. /\ keyboard_buf' \in Buffer
        /\ keyboard_idx' \in 0 .. BufSize
        /\ Fits(keyboard_buf', keyboard_idx')
    BY <1>2, <2>1, ShorterFits, Sizes DEF Backspace
  <2>3. LocalIdx - 1 \in 0 .. BufSize /\ Fits(LocalBuf, LocalIdx - 1)
    BY <2>1, LocalFits, Sizes, SMT DEF Fits
  <2>4. /\ command_buf' \in [Row -> Buffer]
        /\ command_idx' \in [Row -> 0 .. BufSize]
        /\ \A r \in Row : Fits(command_buf'[r], command_idx'[r])
    BY <1>2, <2>3, LocalFits, RowTakes, Sizes DEF Backspace
  <2>5. command_pos' = command_pos /\ UNCHANGED reader
    BY <1>2 DEF Backspace, KeyPress
  <2>6. pc' = pc
    BY <2>5 DEF reader
  <2>7. \A r \in 1 .. command_pos : command_idx'[r] = command_idx[r]
    BY <1>t, <1>2, Sizes DEF Backspace, LineTypes, Row
  <2>8. RowsOK'
    BY <1>t, <2>5, <2>6, <2>7 DEF RowsOK
  <2> QED
    BY <1>t, <2>2, <2>4, <2>5, <2>8, KeyKeeps DEF LineTypes
<1>3. CASE Up
  <2>1. command_pos \in Row /\ command_pos + 1 \in Row
    BY <1>t, <1>3, Sizes, SMT DEF Up, LineTypes, Row
  <2>2. /\ keyboard_buf' \in Buffer
        /\ keyboard_idx' \in 0 .. BufSize
        /\ Fits(keyboard_buf', keyboard_idx')
    BY <1>t, <1>3, <2>1 DEF Up, LineTypes, LinesFit
  <2>3. /\ command_buf' \in [Row -> Buffer]
        /\ command_idx' \in [Row -> 0 .. BufSize]
        /\ \A r \in Row : Fits(command_buf'[r], command_idx'[r])
    <3>1. CASE command_pos = 0
      BY <1>t, <1>3, <3>1, RowTakes, Sizes DEF Up, LineTypes, LinesFit
    <3>2. CASE command_pos # 0
      BY <1>t, <1>3, <3>2 DEF Up, LineTypes, LinesFit
    <3> QED
      BY <3>1, <3>2
  <2>4. command_pos' = command_pos + 1 /\ UNCHANGED reader
    BY <1>3 DEF Up, KeyPress
  <2>5. RowsOK'
    <3>1. \A r \in 1 .. command_pos + 1 : command_idx'[r] = command_idx[r]
      BY <1>t, <1>3, <2>1, Sizes, SMT DEF Up, LineTypes, Row
    <3>2. \A r \in 1 .. command_pos + 1 : \/ r \in 1 .. command_pos
                                          \/ r = command_pos + 1
      BY <2>1, SMT DEF Row
    <3>3. pc' = pc /\ command_idx[command_pos + 1] # 0
      BY <1>3, <2>4 DEF Up, reader
    <3> QED
      BY <1>t, <2>4, <3>1, <3>2, <3>3 DEF RowsOK
  <2> QED
    BY <2>1, <2>2, <2>3, <2>4, <2>5, KeyKeeps
<1>4. CASE Down
  <2>1. command_pos - 1 \in Row /\ command_pos \in Row
    BY <1>t, <1>4, Sizes, SMT DEF Down, LineTypes, Row
  <2>2. /\ keyboard_buf' \in Buffer
        /\ keyboard_idx' \in 0 .. BufSize
        /\ Fits(keyboard_buf', keyboard_idx')
    BY <1>t, <1>4, <2>1 DEF Down, LineTypes, LinesFit
  <2>3. UNCHANGED <<command_buf, command_idx, reader>>
        /\ command_pos' = command_pos - 1
    BY <1>4 DEF Down, KeyPress
  <2>4. RowsOK'
    <3>1. \A r \in 1 .. command_pos - 1 : r \in 1 .. command_pos
      BY <2>1, SMT DEF Row
    <3> QED
      BY <1>t, <2>3, <3>1 DEF RowsOK, reader
  <2> QED
    BY <1>t, <2>1, <2>2, <2>3, <2>4, KeyKeeps DEF LineTypes, LinesFit
<1>5. CASE Enter \/ OtherKey
  <2>1. UNCHANGED <<line, history, reader>>
    BY <1>5 DEF Enter, OtherKey, KeyPress
  <2>2. RowsOK'
    BY <1>t, <2>1 DEF RowsOK, history, reader
  <2> QED
    BY <1>t, <2>1, <2>2, KeyKeeps DEF LineTypes, LinesFit, line, history, Fits
<1> QED
  BY <1>1, <1>2, <1>3, <1>4, <1>5 DEF Key

(* The steps that file the line.                                           *)
LEMMA FilingLine ==
  LineInv /\ (ShiftByte \/ ShiftIdx \/ StoreByte \/ ClearByte \/ StoreIdx
                \/ ClearIdx \/ ResetPos) => LineInv'
<1> SUFFICES ASSUME LineInv
             PROVE  ShiftByte \/ ShiftIdx \/ StoreByte \/ ClearByte \/ StoreIdx
                      \/ ClearIdx \/ ResetPos => LineInv'
  OBVIOUS
<1>t. LineTypes /\ LinesFit /\ RowsOK /\ 0 \in Row /\ 1 \in Row
  BY Sizes, SMT DEF LineInv, Row
<1>b. \A r \in Row, k \in Index : /\ command_buf[r][k] \in Char \cup {NUL}
                                  /\ k >= Limit => command_buf[r][k] = NUL
  BY <1>t DEF LineTypes, LinesFit, Fits, Buffer
<1>1. CASE ShiftByte
  <2>1. /\ row \in Row /\ row - 1 \in Row /\ j \in Index /\ j + 1 \in 0 .. BufSize
        /\ pc' = "shift" /\ pc = "shift" /\ j' = j + 1
    BY <1>t, <1>1, Sizes, SMT DEF ShiftByte, LineTypes, Row, Index
  <2>2. /\ command_buf' \in [Row -> Buffer]
        /\ \A r \in Row : Fits(command_buf'[r], command_idx[r])
    BY <1>1, <1>b, <2>1, RowTakesByte DEF ShiftByte
  <2>3. UNCHANGED <<line, command_idx, command_pos, row>>
    BY <1>1 DEF ShiftByte
  <2> QED
    BY <1>t, <2>1, <2>2, <2>3
       DEF LineInv, LineTypes, LinesFit, LoopFits, ClearOK, RowsOK, line
<1>2. CASE ShiftIdx
  <2>1. /\ row \in Row /\ row - 1 \in Row /\ row > 1 /\ 0 \in 0 .. BufSize
        /\ pc' = "shift" /\ pc = "shift" /\ j' = 0 /\ row' = row - 1
    BY <1>t, <1>2, Sizes, SMT DEF ShiftIdx, LineTypes, Row
  <2>2. UNCHANGED <<line, command_buf, command_pos>>
    BY <1>2 DEF ShiftIdx
  <2>3. /\ command_idx' \in [Row -> 0 .. BufSize]
        /\ \A r \in Row : Fits(command_buf[r], command_idx'[r])
    <3>1. command_idx' = [command_idx EXCEPT ![row] = command_idx[row - 1]]
      BY <1>2 DEF ShiftIdx
    <3>2. \A r \in Row : command_idx[r] \in 0 .. BufSize
      BY <1>t DEF LineTypes
    <3>3. command_idx' \in [Row -> 0 .. BufSize]
      BY <1>t, <2>1, <3>1, <3>2 DEF LineTypes
    <3>4. \A r \in Row : command_idx'[r] <= Limit
      BY <1>t, <2>1, <3>1 DEF LineTypes, LinesFit, Fits
    <3> QED
      BY <1>t, <3>3, <3>4 DEF LinesFit, Fits
  <2>4. RowsOK'
    <3>1. \A r \in 1 .. command_pos : command_idx[r] # 0
      BY <1>t, <2>1 DEF RowsOK
    <3>2. \A r \in 1 .. command_pos :
            command_idx'[r] = IF r = row THEN command_idx[row - 1]
                                         ELSE command_idx[r]
      BY <1>t, <1>2, <2>1, SMT DEF ShiftIdx, LineTypes, Row
    <3>3. row \in 1 .. command_pos => row - 1 \in 1 .. command_pos
      BY <1>t, <2>1, SMT DEF LineTypes, Row
    <3> QED
      BY <2>2, <3>1, <3>2, <3>3 DEF RowsOK
  <2> QED
    BY <1>t, <2>1, <2>2, <2>3, <2>4
       DEF LineInv, LineTypes, LinesFit, LoopFits, ClearOK, line
<1>3. CASE StoreByte
  <2>1. /\ j \in Index /\ j < BufSize /\ j \in 0 .. BufSize
        /\ pc = "shift" /\ pc' = "clear" /\ j' = j /\ row' = row
    BY <1>t, <1>3, Sizes, SMT DEF StoreByte, LineTypes, Index, place
  <2>2. /\ keyboard_buf[j] \in Char \cup {NUL}
        /\ j >= Limit => keyboard_buf[j] = NUL
    BY <1>t, <2>1 DEF LineTypes, LinesFit, Fits, Buffer
  <2>3. /\ command_buf' \in [Row -> Buffer]
        /\ \A r \in Row : Fits(command_buf'[r], command_idx[r])
    BY <1>t, <1>3, <2>1, <2>2, RowTakesByte DEF StoreByte
  <2>4. UNCHANGED <<line, command_idx, command_pos>>
    BY <1>3 DEF StoreByte
  <2> QED
    BY <1>t, <2>1, <2>3, <2>4
       DEF LineInv, LineTypes, LinesFit, LoopFits, ClearOK, RowsOK, line
<1>4. CASE ClearByte
  <2>1. /\ j \in Index /\ j + 1 \in 0 .. BufSize
        /\ pc = "clear" /\ pc' = "shift" /\ j' = j + 1 /\ row' = row
    BY <1>t, <1>4, Sizes, SMT DEF ClearByte, LineInv, ClearOK, LineTypes, Index
  <2>2. /\ command_buf' \in [Row -> Buffer]
        /\ \A r \in Row : Fits(command_buf'[r], command_idx[r])
    BY <1>t, <1>4, <2>1, RowTakesByte DEF ClearByte
  <2>3. UNCHANGED <<line, command_idx, command_pos>>
    BY <1>4 DEF ClearByte
  <2> QED
    BY <1>t, <2>1, <2>2, <2>3
       DEF LineInv, LineTypes, LinesFit, LoopFits, ClearOK, RowsOK, line
<1>5. CASE StoreIdx
  <2>1. /\ pc = "shift" /\ pc' = "clear_idx"
        /\ UNCHANGED <<line, command_buf, command_pos, place>>
        /\ command_idx' = [command_idx EXCEPT ![1] = keyboard_idx]
    BY <1>5 DEF StoreIdx
  <2>2. keyboard_idx \in 0 .. BufSize /\ keyboard_idx <= Limit
    BY <1>t DEF LineTypes, LinesFit, Fits
  <2>3. /\ command_idx' \in [Row -> 0 .. BufSize]
        /\ \A r \in Row : Fits(command_buf[r], command_idx'[r])
    BY <1>t, <2>1, <2>2 DEF LineTypes, LinesFit, Fits
  <2>4. RowsOK'
    <3>1. \A r \in 1 .. command_pos : r # 1 => command_idx'[r] = command_idx[r]
      BY <1>t, <2>1 DEF LineTypes
    <3> QED
      BY <1>t, <2>1, <3>1 DEF RowsOK
  <2> QED
    BY <1>t, <2>1, <2>3, <2>4
       DEF LineInv, LineTypes, LinesFit, LoopFits, ClearOK, line, place
<1>6. CASE ClearIdx
  <2>1. /\ pc = "clear_idx" /\ pc' = "reset_pos"
        /\ UNCHANGED <<line, command_buf, command_pos, place>>
        /\ command_idx' = [command_idx EXCEPT ![0] = 0]
    BY <1>6 DEF ClearIdx
  <2>2. 0 \in 0 .. BufSize /\ 0 <= Limit
    BY Sizes
  <2>3. /\ command_idx' \in [Row -> 0 .. BufSize]
        /\ \A r \in Row : Fits(command_buf[r], command_idx'[r])
    BY <1>t, <2>1, <2>2 DEF LineTypes, LinesFit, Fits
  <2>4. RowsOK'
    <3>1. \A r \in 1 .. command_pos : command_idx'[r] = command_idx[r]
      BY <1>t, <2>1, SMT DEF LineTypes, Row
    <3> QED
      BY <1>t, <2>1, <3>1 DEF RowsOK
  <2> QED
    BY <1>t, <2>1, <2>3, <2>4
       DEF LineInv, LineTypes, LinesFit, LoopFits, ClearOK, line, place
<1>7. CASE ResetPos
  <2>1. /\ pc' = "reset_buf" /\ command_pos' = 0 /\ j' = 0 /\ row' = row
        /\ UNCHANGED <<line, command_buf, command_idx>>
    BY <1>7 DEF ResetPos
  <2>2. RowsOK'
    BY <2>1, SMT DEF RowsOK
  <2> QED
    BY <1>t, <2>1, <2>2, Sizes
       DEF LineInv, LineTypes, LinesFit, LoopFits, ClearOK, line, Fits
<1> QED
  BY <1>1, <1>2, <1>3, <1>4, <1>5, <1>6, <1>7

(* The other steps of terminal_read.                                       *)
LEMMA ReadLine ==
  LineInv /\ (Check \/ CopyByte \/ TestByte \/ Newline \/ ResetBuf \/ ResetIdx
                \/ ResetFlag) => LineInv'
<1> SUFFICES ASSUME LineInv
             PROVE  Check \/ CopyByte \/ TestByte \/ Newline \/ ResetBuf
                      \/ ResetIdx \/ ResetFlag => LineInv'
  OBVIOUS
<1>t. LineTypes /\ LinesFit /\ RowsOK /\ LoopFits
  BY DEF LineInv
<1>1. CASE Check
  <2>1. /\ pc = "check" /\ UNCHANGED <<line, history, place>>
        /\ \/ pc' = "newline"
           \/ pc' = "copy" /\ i' = 0
    BY <1>1 DEF Check
  <2>2. LoopFits' /\ ClearOK'
    BY <2>1, Sizes, SMT DEF LoopFits, ClearOK
  <2> QED
    BY <1>t, <2>1, <2>2, Kept DEF LineTypes, place
<1>2. CASE CopyByte
  <2>1. /\ pc = "copy" /\ pc' \in {"check", "test"}
        /\ UNCHANGED <<line, history, place, i>>
    BY <1>2 DEF CopyByte
  <2>2. LoopFits' /\ ClearOK'
    BY <1>t, <2>1 DEF LoopFits, ClearOK
  <2> QED
    BY <1>t, <2>1, <2>2, Kept DEF LineTypes, place
<1>3. CASE TestByte
  <2>1. /\ pc = "test" /\ UNCHANGED <<line, history, place>>
        /\ \/ pc' = "check"
           \/ pc' = "copy" /\ i' = i + 1 /\ keyboard_buf[i] # NUL
    BY <1>3 DEF TestByte
  <2>2. i \in 0 .. Limit /\ i \in Index
    BY <1>t, <2>1, Sizes, SMT DEF LoopFits, Index
  <2>3. keyboard_buf[i] # NUL => i < Limit
    BY <1>t, <2>2, Sizes, SMT DEF LinesFit, Fits
  <2>4. LoopFits' /\ ClearOK'
    BY <2>1, <2>2, <2>3, Sizes, SMT DEF LoopFits, ClearOK
  <2> QED
    BY <1>t, <2>1, <2>4, Kept DEF LineTypes, place
<1>4. CASE Newline
  <2>1. /\ pc = "newline" /\ pc' \in {"shift", "reset_buf"}
        /\ row' \in Row /\ j' \in 0 .. BufSize
        /\ UNCHANGED <<line, history>>
    BY <1>4, Sizes, SMT DEF Newline, Row
  <2> QED
    BY <2>1, Kept DEF LoopFits, ClearOK
<1>5. CASE ResetBuf
  <2>1. /\ j \in Index /\ j' \in 0 .. BufSize
        /\ pc = "reset_buf" /\ pc' \in {"reset_buf", "reset_idx"}
        /\ UNCHANGED <<keyboard_idx, history, row>>
        /\ keyboard_buf' = [keyboard_buf EXCEPT ![j] = NUL]
    BY <1>t, <1>5, Sizes, SMT DEF ResetBuf, LineTypes, Index
  <2>2. keyboard_buf' \in Buffer /\ Fits(keyboard_buf', keyboard_idx)
    BY <1>t, <2>1, ByteFits DEF LineTypes, LinesFit
  <2>3. RowsOK'
    BY <1>t, <2>1 DEF RowsOK, history
  <2> QED
    BY <1>t, <2>1, <2>2, <2>3
       DEF LineInv, LineTypes, LinesFit, LoopFits, ClearOK, history, Fits
<1>6. CASE ResetIdx
  <2>1. /\ pc = "reset_idx" /\ pc' = "reset_flag" /\ keyboard_idx' = 0
        /\ UNCHANGED <<keyboard_buf, history, place>>
    BY <1>6 DEF ResetIdx
  <2>2. RowsOK'
    BY <1>t, <2>1 DEF RowsOK, history
  <2> QED
    BY <1>t, <2>1, <2>2, Sizes
       DEF LineInv, LineTypes, LinesFit, LoopFits, ClearOK, history, place, Fits
<1>7. CASE ResetFlag
  <2>1. /\ pc = "reset_flag" /\ pc' = "idle"
        /\ row' \in Row /\ j' \in 0 .. BufSize
        /\ UNCHANGED <<line, history>>
    BY <1>7, Sizes DEF ResetFlag
  <2> QED
    BY <2>1, Kept DEF LoopFits, ClearOK
<1> QED
  BY <1>1, <1>2, <1>3, <1>4, <1>5, <1>6, <1>7

LEMMA LineStep == LineInv /\ [Next]_vars => LineInv'
<1> SUFFICES ASSUME LineInv, [Next]_vars
             PROVE  LineInv'
  OBVIOUS
<1>1. CASE RightClick \/ (\E s \in BOOLEAN, t \in BOOLEAN : Foreground(s, t))
             \/ UNCHANGED vars
  <2>1. UNCHANGED <<line, history, reader>>
    BY <1>1 DEF RightClick, Foreground, vars
  <2>2. RowsOK'
    BY <2>1 DEF LineInv, RowsOK, history, reader
  <2> QED
    BY <2>1, <2>2, KeyKeeps DEF LineInv, LineTypes, LinesFit, line, history, Fits
<1>2. CASE \E n \in NBytes : Call(n)
  <2>1. /\ pc = "idle" /\ pc' = "check"
        /\ UNCHANGED <<line, history, place>>
    BY <1>2 DEF Call
  <2> QED
    BY <2>1, Kept DEF LineInv, LineTypes, LoopFits, ClearOK, place
<1> QED
  BY <1>1, <1>2, KeyLine, FilingLine, ReadLine DEF Next, ReadStep

(* Every run keeps the line, the history and their types. *)
THEOREM LineInvariant == Spec => []LineInv
<1> QED
  BY LineInit, LineStep, PTL DEF Spec

(* No key pressed at any point of a read makes a line longer than 72       *)
(* characters, whatever is recalled, deleted or stored meanwhile, and the  *)
(* loop of a read stops at its end, whatever size it was asked for.        *)
THEOREM LinesAlwaysFit == Spec => []LineFits
<1>1. LineInv => LineFits
  BY Sizes DEF LineInv, LinesFit, LoopFits, LineFits
<1> QED
  BY <1>1, LineInvariant, PTL

(* Up and Down show a command that exists, also while a read moves the     *)
(* history under them byte by byte, but for an empty line that the read    *)
(* has filed before it resets the position.                                *)
THEOREM RecalledLinesExist == Spec => []RecalledLineExists
<1>1. LineInv => RecalledLineExists
  BY Sizes, SMT DEF LineInv, RowsOK, RecalledLineExists, LineTypes, Row
<1> QED
  BY <1>1, LineInvariant, PTL

-----------------------------------------------------------------------------
(* terminal_read keeps its counter in bounds, given a line of its type.    *)

LEMMA ReadInit == Init => ReadInv
<1> SUFFICES ASSUME Init
             PROVE  ReadInv
  OBVIOUS
<1>1. FlagTypes
  BY DEF Init, FlagTypes
<1>2. ReaderTypes
  BY Sizes, EmptyFits DEF Init, ReaderTypes, Fresh
<1>3. CounterOK
  BY DEF Init, CounterOK
<1> QED
  BY <1>1, <1>2, <1>3 DEF ReadInv

LEMMA FlagsStep == LineInv /\ ReadInv /\ [Next]_vars => FlagTypes'
<1> SUFFICES ASSUME FlagTypes, [Next]_vars
             PROVE  FlagTypes'
  BY DEF ReadInv
<1> USE DEF FlagTypes
<1>1. CASE Key
  BY <1>1 DEF Key, Type, Backspace, Enter, Up, Down, OtherKey, KeyPress, foreground
<1>2. CASE RightClick
  BY <1>2 DEF RightClick
<1>3. CASE (\E s \in BOOLEAN, t \in BOOLEAN : Foreground(s, t))
            \/ (\E n \in NBytes : Call(n))
  BY <1>3 DEF Foreground, Call, foreground, ghost
<1>4. CASE ReadStep
  BY <1>4 DEF ReadStep, Check, CopyByte, TestByte, Newline, ShiftByte, ShiftIdx,
              StoreByte, ClearByte, StoreIdx, ClearIdx, ResetPos, ResetBuf,
              ResetIdx, ResetFlag, foreground, ghost
<1>5. CASE UNCHANGED vars
  BY <1>5 DEF vars, foreground, ghost
<1> QED
  BY <1>1, <1>2, <1>3, <1>4, <1>5 DEF Next

LEMMA ReaderStep == LineInv /\ ReadInv /\ [Next]_vars => (ReaderTypes /\ CounterOK)'
<1> SUFFICES ASSUME LineTypes, LoopFits, ReaderTypes, CounterOK, [Next]_vars
             PROVE  (ReaderTypes /\ CounterOK)'
  BY DEF ReadInv, LineInv
<1>0. /\ {"check", "copy", "test", "newline", "shift", "clear", "clear_idx",
          "reset_pos", "reset_buf", "reset_idx", "reset_flag"}
           \subseteq {"idle", "newline"} \cup Looping \cup Filing \cup Resetting
  BY DEF Looping, Filing, Resetting
<1>1. CASE UNCHANGED <<reader, entered>>
  BY <1>1 DEF ReaderTypes, CounterOK, reader, local
<1>2. CASE Enter
  BY <1>2, EmptyFits DEF Enter, reader, local, ReaderTypes, CounterOK, LineTypes
<1>3. ASSUME NEW n \in NBytes, Call(n)
      PROVE  (ReaderTypes /\ CounterOK)'
  BY <1>0, <1>3 DEF Call, ReaderTypes, CounterOK
<1>4. CASE Check
  <2>1. \/ pc' = "newline" /\ i' \in 0 .. BufSize
        \/ pc' = "copy" /\ i' = 0
    BY <1>4 DEF Check, ReaderTypes
  <2>2. UNCHANGED <<nbytes, buf, entered>>
    BY <1>4 DEF Check
  <2> QED
    BY <1>0, <2>1, <2>2, Sizes DEF ReaderTypes, CounterOK
<1>5. CASE CopyByte
  <2>1. i \in 0 .. BufSize /\ keyboard_buf[i] \in Char \cup {NUL}
    <3>1. i \in 0 .. Limit
      BY <1>5 DEF CopyByte, LoopFits
    <3>2. i \in Index /\ i \in 0 .. BufSize
      BY <3>1, Sizes, SMT DEF Index
    <3> QED
      BY <3>2 DEF LineTypes, Buffer
  <2>2. /\ pc' \in {"check", "test"} /\ UNCHANGED <<i, nbytes, entered>>
        /\ buf' = buf \/ buf' = [buf EXCEPT ![i] = keyboard_buf[i]]
    BY <1>5 DEF CopyByte, ghost
  <2>3. buf' \in [0 .. BufSize -> Char \cup {NUL, LF}]
    BY <2>1, <2>2 DEF ReaderTypes
  <2> QED
    BY <1>0, <2>2, <2>3 DEF ReaderTypes, CounterOK
<1>6. CASE TestByte
  <2>1. i \in 0 .. Limit
    BY <1>6 DEF TestByte, LoopFits
  <2>2. /\ pc' \in {"check", "copy"} /\ i' \in {i, i + 1}
        /\ UNCHANGED <<nbytes, buf, entered>>
    BY <1>6 DEF TestByte, ghost
  <2>3. i' \in 0 .. BufSize
    BY <2>1, <2>2, Sizes, SMT
  <2> QED
    BY <1>0, <2>2, <2>3 DEF ReaderTypes, CounterOK
<1>7. CASE Newline
  <2>1. i \in 0 .. BufSize /\ pc' \in {"shift", "reset_buf"}
        /\ UNCHANGED <<i, nbytes, entered>>
    BY <1>7 DEF Newline, ReaderTypes, CounterOK, ghost
  <2>2. buf' \in [0 .. BufSize -> Char \cup {NUL, LF}]
    BY <1>7, <2>1 DEF Newline, ReaderTypes
  <2> QED
    BY <1>0, <2>1, <2>2 DEF ReaderTypes, CounterOK
<1>8. CASE ShiftByte \/ ShiftIdx \/ StoreByte \/ ClearByte \/ StoreIdx \/ ClearIdx
             \/ ResetPos \/ ResetBuf \/ ResetIdx
  <2>1. UNCHANGED <<i, nbytes, buf, entered>>
        /\ pc' \in {"shift", "clear", "clear_idx", "reset_pos", "reset_buf",
                    "reset_idx", "reset_flag"}
    BY <1>8 DEF ShiftByte, ShiftIdx, StoreByte, ClearByte, StoreIdx, ClearIdx,
                ResetPos, ResetBuf, ResetIdx, local, ghost
  <2> QED
    BY <1>0, <2>1 DEF ReaderTypes, CounterOK
<1>9. CASE ResetFlag
  BY <1>9, EmptyFits, Sizes DEF ResetFlag, ReaderTypes, CounterOK, Fresh
<1>10. CASE (\E c \in Char \cup {NUL} : Type(c)) \/ Backspace \/ Up \/ Down
            \/ OtherKey \/ RightClick
            \/ (\E s \in BOOLEAN, t \in BOOLEAN : Foreground(s, t))
            \/ UNCHANGED vars
  <2>1. UNCHANGED <<reader, entered>>
    BY <1>10 DEF Type, Backspace, Up, Down, OtherKey, KeyPress, RightClick,
                 Foreground, vars, ghost
  <2> QED
    BY <2>1, <1>1
<1> QED
  BY <1>2, <1>3, <1>4, <1>5, <1>6, <1>7, <1>8, <1>9, <1>10 DEF Next, Key, ReadStep

(* Every variable keeps its type: terminal_read stays within keyboard_buf  *)
(* although a program may ask for more bytes than it has, and stores at    *)
(* most one byte past the size that its caller gave.                       *)
THEOREM TypeCorrect == Spec => []TypeOK
<1>1. LineInv /\ ReadInv => TypeOK
  BY DEF LineInv, ReadInv, TypeOK, LineTypes, FlagTypes, ReaderTypes
<1>2. Init => ReadInv
  BY ReadInit
<1>3. LineInv /\ ReadInv /\ [Next]_vars => ReadInv'
  BY FlagsStep, ReaderStep DEF ReadInv
<1> QED
  BY <1>1, <1>2, <1>3, LineInvariant, PTL DEF Spec

-----------------------------------------------------------------------------
(***************************************************************************)
(* A read that nothing disturbs.  While it copies, an undisturbed pass has *)
(* copied a prefix of the line; once Enter is pressed the line stays as it *)
(* was shown until it is delivered and, for a shell, stored.               *)
(***************************************************************************)
Copied(b) == \A k \in 0 .. i - 1 : buf[k] = b[k] /\ b[k] # NUL
AtEnd(b) == i >= nbytes \/ b[i] = NUL

PassOK ==
  pc \in Looping /\ i # UNSET =>
    /\ ~dirty => /\ Copied(keyboard_buf)
                 /\ pc = "check" => AtEnd(keyboard_buf)
                 /\ pc = "test" => buf[i] = keyboard_buf[i]
    /\ enter_flag => ~dirty /\ entered = keyboard_buf

EnteredOK ==
  /\ pc \in {"newline"} \cup Filing => entered = keyboard_buf
  /\ pc = "newline" => i # UNSET /\ Copied(entered) /\ AtEnd(entered)
  /\ pc \in Filing \cup Resetting => Delivered(entered)

(* Of the line, row 1 has the bytes before j, and then all of it.          *)
FiledOK ==
  /\ pc = "shift" /\ row = 1 => \A k \in 0 .. j - 1 : command_buf[1][k] = entered[k]
  /\ pc = "clear" => row = 1 /\ \A k \in 0 .. j : command_buf[1][k] = entered[k]
  /\ pc \in {"clear_idx", "reset_pos"} => /\ command_buf[1] = entered
                                         /\ command_idx[1] = keyboard_idx
  /\ RecallsLine

CleanReadOK == /\ pc = "idle" => i = UNSET /\ ~clean
               /\ clean => PassOK /\ EnteredOK /\ FiledOK

LEMMA CleanReadInit == Init => CleanReadOK
BY DEF Init, CleanReadOK

(* A key is no part of a clean read but for what it does to the pass.      *)
LEMMA KeyFacts ==
  ASSUME LineInv, ReadInv,
         \/ \E c \in Char \cup {NUL} : Type(c)
         \/ Backspace \/ Up \/ Down \/ OtherKey
  PROVE  /\ UNCHANGED <<foreground, reader>>
         /\ enter_flag' = FALSE
         /\ clean' => clean /\ pc \in Looping
         /\ pc # "idle" /\ ~dirty' => ~dirty /\ keyboard_buf' = keyboard_buf
BY Zenon DEF Type, Backspace, Up, Down, OtherKey, KeyPress, ReadInv, FlagTypes

LEMMA CleanLoopStep ==
  LineInv /\ ReadInv /\ CleanReadOK /\ (Check \/ CopyByte \/ TestByte)
    => CleanReadOK'
<1> SUFFICES ASSUME LineInv, ReadInv, CleanReadOK
             PROVE  Check \/ CopyByte \/ TestByte => CleanReadOK'
  OBVIOUS
<1>t. /\ keyboard_buf \in Buffer
      /\ buf \in [0 .. BufSize -> Char \cup {NUL, LF}]
      /\ i \in 0 .. BufSize \cup {UNSET}
      /\ nbytes \in Int
      /\ pc \in {"copy", "test"} => i \in 0 .. BufSize /\ i # UNSET
      /\ UNSET \notin 0 .. BufSize
      /\ BufSize \in Nat
  BY Sizes, SMT DEF LineInv, LineTypes, LoopFits, ReadInv, ReaderTypes
<1> USE DEF CleanReadOK
<1>1. CASE Check
  <2>1. /\ pc = "check"
        /\ UNCHANGED <<line, enter_flag, nbytes, buf, entered, foreground>>
    BY <1>1 DEF Check
  <2>2. CASE enter_flag
    <3>1. pc' = "newline" /\ (clean' => clean /\ i # UNSET /\ i' = i)
      BY <1>1, <2>2 DEF Check
    <3>2. FiledOK'
      BY <3>1 DEF FiledOK, RecallsLine, Resetting
    <3> QED
      BY <2>1, <2>2, <3>1, <3>2 DEF PassOK, EnteredOK, Copied, AtEnd, Looping,
                                    Filing, Resetting, line
  <2>3. CASE ~enter_flag
    <3>1. pc' = "copy" /\ i' = 0 /\ dirty' = FALSE /\ clean' = clean
      BY <1>1, <2>3 DEF Check
    <3>2. Copied(keyboard_buf)'
      BY <3>1, SMT DEF Copied
    <3>3. FiledOK'
      BY <3>1 DEF FiledOK, RecallsLine, Resetting
    <3> QED
      BY <2>1, <2>3, <3>1, <3>2, <3>3 DEF PassOK, EnteredOK, Looping, Filing,
                                          Resetting
  <2> QED
    BY <2>2, <2>3
<1>2. CASE CopyByte
  <2>1. /\ pc = "copy" /\ i \in 0 .. BufSize /\ i # UNSET
        /\ UNCHANGED <<line, enter_flag, i, nbytes, entered, dirty, clean>>
    BY <1>2, <1>t DEF CopyByte, ghost
  <2>2. CASE i >= nbytes
    <3>1. pc' = "check" /\ UNCHANGED buf
      BY <1>2, <2>2 DEF CopyByte
    <3>2. FiledOK'
      BY <3>1 DEF FiledOK, RecallsLine, Resetting
    <3> QED
      BY <2>1, <2>2, <3>1, <3>2 DEF PassOK, EnteredOK, Copied, AtEnd, Looping,
                                    Filing, Resetting, line
  <2>3. CASE ~(i >= nbytes)
    <3>1. pc' = "test" /\ buf' = [buf EXCEPT ![i] = keyboard_buf[i]]
      BY <1>2, <2>3 DEF CopyByte
    <3>2. Copied(keyboard_buf) => Copied(keyboard_buf)'
      BY <1>t, <2>1, <3>1, SMT DEF Copied, line
    <3>3. buf'[i] = keyboard_buf[i]
      BY <1>t, <2>1, <3>1
    <3>4. FiledOK'
      BY <3>1 DEF FiledOK, RecallsLine, Resetting
    <3> QED
      BY <2>1, <3>1, <3>2, <3>3, <3>4 DEF PassOK, EnteredOK, Looping, Filing,
                                          Resetting, line
  <2> QED
    BY <2>2, <2>3
<1>3. CASE TestByte
  <2>1. /\ pc = "test" /\ i \in 0 .. BufSize /\ i # UNSET
        /\ UNCHANGED <<line, enter_flag, nbytes, buf, entered, dirty, clean>>
    BY <1>3, <1>t DEF TestByte, ghost
  <2>2. CASE keyboard_buf[i] = NUL
    <3>1. pc' = "check" /\ UNCHANGED i
      BY <1>3, <2>2 DEF TestByte
    <3>2. FiledOK'
      BY <3>1 DEF FiledOK, RecallsLine, Resetting
    <3> QED
      BY <2>1, <2>2, <3>1, <3>2 DEF PassOK, EnteredOK, Copied, AtEnd, Looping,
                                    Filing, Resetting, line
  <2>3. CASE keyboard_buf[i] # NUL
    <3>1. pc' = "copy" /\ i' = i + 1
      BY <1>3, <2>3 DEF TestByte
    <3>2. Copied(keyboard_buf) /\ buf[i] = keyboard_buf[i] => Copied(keyboard_buf)'
      BY <2>1, <2>3, <3>1, SMT DEF Copied, line
    <3>3. FiledOK'
      BY <3>1 DEF FiledOK, RecallsLine, Resetting
    <3> QED
      BY <2>1, <3>1, <3>2, <3>3 DEF PassOK, EnteredOK, Looping, Filing, Resetting,
                                    line
  <2> QED
    BY <2>2, <2>3
<1> QED
  BY <1>1, <1>2, <1>3

LEMMA CleanFilingStep ==
  LineInv /\ ReadInv /\ CleanReadOK
    /\ (ShiftByte \/ ShiftIdx \/ StoreByte \/ ClearByte \/ StoreIdx \/ ClearIdx
          \/ ResetPos)
    => CleanReadOK'
<1> SUFFICES ASSUME LineInv, ReadInv, CleanReadOK
             PROVE  ShiftByte \/ ShiftIdx \/ StoreByte \/ ClearByte \/ StoreIdx
                      \/ ClearIdx \/ ResetPos => CleanReadOK'
  OBVIOUS
<1>t. /\ keyboard_buf \in Buffer
      /\ command_buf \in [Row -> Buffer]
      /\ command_idx \in [Row -> 0 .. BufSize]
      /\ 0 \in Row /\ 1 \in Row
      /\ row \in Row /\ j \in 0 .. BufSize /\ BufSize \in Nat
  BY Sizes, SMT DEF LineInv, LineTypes, Row
<1>d. ASSUME pc \in Filing, pc' \in Filing \cup Resetting,
             UNCHANGED <<line, local, ghost>>, clean' => FiledOK'
      PROVE  CleanReadOK'
  BY <1>d DEF CleanReadOK, PassOK, EnteredOK, Delivered, Looping, Filing,
              Resetting, line, local, ghost
<1>1. CASE ShiftByte
  <2>1. /\ pc = "shift" /\ pc' = "shift" /\ row > 1 /\ row' = row
        /\ UNCHANGED <<line, local, ghost>>
    BY <1>1 DEF ShiftByte
  <2>2. FiledOK'
    BY <1>t, <2>1, SMT DEF FiledOK, RecallsLine, Resetting, Row
  <2> QED
    BY <1>d, <2>1, <2>2 DEF Filing
<1>2. CASE ShiftIdx
  <2>1. /\ pc = "shift" /\ pc' = "shift" /\ j' = 0
        /\ UNCHANGED <<line, local, ghost>>
    BY <1>2 DEF ShiftIdx
  <2>2. FiledOK'
    BY <2>1, SMT DEF FiledOK, RecallsLine, Resetting
  <2> QED
    BY <1>d, <2>1, <2>2 DEF Filing
<1>3. CASE StoreByte
  <2>1. /\ pc = "shift" /\ pc' = "clear" /\ row = 1 /\ UNCHANGED <<row, j>>
        /\ j \in Index
        /\ command_buf' = [command_buf EXCEPT ![1][j] = keyboard_buf[j]]
        /\ UNCHANGED <<line, local, ghost>>
    BY <1>t, <1>3, SMT DEF StoreByte, place, Index
  <2>2. ASSUME clean'
        PROVE  FiledOK'
    <3>1. /\ entered' = keyboard_buf
          /\ \A k \in 0 .. j - 1 : command_buf[1][k] = keyboard_buf[k]
      BY <2>1, <2>2 DEF CleanReadOK, EnteredOK, FiledOK, Filing, ghost
    <3>2. \A k \in Index : command_buf'[1][k] =
                             IF k = j THEN keyboard_buf[j] ELSE command_buf[1][k]
      BY <1>t, <2>1 DEF Buffer
    <3>3. \A k \in 0 .. j : k \in Index /\ (k = j \/ k \in 0 .. j - 1)
      BY <1>t, <2>1, SMT DEF Index
    <3>4. \A k \in 0 .. j : command_buf'[1][k] = entered'[k]
      BY <3>1, <3>2, <3>3
    <3> QED
      BY <2>1, <3>4 DEF FiledOK, RecallsLine, Resetting
  <2> QED
    BY <1>d, <2>1, <2>2 DEF Filing
<1>4. CASE ClearByte
  <2>1. /\ pc = "clear" /\ pc' = "shift" /\ row' = row /\ j' = j + 1
        /\ command_buf' = [command_buf EXCEPT ![0][j] = NUL]
        /\ UNCHANGED <<line, local, ghost>>
    BY <1>4 DEF ClearByte
  <2>2. ASSUME clean'
        PROVE  FiledOK'
    <3>1. \A k \in 0 .. j : command_buf[1][k] = entered[k]
      BY <2>1, <2>2 DEF CleanReadOK, FiledOK, ghost
    <3>2. command_buf'[1] = command_buf[1] /\ entered' = entered
      BY <1>t, <2>1 DEF ghost
    <3>3. j' - 1 = j
      BY <1>t, <2>1
    <3>4. \A k \in 0 .. j' - 1 : command_buf'[1][k] = entered'[k]
      BY <3>1, <3>2, <3>3, Zenon
    <3> QED
      BY <2>1, <3>4 DEF FiledOK, RecallsLine, Resetting
  <2> QED
    BY <1>d, <2>1, <2>2 DEF Filing
<1>5. CASE StoreIdx
  <2>1. /\ pc = "shift" /\ pc' = "clear_idx" /\ row = 1 /\ j = BufSize
        /\ command_idx' = [command_idx EXCEPT ![1] = keyboard_idx]
        /\ UNCHANGED <<line, command_buf, local, ghost>>
    BY <1>5 DEF StoreIdx
  <2>2. ASSUME clean'
        PROVE  FiledOK'
    <3>1. /\ entered \in Buffer /\ command_buf[1] \in Buffer
          /\ \A k \in 0 .. j - 1 : command_buf[1][k] = entered[k]
      BY <1>t, <2>1, <2>2 DEF CleanReadOK, EnteredOK, FiledOK, Filing, ghost
    <3>2. \A k \in Index : command_buf[1][k] = entered[k]
      BY <2>1, <3>1 DEF Index
    <3>3. command_buf[1] = entered
      BY <3>1, <3>2 DEF Buffer
    <3>4. command_idx'[1] = keyboard_idx'
      BY <1>t, <2>1 DEF line
    <3> QED
      BY <2>1, <3>3, <3>4 DEF FiledOK, RecallsLine, Resetting, ghost
  <2> QED
    BY <1>d, <2>1, <2>2 DEF Filing
<1>6. CASE ClearIdx
  <2>1. /\ pc = "clear_idx" /\ pc' = "reset_pos"
        /\ command_idx' = [command_idx EXCEPT ![0] = 0]
        /\ UNCHANGED <<line, command_buf, local, ghost>>
    BY <1>6 DEF ClearIdx
  <2>2. command_idx'[1] = command_idx[1]
    BY <1>t, <2>1
  <2>3. clean' => FiledOK'
    BY <2>1, <2>2 DEF CleanReadOK, FiledOK, RecallsLine, Resetting, line, ghost
  <2> QED
    BY <1>d, <2>1, <2>3 DEF Filing
<1>7. CASE ResetPos
  <2>1. /\ pc = "reset_pos" /\ pc' = "reset_buf" /\ command_pos' = 0
        /\ UNCHANGED <<line, command_buf, command_idx, local, ghost>>
    BY <1>7 DEF ResetPos
  <2>2. clean' => FiledOK'
    BY <2>1 DEF CleanReadOK, FiledOK, RecallsLine, Resetting, line, ghost
  <2> QED
    BY <1>d, <2>1, <2>2 DEF Filing, Resetting
<1> QED
  BY <1>1, <1>2, <1>3, <1>4, <1>5, <1>6, <1>7

LEMMA CleanResetStep ==
  LineInv /\ ReadInv /\ CleanReadOK
    /\ (Newline \/ ResetBuf \/ ResetIdx \/ ResetFlag)
    => CleanReadOK'
<1> SUFFICES ASSUME LineInv, ReadInv, CleanReadOK
             PROVE  Newline \/ ResetBuf \/ ResetIdx \/ ResetFlag => CleanReadOK'
  OBVIOUS
<1>t. /\ buf \in [0 .. BufSize -> Char \cup {NUL, LF}]
      /\ i \in 0 .. BufSize \cup {UNSET}
      /\ UNSET \notin 0 .. BufSize
      /\ BufSize \in Nat
  BY Sizes DEF ReadInv, ReaderTypes
<1>1. CASE Newline
  <2>1. /\ pc = "newline" /\ pc' = (IF shell THEN "shift" ELSE "reset_buf")
        /\ buf' = [buf EXCEPT ![i] = LF] /\ j' = 0
        /\ UNCHANGED <<line, shell, i, nbytes, entered, clean>>
    BY <1>1 DEF Newline, foreground, ghost
  <2>2. clean => /\ i \in 0 .. BufSize /\ entered = keyboard_buf
                 /\ Copied(entered) /\ AtEnd(entered)
    BY <1>t, <2>1 DEF CleanReadOK, EnteredOK
  <2>3. clean => Delivered(entered)'
    BY <1>t, <2>1, <2>2, SMT DEF Copied, AtEnd, Delivered
  <2>4. FiledOK'
    BY <2>1, SMT DEF FiledOK, RecallsLine, Resetting
  <2> QED
    BY <2>1, <2>2, <2>3, <2>4 DEF CleanReadOK, PassOK, EnteredOK, Looping, Filing,
                                  Resetting, line
<1>2. CASE ResetBuf
  <2>1. /\ pc = "reset_buf" /\ pc' \in {"reset_buf", "reset_idx"}
        /\ UNCHANGED <<keyboard_idx, history, shell, local, ghost>>
    BY <1>2 DEF ResetBuf, foreground
  <2>2. clean => FiledOK'
    BY <2>1 DEF CleanReadOK, FiledOK, RecallsLine, Resetting, history, ghost
  <2> QED
    BY <2>1, <2>2 DEF CleanReadOK, PassOK, EnteredOK, Delivered, Looping, Filing,
                      Resetting, local, ghost
<1>3. CASE ResetIdx
  <2>1. /\ pc = "reset_idx" /\ pc' = "reset_flag"
        /\ UNCHANGED <<history, shell, local, ghost>>
    BY <1>3 DEF ResetIdx, foreground
  <2>2. clean => FiledOK'
    BY <2>1 DEF CleanReadOK, FiledOK, RecallsLine, Resetting, history, ghost
  <2> QED
    BY <2>1, <2>2 DEF CleanReadOK, PassOK, EnteredOK, Delivered, Looping, Filing,
                      Resetting, local, ghost
<1>4. CASE ResetFlag
  BY <1>4 DEF ResetFlag, CleanReadOK
<1> QED
  BY <1>1, <1>2, <1>3, <1>4

LEMMA CleanReadStep ==
  LineInv /\ ReadInv /\ CleanReadOK /\ [Next]_vars => CleanReadOK'
<1> SUFFICES ASSUME LineInv, ReadInv, CleanReadOK, [Next]_vars
             PROVE  CleanReadOK'
  OBVIOUS
<1>1. CASE (\E c \in Char \cup {NUL} : Type(c)) \/ Backspace \/ Up \/ Down
             \/ OtherKey
  <2>1. /\ UNCHANGED <<foreground, reader>>
        /\ enter_flag' = FALSE
        /\ clean' => clean /\ pc \in Looping
        /\ pc # "idle" /\ ~dirty' => ~dirty /\ keyboard_buf' = keyboard_buf
    BY <1>1, KeyFacts
  <2>2. clean' => FiledOK'
    BY <2>1 DEF FiledOK, RecallsLine, Looping, Resetting, reader
  <2> QED
    BY <2>1, <2>2 DEF CleanReadOK, PassOK, EnteredOK, Copied, AtEnd, Looping,
                      Filing, Resetting, reader, local
<1>2. CASE Enter
  <2>1. /\ UNCHANGED <<line, reader, dirty>>
        /\ clean' => /\ clean /\ ~dirty /\ i # UNSET
                     /\ pc \in Looping
                     /\ entered' = keyboard_buf
    BY <1>2 DEF Enter
  <2>2. clean' => FiledOK'
    BY <2>1 DEF FiledOK, RecallsLine, Looping, Resetting, reader
  <2> QED
    BY <2>1, <2>2 DEF CleanReadOK, PassOK, EnteredOK, Copied, AtEnd, Looping,
                      Filing, Resetting, reader, local, line
<1>3. CASE RightClick
  <2>1. /\ UNCHANGED <<line, history, shell, reader, entered, dirty>>
        /\ clean' => clean /\ (enter_flag' <=> enter_flag)
    BY <1>3 DEF RightClick
  <2>2. clean' => FiledOK'
    BY <2>1 DEF CleanReadOK, FiledOK, RecallsLine, line, history, reader, place
  <2> QED
    BY <2>1, <2>2 DEF CleanReadOK, PassOK, EnteredOK, Copied, AtEnd, Delivered,
                      reader, local, line
<1>4. ASSUME NEW s \in BOOLEAN, NEW t \in BOOLEAN, Foreground(s, t)
      PROVE  CleanReadOK'
  BY <1>4 DEF Foreground, CleanReadOK, reader, local, ghost
<1>5. ASSUME NEW n \in NBytes, Call(n)
      PROVE  CleanReadOK'
  BY <1>5 DEF Call, CleanReadOK, PassOK, EnteredOK, FiledOK, RecallsLine, Looping,
              Filing, Resetting
<1>6. CASE UNCHANGED vars
  BY <1>6 DEF vars, line, history, foreground, reader, local, place, ghost,
              CleanReadOK, PassOK, EnteredOK, FiledOK, RecallsLine, Copied, AtEnd,
              Delivered
<1> QED
  BY <1>1, <1>2, <1>3, <1>4, <1>5, <1>6, CleanLoopStep, CleanFilingStep,
     CleanResetStep DEF Next, Key, ReadStep

(* Every run keeps what a clean read relies on.                            *)
THEOREM CleanReadInvariant == Spec => []CleanReadOK
<1>1. Init => ReadInv /\ CleanReadOK
  BY ReadInit, CleanReadInit
<1>2. LineInv /\ ReadInv /\ [Next]_vars => ReadInv'
  BY FlagsStep, ReaderStep DEF ReadInv
<1>3. LineInv /\ ReadInv /\ CleanReadOK /\ [Next]_vars => CleanReadOK'
  BY CleanReadStep
<1> QED
  BY <1>1, <1>2, <1>3, LineInvariant, PTL DEF Spec

(* terminal_read hands a process the line that was shown when Enter was    *)
(* pressed, although it copies while keys change the line.                 *)
THEOREM LineIsDelivered == Spec => []DeliversLine
<1>1. CleanReadOK => DeliversLine
  BY DEF CleanReadOK, EnteredOK, DeliversLine
<1> QED
  BY <1>1, CleanReadInvariant, PTL

(* A shell's command and its length are in the row of the history that Up  *)
(* shows first.                                                            *)
THEOREM LineIsRecalled == Spec => []RecallsLine
<1>1. CleanReadOK => RecallsLine
  BY DEF CleanReadOK, FiledOK, RecallsLine
<1> QED
  BY <1>1, CleanReadInvariant, PTL
=============================================================================
