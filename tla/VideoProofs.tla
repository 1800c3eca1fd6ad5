----------------------------- MODULE VideoProofs -----------------------------
(***************************************************************************)
(* Theorems about Video, for any number of terminals and outputs.          *)
(***************************************************************************)
EXTENDS Video, TLAPS

-----------------------------------------------------------------------------
(* In the middle of vidmap, the entry not yet being set. *)
Unset(t) == pc[t] \in {"page", "address"} /\ t \notin users

(* What page 0xB8 is, while no handler and no vidmap has misled anybody:   *)
(* the screen for whoever is displayed, and for a hidden program that      *)
(* draws, its terminal's frame, which the TLB may remember.  For any other *)
(* process the TLB remembers nothing but the screen.                       *)
PageOK ==
  ~derailed /\ vidmapped =>
    /\ run = cur_terminal /\ ~Unset(run) => pte = VIDEO
    /\ HandlerMisleads => pte = TERM(run) /\ tlb \in {NONE, TERM(run)}
    /\ ~HandlerMisleads => tlb \in {NONE, VIDEO}

(* Whoever draws has had the page marked present. *)
Marked(t) ==
  /\ t \in users \/ pc[t] \in {"page", "address", "terminals"} => vidmapped
  /\ t \in users \/ pc[t] \in {"address", "terminals"} => VIDEO \in present

(* Nothing goes wrong without a vidmap or a fault. *)
VidmapFirst ==
  /\ ~vidmapped => tlb \in {NONE, VIDEO}
  /\ derailed => vidmapped \/ Faulted # {}
  /\ raced => Faulted # {}
  /\ \A t \in Terminal : Marked(t)

(* Nobody interrupts the only message that is coming out; its character is *)
(* shown between MessageShow and MessageMove.                              *)
CursorOK ==
  ~raced =>
    /\ \A t, u \in Printing : t = u
    /\ \A t \in Terminal :
         pc[t] = "struct" => hw_cursor = cursor[cur_terminal] + 1
    /\ (\A t \in Terminal : pc[t] # "struct") =>
         hw_cursor = cursor[cur_terminal]

VideoInv == TypeOK /\ VidmapFirst /\ PageOK /\ CursorOK /\ ScreensFaithful

LEMMA Frames == /\ VIDEO \in Frame /\ VIDEO \notin Terminal
                /\ Terminal \subseteq Frame
                /\ NONE \notin Frame
                /\ \A t \in Terminal : Target(t) \in Frame /\ TERM(t) \in Frame
BY NTermAssumption, SMT DEF VIDEO, Frame, Terminal, NONE, Target, TERM

LEMMA ThroughFrame ==
  ASSUME TypeOK, NEW p \in Frame
  PROVE  Through(p) \in Frame
BY Frames DEF Through, TypeOK

(* The frame that each kind of store reaches. *)
LEMMA PageReached ==
  ASSUME TypeOK, VidmapFirst, PageOK, ~derailed
  PROVE  /\ run = cur_terminal /\ ~Unset(run) => Through(pte) = VIDEO
         /\ ~HandlerMisleads => Through(VIDEO) = VIDEO
         /\ run \in users => Through(pte) = Target(run)
<1>1. run \in Terminal
  BY DEF TypeOK, run
<1>2. CASE ~vidmapped
  BY <1>1, <1>2 DEF Through, VidmapFirst, Marked
<1>3. CASE vidmapped
  <2>1. run = cur_terminal => ~HandlerMisleads
    BY DEF HandlerMisleads
  <2>2. run \in users /\ run # cur_terminal => HandlerMisleads
    BY DEF HandlerMisleads, Drawing
  <2>3. run \in users => ~Unset(run)
    BY DEF Unset
  <2> QED
    BY <1>1, <1>3, <2>1, <2>2, <2>3, Frames DEF PageOK, Through, Target, TERM
<1> QED
  BY <1>2, <1>3

(* What has gone wrong once is not made good again. *)
LEMMA RemainsBad ==
  ASSUME [Next]_vars
  PROVE  (derailed => derailed') /\ (raced => raced')
<1>1. derailed => derailed'
  BY DEF Next, Step, Stopped, TerminalWrite, UserWrite, Vidmap,
         VidmapDirectory, VidmapPage, VidmapAddress, VidmapTerminal,
         VidmapReturn, Fault, Message, MessageCursor, MessageStore,
         MessageShow, MessageMove, Execute, Halt, Tick, Echo, MouseMove,
         SwitchTerminal, Crash, Evict, vars, flags
<1>2. raced => raced'
  BY DEF Next, Step, Stopped, TerminalWrite, UserWrite, Vidmap,
         VidmapDirectory, VidmapPage, VidmapAddress, VidmapTerminal,
         VidmapReturn, Fault, Message, MessageCursor, MessageStore,
         MessageShow, MessageMove, Execute, Halt, Tick, Echo, MouseMove,
         SwitchTerminal, Crash, Evict, Interrupts, vars, flags
<1> QED
  BY <1>1, <1>2

(* A message goes on until the machine is turned off. *)
LEMMA FaultsStay ==
  ASSUME TypeOK, [Next]_vars
  PROVE  Faulted \subseteq Faulted'
<1> SUFFICES ASSUME NEW t \in Faulted
             PROVE  t \in Faulted'
  OBVIOUS
<1>1. t \in Terminal /\ run \in Terminal
  BY DEF Faulted, TypeOK, run
<1>2. pc' = pc \/ \E l : /\ pc' = [pc EXCEPT ![run] = l]
                        /\ \/ run \notin Faulted
                           \/ l \in {"fault", "store", "outb", "struct"}
  BY <1>1 DEF Next, Step, Stopped, TerminalWrite, UserWrite, Vidmap,
              VidmapDirectory, VidmapPage, VidmapAddress, VidmapTerminal,
              VidmapReturn, Fault, Message, MessageCursor, MessageStore,
              MessageShow, MessageMove, Execute, Halt, Tick, Echo, MouseMove,
              SwitchTerminal, Crash, Evict, Goto, Faulted, vars, schedule
<1> QED
  BY <1>1, <1>2 DEF Faulted, TypeOK

-----------------------------------------------------------------------------
LEMMA OutputTypes ==
  ASSUME TypeOK, NEW t \in Terminal, NEW f \in Frame, Output(t, f)
  PROVE  /\ written' \in [Terminal -> 0 .. MaxOut]
         /\ frame' \in [Frame -> SUBSET (Terminal \X (1 .. MaxOut))]
<1>1. written[t] \in 0 .. MaxOut /\ written[t] < MaxOut
  BY DEF TypeOK, Output
<1>2. written' = [written EXCEPT ![t] = written[t] + 1]
  BY DEF Output
<1>3. written[t] + 1 \in 0 .. MaxOut /\ written[t] + 1 \in 1 .. MaxOut
  BY <1>1, MaxOutAssumption, SMT
<1>4. written'[t] = written[t] + 1 /\ written' \in [Terminal -> 0 .. MaxOut]
  BY <1>2, <1>3 DEF TypeOK
<1>5. frame' = [frame EXCEPT ![f] = frame[f] \cup {<<t, written'[t]>>}]
  BY DEF Output
<1>6. frame' \in [Frame -> SUBSET (Terminal \X (1 .. MaxOut))]
  BY <1>3, <1>4, <1>5 DEF TypeOK
<1> QED
  BY <1>4, <1>6

LEMMA CursorTypes ==
  ASSUME TypeOK, NEW t \in Terminal, MoveCursor(t)
  PROVE  cursor' \in [Terminal -> Nat] /\ hw_cursor' \in Nat
<1>1. cursor[t] + 1 \in Nat
  BY SMT DEF TypeOK
<1> QED
  BY <1>1 DEF MoveCursor, TypeOK

LEMMA InitTypes == Init => TypeOK
<1> SUFFICES ASSUME Init
             PROVE  TypeOK
  OBVIOUS
<1>1. 0 \in Terminal /\ 0 \in 0 .. MaxOut
  BY NTermAssumption, MaxOutAssumption, SMT DEF Terminal
<1>2. {dead, derailed, raced} \subseteq BOOLEAN /\ vidmapped \in BOOLEAN
  BY DEF Init
<1>3. /\ written \in [Terminal -> 0 .. MaxOut]
      /\ cursor \in [Terminal -> Nat]
      /\ frame \in [Frame -> SUBSET (Terminal \X (1 .. MaxOut))]
  BY <1>1, SMT DEF Init
<1> QED
  BY <1>1, <1>2, <1>3, Frames DEF Init, TypeOK

LEMMA StepTypes == TypeOK /\ [Next]_vars => TypeOK'
<1> SUFFICES ASSUME TypeOK, [Next]_vars
             PROVE  TypeOK'
  OBVIOUS
<1>t. run \in Terminal /\ cur_terminal \in Terminal /\ VIDEO \in Frame
  BY Frames DEF TypeOK, run
<1>p. Through(pte) \in Frame /\ Through(VIDEO) \in Frame /\ TERM(run) \in Frame
  BY <1>t, Frames, ThroughFrame DEF TypeOK
<1>b. \A P \in BOOLEAN : (derailed \/ P) \in BOOLEAN
  OBVIOUS
(* Steps that print through putc. *)
<1>1. ASSUME NEW t \in Terminal, NEW f \in Frame, Output(t, f), MoveCursor(t),
             tlb' \in Frame \cup {NONE},
             dead' \in BOOLEAN, derailed' \in BOOLEAN, raced' \in BOOLEAN,
             UNCHANGED <<schedule, table, users, pte>>
      PROVE  TypeOK'
  BY <1>1, CursorTypes, OutputTypes DEF TypeOK, schedule, table
<1>2. CASE TerminalWrite
  <2> DEFINE f == IF run = cur_terminal THEN Through(pte) ELSE TERM(run)
  <2>1. /\ f \in Frame
        /\ (IF run = cur_terminal THEN f ELSE tlb) \in Frame \cup {NONE}
    BY <1>p DEF TypeOK
  <2>2. dead' \in BOOLEAN /\ derailed' \in BOOLEAN /\ raced' \in BOOLEAN
    BY <1>2 DEF TerminalWrite, Interrupts, TypeOK
  <2> QED
    BY <1>t, <1>1, <1>2, <2>1, <2>2 DEF TerminalWrite
<1>3. CASE UserWrite
  <2>1. Output(run, Through(pte)) /\ tlb' = Through(pte)
    BY <1>3 DEF UserWrite
  <2>2. /\ written' \in [Terminal -> 0 .. MaxOut]
        /\ frame' \in [Frame -> SUBSET (Terminal \X (1 .. MaxOut))]
    BY <1>t, <1>p, <2>1, OutputTypes
  <2> QED
    BY <1>3, <1>p, <2>1, <2>2 DEF UserWrite, TypeOK, schedule, table, flags
<1>4. CASE Vidmap
  <2>1. CASE VidmapDirectory
    BY <1>t, <2>1 DEF VidmapDirectory, Goto, TypeOK, screen, flags
  <2>2. CASE VidmapPage
    BY <1>t, <2>2 DEF VidmapPage, Goto, TypeOK, screen, flags
  <2>3. CASE VidmapAddress
    BY <1>t, <2>3 DEF VidmapAddress, Goto, TypeOK, screen, table
  <2>4. ASSUME NEW t \in Terminal, VidmapTerminal(t)
        PROVE  TypeOK'
    BY <2>4, Frames DEF VidmapTerminal, TypeOK, schedule, screen, flags
  <2>5. CASE VidmapReturn
    BY <1>t, <2>5 DEF VidmapReturn, Goto, TypeOK, screen, table, flags
  <2> QED
    BY <1>4, <2>1, <2>2, <2>3, <2>4, <2>5 DEF Vidmap
<1>5. CASE Fault
  BY <1>t, <1>5 DEF Fault, Goto, TypeOK, paging, table, screen, flags
<1>6. CASE Message
  <2>1. CASE MessageCursor
    BY <1>t, <2>1 DEF MessageCursor, Interrupts, Goto, TypeOK, paging, table,
                      screen
  <2>2. CASE MessageStore
    <3>1. /\ written' \in [Terminal -> 0 .. MaxOut]
          /\ frame' \in [Frame -> SUBSET (Terminal \X (1 .. MaxOut))]
      BY <1>t, <1>p, <2>2, OutputTypes DEF MessageStore
    <3> QED
      BY <1>t, <1>p, <2>2, <3>1 DEF MessageStore, Goto, TypeOK, table
  <2>3. CASE MessageShow
    <3>1. cursor[cur_terminal] + 1 \in Nat
      BY <1>t, SMT DEF TypeOK
    <3> QED
      BY <1>t, <2>3, <3>1 DEF MessageShow, Goto, TypeOK, paging, table, flags
  <2>4. CASE MessageMove
    <3>1. cursor[cur_terminal] + 1 \in Nat
      BY <1>t, SMT DEF TypeOK
    <3> QED
      BY <1>t, <2>4, <3>1 DEF MessageMove, Goto, TypeOK, paging, table, flags
  <2> QED
    BY <1>6, <2>1, <2>2, <2>3, <2>4 DEF Message
<1>7. CASE Execute \/ Halt \/ Evict
  BY <1>t, <1>7 DEF Execute, Halt, Evict, TypeOK, schedule, table, screen, flags
<1>8. CASE Tick
  <2>1. PICK i \in Terminal : terminal_process_index' = i /\ pte' = Target(i)
    BY <1>8 DEF Tick
  <2>2. pte' \in Frame /\ terminal_process_index' \in Terminal
    BY <2>1, Frames
  <2>3. UNCHANGED <<cur_terminal, idle, pc, table, users, screen, flags>>
        /\ tlb' = NONE
    BY <1>8 DEF Tick
  <2> QED
    BY <2>2, <2>3 DEF TypeOK, table, screen, flags
<1>9. CASE Echo
  BY <1>t, <1>p, <1>1, <1>9 DEF Echo, Interrupts, HandlerMisleads, TypeOK
<1>10. CASE MouseMove
  BY <1>p, <1>10 DEF MouseMove, HandlerMisleads, TypeOK, schedule, table,
                     screen
<1>11. ASSUME NEW t \in Terminal, SwitchTerminal(t)
       PROVE  TypeOK'
  <2>1. frame' \in [Frame -> SUBSET (Terminal \X (1 .. MaxOut))]
    BY <1>11, <1>t, <1>p, Frames DEF SwitchTerminal, TypeOK
  <2>2. /\ hw_cursor' \in Nat
        /\ dead' \in BOOLEAN /\ derailed' \in BOOLEAN /\ raced' \in BOOLEAN
    BY <1>11 DEF SwitchTerminal, Interrupts, SwitchMisleads, TypeOK
  <2> QED
    BY <1>p, <1>11, <2>1, <2>2 DEF SwitchTerminal, TypeOK, table
<1>12. CASE Crash
  BY <1>12 DEF Crash, TypeOK, schedule, paging, table, screen
<1>13. CASE UNCHANGED vars
  BY <1>13 DEF vars, TypeOK, schedule, paging, table, screen, flags
<1> QED
  BY <1>2, <1>3, <1>4, <1>5, <1>6, <1>7, <1>8, <1>9, <1>10, <1>11, <1>12, <1>13
     DEF Next, Step, Stopped

-----------------------------------------------------------------------------
(* The hardware's cursor *)

LEMMA StepCursor == TypeOK /\ CursorOK /\ [Next]_vars => CursorOK'
<1> SUFFICES ASSUME TypeOK, CursorOK, [Next]_vars, ~raced'
             PROVE  CursorOK'
  BY DEF CursorOK
<1>t. run \in Terminal /\ cur_terminal \in Terminal
      /\ cursor \in [Terminal -> Nat]
      /\ pc \in [Terminal -> {"user", "page", "address", "terminals",
                              "fault", "store", "outb", "struct"}]
  BY DEF TypeOK, run
<1>r. ~raced
  BY RemainsBad
(* While no message is coming out, the display may print. *)
<1>1. ASSUME Printing = {}, pc' = pc, hw_cursor' = cursor'[cur_terminal']
      PROVE  CursorOK'
  <2>1. Printing' = {} /\ \A t \in Terminal : pc'[t] # "struct"
    BY <1>1 DEF Printing
  <2> QED
    BY <1>1, <2>1 DEF CursorOK
<1>2. CASE TerminalWrite
  <2>1. CASE run = cur_terminal
    BY <1>2, <1>t, <1>1, <2>1 DEF TerminalWrite, MoveCursor, Interrupts,
         schedule
  <2>2. CASE run # cur_terminal
    <3>1. /\ UNCHANGED <<pc, cur_terminal, hw_cursor>>
          /\ cursor'[cur_terminal] = cursor[cur_terminal]
      BY <1>2, <1>t, <2>2 DEF TerminalWrite, MoveCursor, schedule
    <3> QED
      BY <1>r, <3>1 DEF CursorOK, Printing
  <2> QED
    BY <2>1, <2>2
<1>3. CASE Echo
  BY <1>3, <1>t, <1>1 DEF Echo, MoveCursor, Interrupts, schedule
<1>4. ASSUME NEW t \in Terminal, SwitchTerminal(t)
      PROVE  CursorOK'
  BY <1>4, <1>1 DEF SwitchTerminal, Interrupts
<1>5. ASSUME UNCHANGED <<cur_terminal, cursor, hw_cursor>>,
             \/ pc' = pc
             \/ \E l \in {"user", "page", "address", "terminals", "fault"} :
                  pc[run] # "struct" /\ pc' = [pc EXCEPT ![run] = l]
             \/ pc[run] = "store" /\ pc' = [pc EXCEPT ![run] = "outb"]
      PROVE  CursorOK'
  <2>1. Printing' \subseteq Printing
    BY <1>5, <1>t DEF Printing
  <2>2. \A t \in Terminal : pc'[t] = "struct" <=> pc[t] = "struct"
    BY <1>5, <1>t
  <2> QED
    BY <1>5, <1>r, <2>1, <2>2 DEF CursorOK
<1>6. CASE UserWrite \/ Vidmap \/ Fault \/ MessageStore \/ Execute \/ Halt
           \/ Tick \/ MouseMove \/ Crash \/ Evict \/ UNCHANGED vars
  BY <1>5, <1>6 DEF UserWrite, Vidmap, VidmapDirectory, VidmapPage,
                    VidmapAddress, VidmapTerminal, VidmapReturn, Fault,
                    MessageStore, Execute, Halt, Tick, MouseMove, Crash,
                    Evict, Goto, vars, schedule, screen
<1>7. CASE MessageCursor
  <2>1. Printing = {} /\ \A t \in Terminal : pc[t] # "struct"
    BY <1>7 DEF MessageCursor, Interrupts, Printing
  <2>2. /\ UNCHANGED <<cur_terminal, cursor, hw_cursor>>
        /\ pc' = [pc EXCEPT ![run] = "store"]
    BY <1>7 DEF MessageCursor, Goto, screen
  <2>3. \A t \in Terminal : pc'[t] # "struct"
    BY <1>t, <2>1, <2>2
  <2>4. Printing' \subseteq {run}
    BY <1>t, <2>1, <2>2 DEF Printing
  <2> QED
    BY <1>r, <2>1, <2>2, <2>3, <2>4 DEF CursorOK
<1>8. CASE MessageShow
  <2>1. /\ UNCHANGED <<cur_terminal, cursor>> /\ pc[run] = "outb"
        /\ pc' = [pc EXCEPT ![run] = "struct"]
        /\ hw_cursor' = cursor[cur_terminal] + 1
    BY <1>8 DEF MessageShow, Goto
  <2>2. Printing' = Printing /\ pc'[run] = "struct"
    BY <1>t, <2>1 DEF Printing
  <2> QED
    BY <1>r, <1>t, <2>1, <2>2 DEF CursorOK
<1>9. CASE MessageMove
  <2>1. /\ UNCHANGED <<cur_terminal, hw_cursor>> /\ pc[run] = "struct"
        /\ pc' = [pc EXCEPT ![run] = "fault"]
        /\ cursor' = [cursor EXCEPT ![cur_terminal] = cursor[cur_terminal] + 1]
    BY <1>9 DEF MessageMove, Goto
  <2>2. Printing' \subseteq Printing \ {run} /\ run \in Printing
    BY <1>t, <2>1 DEF Printing
  <2>3. Printing' = {}
    BY <1>r, <2>2 DEF CursorOK
  <2>4. \A t \in Terminal : pc'[t] # "struct"
    BY <2>3 DEF Printing
  <2>5. hw_cursor' = cursor'[cur_terminal']
    BY <1>r, <1>t, <2>1 DEF CursorOK
  <2> QED
    BY <2>3, <2>4, <2>5 DEF CursorOK
<1> QED
  BY <1>2, <1>3, <1>4, <1>6, <1>7, <1>8, <1>9 DEF Next, Step, Stopped, Message

-----------------------------------------------------------------------------
(* What has come before *)

LEMMA StepFirst == TypeOK /\ VidmapFirst /\ [Next]_vars => VidmapFirst'
<1> SUFFICES ASSUME TypeOK, VidmapFirst, [Next]_vars
             PROVE  VidmapFirst'
  OBVIOUS
<1>t. run \in Terminal /\ TypeOK
  BY DEF TypeOK, run
<1>1. Faulted \subseteq Faulted'
  BY FaultsStay
<1>2. ~vidmapped => Through(VIDEO) = VIDEO /\ Through(pte) = VIDEO
  BY DEF Through
<1>3. Printing # {} => Faulted # {}
  BY DEF Printing, Faulted
<1>4. vidmapped => vidmapped'
  BY DEF Next, Step, Stopped, TerminalWrite, UserWrite, Vidmap,
         VidmapDirectory, VidmapPage, VidmapAddress, VidmapTerminal,
         VidmapReturn, Fault, Message, MessageCursor, MessageStore,
         MessageShow, MessageMove, Execute, Halt, Tick, Echo, MouseMove,
         SwitchTerminal, Crash, Evict, vars, paging, table
<1>g. present \subseteq present'
  BY DEF Next, Step, Stopped, TerminalWrite, UserWrite, Vidmap,
         VidmapDirectory, VidmapPage, VidmapAddress, VidmapTerminal,
         VidmapReturn, Fault, Message, MessageCursor, MessageStore,
         MessageShow, MessageMove, Execute, Halt, Tick, Echo, MouseMove,
         SwitchTerminal, Crash, Evict, vars, paging, table
<1>5. ~vidmapped' => tlb' \in {NONE, VIDEO}
  <2>1. ~vidmapped => tlb \in {NONE, VIDEO}
    BY DEF VidmapFirst
  <2>2. tlb' \in {tlb, NONE, Through(pte), Through(VIDEO)}
    <3>1. CASE TerminalWrite \/ UserWrite \/ Vidmap \/ Fault \/ Message
      BY <3>1 DEF TerminalWrite, UserWrite, Vidmap, VidmapDirectory,
                  VidmapPage, VidmapAddress, VidmapTerminal, VidmapReturn,
                  Fault, Message, MessageCursor, MessageStore, MessageShow,
                  MessageMove, paging
    <3>2. CASE \/ Execute \/ Halt \/ Tick \/ Echo \/ MouseMove
               \/ (\E t \in Terminal : SwitchTerminal(t)) \/ Crash \/ Evict
               \/ UNCHANGED vars
      BY <3>2 DEF Execute, Halt, Tick, Echo, MouseMove, SwitchTerminal, Crash,
                  Evict, vars, paging
    <3> QED
      BY <3>1, <3>2 DEF Next, Step, Stopped
  <2> QED
    BY <1>2, <1>4, <2>1, <2>2
<1>6. raced' => Faulted' # {}
  BY <1>1, <1>3 DEF Next, Step, Stopped, TerminalWrite, UserWrite, Vidmap,
                    VidmapDirectory, VidmapPage, VidmapAddress,
                    VidmapTerminal, VidmapReturn, Fault, Message,
                    MessageCursor, MessageStore, MessageShow, MessageMove,
                    Execute, Halt, Tick, Echo, MouseMove, SwitchTerminal,
                    Crash, Evict, Interrupts, vars, flags, VidmapFirst
<1>7. derailed' => vidmapped' \/ Faulted' # {}
  <2>1. ASSUME derailed' = derailed
        PROVE  derailed' => vidmapped' \/ Faulted' # {}
    BY <1>1, <1>4, <2>1 DEF VidmapFirst
  <2>2. CASE VidmapAddress
    BY <1>4, <1>t, <2>2 DEF VidmapAddress, VidmapFirst, Marked
  <2>3. CASE MessageStore
    <3>1. run \in Faulted
      BY <1>t, <2>3 DEF MessageStore, Faulted
    <3> QED
      BY <1>1, <3>1
  <2>4. HandlerMisleads => vidmapped
    BY <1>t DEF HandlerMisleads, Drawing, VidmapFirst, Marked
  <2>5. CASE Echo \/ MouseMove \/ \E t \in Terminal : SwitchTerminal(t)
    <3>1. derailed' => derailed \/ vidmapped
      BY <2>4, <2>5 DEF Echo, MouseMove, SwitchTerminal, SwitchMisleads
    <3> QED
      BY <1>1, <1>4, <3>1 DEF VidmapFirst
  <2>6. CASE \/ TerminalWrite \/ UserWrite \/ VidmapDirectory \/ VidmapPage
             \/ (\E t \in Terminal : VidmapTerminal(t)) \/ VidmapReturn
             \/ Fault
             \/ MessageCursor \/ MessageShow \/ MessageMove \/ Execute \/ Halt
             \/ Tick \/ Crash \/ Evict \/ UNCHANGED vars
    BY <2>1, <2>6 DEF TerminalWrite, UserWrite, VidmapDirectory, VidmapPage,
                      VidmapTerminal, VidmapReturn, Fault, MessageCursor,
                      MessageShow, MessageMove, Execute, Halt, Tick, Crash,
                      Evict, vars, flags
  <2> QED
    BY <2>2, <2>3, <2>5, <2>6 DEF Next, Step, Stopped, Vidmap, Message
<1>8. ASSUME NEW t \in Terminal
      PROVE  Marked(t)'
  <2>1. ASSUME users' \subseteq users,
               \/ pc' = pc
               \/ \E l \in {"fault", "store", "outb", "struct"} :
                    pc' = [pc EXCEPT ![run] = l]
        PROVE  Marked(t)'
    <3>1. \/ pc'[t] = pc[t]
          \/ pc'[t] \in {"fault", "store", "outb", "struct"}
      BY <1>t, <2>1 DEF TypeOK
    <3> QED
      BY <1>4, <1>g, <2>1, <3>1 DEF VidmapFirst, Marked
  <2>2. CASE VidmapDirectory
    <3>1. users' = users /\ vidmapped' /\ (pc'[t] = pc[t] \/ pc'[t] = "page")
      BY <1>t, <2>2 DEF VidmapDirectory, Goto, TypeOK
    <3> QED
      BY <1>4, <1>g, <3>1 DEF VidmapFirst, Marked
  <2>3. CASE VidmapPage
    <3>1. users' = users /\ VIDEO \in present' /\ pc[run] = "page"
          /\ (pc'[t] = pc[t] \/ pc'[t] = "address")
      BY <1>t, <2>3 DEF VidmapPage, Goto, TypeOK
    <3> QED
      BY <1>t, <1>4, <1>g, <3>1 DEF VidmapFirst, Marked
  <2>4. CASE VidmapAddress
    <3>1. users' = users /\ pc[run] = "address"
          /\ (pc'[t] = pc[t] \/ pc'[t] = "terminals")
      BY <1>t, <2>4 DEF VidmapAddress, Goto, TypeOK
    <3> QED
      BY <1>t, <1>4, <1>g, <3>1 DEF VidmapFirst, Marked
  <2>5. CASE VidmapReturn
    <3>1. users' = users \cup {run} /\ pc[run] = "terminals"
          /\ (pc'[t] = pc[t] \/ pc'[t] = "user")
      BY <1>t, <2>5 DEF VidmapReturn, Goto, TypeOK
    <3> QED
      BY <1>t, <1>4, <1>g, <3>1 DEF VidmapFirst, Marked
  <2>6. CASE \/ TerminalWrite \/ UserWrite
             \/ (\E u \in Terminal : VidmapTerminal(u))
             \/ Fault \/ Message \/ Execute \/ Halt \/ Tick \/ Echo
             \/ MouseMove \/ (\E u \in Terminal : SwitchTerminal(u)) \/ Crash
             \/ Evict \/ UNCHANGED vars
    <3>1. users' \subseteq users
      BY <2>6 DEF TerminalWrite, UserWrite, VidmapTerminal, Fault, Message,
                  MessageCursor, MessageStore, MessageShow, MessageMove,
                  Execute, Halt, Tick, Echo, MouseMove, SwitchTerminal, Crash,
                  Evict, vars, paging
    <3>2. \/ pc' = pc
          \/ \E l \in {"fault", "store", "outb", "struct"} :
               pc' = [pc EXCEPT ![run] = l]
      BY <2>6 DEF TerminalWrite, UserWrite, VidmapTerminal, Fault, Message,
                  MessageCursor, MessageStore, MessageShow, MessageMove,
                  Execute, Halt, Tick, Echo, MouseMove, SwitchTerminal, Crash,
                  Evict, Goto, vars, schedule
    <3> QED
      BY <2>1, <3>1, <3>2
  <2> QED
    BY <2>2, <2>3, <2>4, <2>5, <2>6 DEF Next, Step, Stopped, Vidmap
<1> QED
  BY <1>5, <1>6, <1>7, <1>8 DEF VidmapFirst

-----------------------------------------------------------------------------
(* The page *)

LEMMA StepPage ==
  TypeOK /\ VidmapFirst /\ PageOK /\ [Next]_vars => PageOK'
<1> SUFFICES ASSUME TypeOK, VidmapFirst, PageOK, [Next]_vars,
                    ~derailed', vidmapped'
             PROVE  /\ (run = cur_terminal /\ ~Unset(run) => pte = VIDEO)'
                    /\ (HandlerMisleads =>
                          pte = TERM(run) /\ tlb \in {NONE, TERM(run)})'
                    /\ (~HandlerMisleads => tlb \in {NONE, VIDEO})'
  BY DEF PageOK
<1> DEFINE Goal == /\ (run = cur_terminal /\ ~Unset(run) => pte = VIDEO)'
                   /\ (HandlerMisleads =>
                         pte = TERM(run) /\ tlb \in {NONE, TERM(run)})'
                   /\ (~HandlerMisleads => tlb \in {NONE, VIDEO})'
<1>t. run \in Terminal /\ pc \in [Terminal -> {"user", "page", "address",
                            "terminals", "fault", "store", "outb", "struct"}]
  BY DEF TypeOK, run
<1>d. ~derailed
  BY RemainsBad
<1>p. /\ run = cur_terminal /\ ~Unset(run) => Through(pte) = VIDEO
      /\ ~HandlerMisleads => Through(VIDEO) = VIDEO
      /\ run \in users => Through(pte) = Target(run)
  BY <1>d, PageReached
(* Stores through the page leave their frame in the TLB. *)
<1>1. ASSUME UNCHANGED <<cur_terminal, terminal_process_index, vidmapped,
                         users, pte>>,
             \/ pc' = pc
             \/ \E l \in {"fault", "store", "outb", "struct"} :
                  pc[run] \notin {"page", "address", "terminals"}
                  /\ pc' = [pc EXCEPT ![run] = l],
             \/ tlb' = tlb
             \/ run = cur_terminal /\ ~Unset(run) /\ tlb' = Through(pte)
             \/ run \in users /\ tlb' = Through(pte)
             \/ ~HandlerMisleads /\ tlb' = Through(VIDEO)
             \/ tlb' = NONE
      PROVE  Goal
  <2>1. run' = run /\ (Unset(run)' <=> Unset(run))
        /\ (Drawing(run)' <=> Drawing(run))
    BY <1>1, <1>t DEF run, Unset, Drawing
  <2>2. HandlerMisleads' <=> HandlerMisleads
    BY <1>1, <2>1 DEF HandlerMisleads
  <2>3. run \in users /\ ~HandlerMisleads => run = cur_terminal
    BY DEF HandlerMisleads, Drawing
  <2>4. HandlerMisleads => run # cur_terminal
    BY DEF HandlerMisleads
  <2> QED
    BY <1>1, <1>d, <1>p, <2>1, <2>2, <2>3, <2>4 DEF PageOK, Target
<1>2. CASE TerminalWrite
  <2>1. UNCHANGED <<cur_terminal, terminal_process_index, vidmapped, users,
                    pte, pc>>
    BY <1>2 DEF TerminalWrite, schedule, table
  <2>2. ~Unset(run)
    BY <1>2 DEF TerminalWrite, Unset
  <2> QED
    BY <1>1, <1>2, <2>1, <2>2 DEF TerminalWrite
<1>3. CASE UserWrite
  BY <1>1, <1>3 DEF UserWrite, schedule, table
<1>4. CASE VidmapDirectory
  <2>1. /\ UNCHANGED <<cur_terminal, terminal_process_index, users, pte, tlb>>
        /\ pc[run] = "user" /\ pc' = [pc EXCEPT ![run] = "page"]
    BY <1>4 DEF VidmapDirectory, Goto
  <2>2. run' = run /\ (Drawing(run)' <=> Drawing(run)) /\ ~Unset(run)
        /\ (Unset(run)' <=> run \notin users)
    BY <1>t, <2>1 DEF run, Unset, Drawing
  <2>3. HandlerMisleads' <=> HandlerMisleads
    BY <2>1, <2>2 DEF HandlerMisleads
  <2>4. Drawing(run) => vidmapped
    BY <1>t DEF VidmapFirst, Marked, Drawing
  <2> QED
    BY <1>d, <2>1, <2>2, <2>3, <2>4 DEF PageOK, VidmapFirst, HandlerMisleads,
         Drawing
<1>5. CASE VidmapPage
  <2>1. /\ UNCHANGED <<cur_terminal, terminal_process_index, vidmapped, users,
                       pte, tlb>>
        /\ pc[run] = "page" /\ pc' = [pc EXCEPT ![run] = "address"]
    BY <1>5 DEF VidmapPage, Goto
  <2>2. run' = run /\ (Drawing(run)' <=> Drawing(run))
        /\ (Unset(run)' <=> Unset(run))
    BY <1>t, <2>1 DEF run, Unset, Drawing
  <2>3. HandlerMisleads' <=> HandlerMisleads
    BY <2>1, <2>2 DEF HandlerMisleads
  <2> QED
    BY <1>d, <2>1, <2>2, <2>3 DEF PageOK
<1>6. CASE VidmapAddress
  <2>1. /\ UNCHANGED <<cur_terminal, terminal_process_index, vidmapped, users,
                       tlb>>
        /\ run = cur_terminal /\ pte' = VIDEO
    BY <1>6 DEF VidmapAddress, table
  <2>2. ~HandlerMisleads /\ ~HandlerMisleads' /\ run' = cur_terminal'
    BY <2>1 DEF HandlerMisleads, run
  <2> QED
    BY <1>d, <2>1, <2>2 DEF PageOK
<1>7. ASSUME NEW t \in Terminal, VidmapTerminal(t)
      PROVE  Goal
  BY <1>1, <1>7 DEF VidmapTerminal, schedule
<1>8. CASE VidmapReturn
  <2>1. /\ UNCHANGED <<cur_terminal, terminal_process_index, vidmapped, pte>>
        /\ pc[run] = "terminals" /\ tlb' = NONE
    BY <1>8 DEF VidmapReturn, table
  <2>2. run' = run /\ Drawing(run) /\ ~Unset(run)
    BY <2>1 DEF run, Unset, Drawing
  <2>3. HandlerMisleads' => HandlerMisleads
    BY <2>1, <2>2 DEF HandlerMisleads
  <2> QED
    BY <1>d, <2>1, <2>2, <2>3 DEF PageOK
<1>9. CASE Fault \/ MessageCursor \/ MessageShow \/ MessageMove
  BY <1>1, <1>9 DEF Fault, MessageCursor, MessageShow, MessageMove, Goto,
                    paging, table
<1>10. CASE MessageStore
  <2>1. run = cur_terminal /\ ~Unset(run)
    BY <1>10 DEF MessageStore, Unset
  <2> QED
    BY <1>1, <1>10, <2>1 DEF MessageStore, Goto, table
<1>11. CASE Execute \/ Halt
  <2>1. /\ UNCHANGED <<cur_terminal, terminal_process_index, pc, vidmapped,
                       pte>>
        /\ users' \subseteq users
        /\ tlb' = NONE
    BY <1>11 DEF Execute, Halt, table
  <2>2. run' = run /\ (Unset(run) => Unset(run)')
        /\ (Drawing(run)' => Drawing(run))
    BY <2>1 DEF run, Unset, Drawing
  <2>3. Execute => users' = users
    BY DEF Execute
  <2>4. Halt => ~Unset(run)
    BY DEF Halt, Unset
  <2> QED
    BY <1>d, <1>11, <2>1, <2>2, <2>3, <2>4 DEF PageOK, HandlerMisleads, Unset
<1>12. CASE Tick
  <2>1. UNCHANGED cur_terminal /\ pte' = Target(run') /\ tlb' = NONE
    BY <1>12 DEF Tick, run
  <2> QED
    BY <2>1 DEF HandlerMisleads, Target
<1>13. CASE Echo \/ MouseMove
  <2>1. /\ UNCHANGED <<schedule, vidmapped, users, pte>>
        /\ tlb' = Through(VIDEO) /\ ~HandlerMisleads
    BY <1>13 DEF Echo, MouseMove, table
  <2> QED
    BY <1>1, <2>1 DEF schedule
<1>14. CASE Crash \/ Evict \/ UNCHANGED vars
  BY <1>1, <1>14 DEF Crash, Evict, vars, schedule, paging, table
<1>15. ASSUME NEW t \in Terminal, SwitchTerminal(t)
       PROVE  Goal
  <2>1. /\ UNCHANGED <<terminal_process_index, pc, vidmapped, users, pte>>
        /\ cur_terminal' = t
        /\ tlb' = Through(VIDEO)
        /\ ~SwitchMisleads(t)
    BY <1>15 DEF SwitchTerminal, table
  <2>2. /\ ~HandlerMisleads
        /\ t = cur_terminal \/ (t # run /\ ~Drawing(run))
    BY <2>1 DEF SwitchMisleads
  <2>3. run' = run /\ (Drawing(run)' <=> Drawing(run))
        /\ (Unset(run)' <=> Unset(run))
    BY <2>1 DEF run, Drawing, Unset
  <2>4. tlb' = VIDEO /\ ~HandlerMisleads'
    BY <1>p, <2>1, <2>2, <2>3 DEF HandlerMisleads
  <2> QED
    BY <1>d, <2>1, <2>2, <2>3, <2>4 DEF PageOK
<1> QED
  BY <1>2, <1>3, <1>4, <1>5, <1>6, <1>7, <1>8, <1>9, <1>10, <1>11, <1>12,
     <1>13, <1>14, <1>15 DEF Next, Step, Stopped, Vidmap, Message

-----------------------------------------------------------------------------
(* The screens *)

Holds(t) == Screen(t) = {t} \X (1 .. written[t])

(* Output that reaches the frame of its terminal shows there and nowhere   *)
(* else.                                                                   *)
LEMMA OutputShown ==
  ASSUME TypeOK, NEW t \in Terminal, Output(t, Target(t)),
         cur_terminal' = cur_terminal, \A u \in Terminal : Holds(u)
  PROVE  \A u \in Terminal : Holds(u)'
<1> SUFFICES ASSUME NEW u \in Terminal
             PROVE  Holds(u)'
  OBVIOUS
<1>1. Screen(u)' = frame'[Target(u)] /\ Screen(u) = frame[Target(u)]
  BY DEF Screen, Target
<1>2. /\ written' = [written EXCEPT ![t] = written[t] + 1]
      /\ frame' = [frame EXCEPT ![Target(t)] =
                     frame[Target(t)] \cup {<<t, written'[t]>>}]
  BY DEF Output
<1>3. written[t] \in Nat /\ Target(t) \in Frame /\ Target(u) \in Frame
  BY Frames, MaxOutAssumption, SMT DEF TypeOK
<1>4. CASE u = t
  <2>1. Screen(t)' = ({t} \X (1 .. written[t])) \cup {<<t, written[t] + 1>>}
    BY <1>1, <1>2, <1>3, <1>4 DEF Holds, TypeOK
  <2>2. 1 .. written[t] + 1 = (1 .. written[t]) \cup {written[t] + 1}
    BY <1>3, SMT
  <2>3. written'[t] = written[t] + 1
    BY <1>2 DEF TypeOK
  <2> QED
    BY <1>4, <2>1, <2>2, <2>3 DEF Holds
<1>5. CASE u # t
  <2>1. Target(u) # Target(t)
    BY <1>5, Frames DEF Target, TERM
  <2>2. frame'[Target(u)] = frame[Target(u)] /\ written'[u] = written[u]
    BY <1>2, <1>3, <1>5, <2>1 DEF TypeOK
  <2> QED
    BY <1>1, <2>2 DEF Holds
<1> QED
  BY <1>4, <1>5

LEMMA StepScreens ==
  TypeOK /\ VidmapFirst /\ PageOK /\ ScreensFaithful /\ [Next]_vars
    => ScreensFaithful'
<1> SUFFICES ASSUME TypeOK, VidmapFirst, PageOK, ScreensFaithful, [Next]_vars,
                    ~derailed', ~raced'
             PROVE  \A t \in Terminal : Holds(t)'
  BY DEF ScreensFaithful, Holds
<1>t. run \in Terminal /\ cur_terminal \in Terminal
  BY DEF TypeOK, run
<1>1. ~derailed /\ ~raced
  BY RemainsBad
<1>2. \A t \in Terminal : Holds(t)
  BY <1>1 DEF ScreensFaithful, Holds
<1>3. CASE TerminalWrite
  <2>1. run = cur_terminal => Through(pte) = VIDEO
    BY <1>1, <1>3, PageReached DEF TerminalWrite, Unset
  <2>2. Output(run, Target(run)) /\ cur_terminal' = cur_terminal
    BY <1>3, <2>1 DEF TerminalWrite, Target, schedule
  <2> QED
    BY <1>t, <1>2, <2>2, OutputShown
<1>4. CASE UserWrite
  <2>1. Output(run, Target(run)) /\ cur_terminal' = cur_terminal
    BY <1>t, <1>1, <1>4, PageReached DEF UserWrite, schedule
  <2> QED
    BY <1>t, <1>2, <2>1, OutputShown
<1>5. CASE MessageStore
  <2>1. run = cur_terminal /\ ~Unset(run)
    BY <1>5 DEF MessageStore, Unset
  <2>2. Output(run, Target(run)) /\ cur_terminal' = cur_terminal
    BY <1>1, <1>5, <2>1, PageReached DEF MessageStore, Target
  <2> QED
    BY <1>t, <1>2, <2>2, OutputShown
<1>6. CASE Echo
  <2>1. ~HandlerMisleads
    BY <1>6 DEF Echo
  <2>2. Through(VIDEO) = Target(cur_terminal)
    BY <1>t, <1>1, <2>1, PageReached DEF Target
  <2>3. Output(cur_terminal, Target(cur_terminal))
        /\ cur_terminal' = cur_terminal
    BY <1>6, <2>2 DEF Echo, schedule
  <2> QED
    BY <1>t, <1>2, <2>3, OutputShown
<1>7. ASSUME NEW t \in Terminal, SwitchTerminal(t)
      PROVE  \A u \in Terminal : Holds(u)'
  <2>1. Through(VIDEO) = VIDEO
    BY <1>t, <1>1, <1>7, PageReached DEF SwitchTerminal, SwitchMisleads
  <2> DEFINE saved == [frame EXCEPT ![cur_terminal] = frame[VIDEO]]
  <2>2. /\ frame' = [saved EXCEPT ![VIDEO] = saved[t]]
        /\ cur_terminal' = t /\ written' = written
    BY <1>7, <2>1 DEF SwitchTerminal, TERM
  <2>3. \A u \in Terminal : saved[u] = Screen(u)
    BY <1>t, Frames DEF TypeOK, Screen, TERM
  <2>4. saved \in [Frame -> SUBSET (Terminal \X (1 .. MaxOut))]
    BY <1>t, Frames DEF TypeOK
  <2>5. ASSUME NEW u \in Terminal
        PROVE  Screen(u)' = Screen(u)
    BY <2>2, <2>3, <2>4, <2>5, Frames DEF Screen, TERM
  <2> QED
    BY <1>2, <2>2, <2>5 DEF Holds
<1>8. CASE \/ Vidmap \/ Fault \/ MessageCursor \/ MessageShow \/ MessageMove
           \/ Execute \/ Halt \/ Tick \/ MouseMove \/ Crash \/ Evict
           \/ UNCHANGED vars
  <2>1. UNCHANGED <<frame, written, cur_terminal>>
    BY <1>8 DEF Vidmap, VidmapDirectory, VidmapPage, VidmapAddress,
                VidmapTerminal, VidmapReturn, Fault, MessageCursor,
                MessageShow, MessageMove, Execute, Halt, Tick, MouseMove,
                Crash, Evict, vars, schedule, screen
  <2> QED
    BY <1>2, <2>1 DEF Holds, Screen
<1> QED
  BY <1>3, <1>4, <1>5, <1>6, <1>7, <1>8 DEF Next, Step, Stopped, Message

-----------------------------------------------------------------------------
(* Every run satisfies the invariant. *)
THEOREM VideoInvariant == Spec => []VideoInv
<1>1. Init => VideoInv
  <2> SUFFICES ASSUME Init
               PROVE  VideoInv
    OBVIOUS
  <2>1. PageOK /\ VidmapFirst
    BY DEF Init, PageOK, VidmapFirst, Marked
  <2>2. 0 \in Terminal
    BY NTermAssumption, SMT DEF Terminal
  <2>3. Printing = {} /\ hw_cursor = cursor[cur_terminal]
        /\ \A t \in Terminal : pc[t] # "struct"
    BY <2>2 DEF Init, Printing
  <2>4. CursorOK
    BY <2>3 DEF CursorOK
  <2>5. \A t \in Terminal : Screen(t) = {} /\ written[t] = 0
    BY Frames DEF Init, Screen
  <2>6. 1 .. 0 = {}
    BY SMT
  <2>7. ScreensFaithful
    BY <2>5, <2>6 DEF ScreensFaithful
  <2> QED
    BY InitTypes, <2>1, <2>4, <2>7 DEF VideoInv
<1>2. VideoInv /\ [Next]_vars => VideoInv'
  BY StepTypes, StepFirst, StepPage, StepCursor, StepScreens DEF VideoInv
<1> QED
  BY <1>1, <1>2, PTL DEF Spec

(* Every variable keeps its type, the entry naming a frame always. *)
THEOREM TypeCorrect == Spec => []TypeOK
<1>1. VideoInv => TypeOK
  BY DEF VideoInv
<1> QED
  BY <1>1, VideoInvariant, PTL

(* The cursor of the hardware is the displayed terminal's, with any number *)
(* of terminals that print while they are hidden or whose programs fault,  *)
(* unless a message is interrupted by another output on the display.       *)
THEOREM CursorAlwaysShown == Spec => []CursorShown
<1>1. VideoInv => CursorShown
  BY DEF VideoInv, CursorOK, CursorShown
<1> QED
  BY <1>1, VideoInvariant, PTL

(* No output is lost or shown elsewhere, with vidmap and the messages of   *)
(* faults interrupted anywhere, as long as no handler, no vidmap and no    *)
(* message finds the page set up for somebody else and no message is       *)
(* interrupted by another output on the display.                           *)
THEOREM ScreensAlwaysFaithful == Spec => []ScreensFaithful
<1>1. VideoInv => ScreensFaithful
  BY DEF VideoInv
<1> QED
  BY <1>1, VideoInvariant, PTL

(* Before the first vidmap and the first fault no output is lost or shown  *)
(* elsewhere: nothing can find the page wrongly set up until then.         *)
THEOREM TextAlwaysFaithful == Spec => []TextFaithful
<1>1. VideoInv => TextFaithful
  BY DEF VideoInv, ScreensFaithful, TextFaithful, VidmapFirst
<1> QED
  BY <1>1, VideoInvariant, PTL

(* A program that draws has its own screen behind the page, and the page   *)
(* is present, also while others are in the middle of vidmap.              *)
THEOREM OwnScreenAlwaysMapped == Spec => []OwnScreenMapped
<1>1. VideoInv => OwnScreenMapped
  <2> SUFFICES ASSUME VideoInv, ~derailed, run \in users
               PROVE  Through(pte) = Target(run) /\ ~Absent(VIDEO)
    BY DEF OwnScreenMapped
  <2>1. run \in Terminal
    BY DEF VideoInv, TypeOK, run
  <2> QED
    BY <2>1, PageReached DEF VideoInv, VidmapFirst, Marked, Absent
<1> QED
  BY <1>1, VideoInvariant, PTL
=============================================================================
