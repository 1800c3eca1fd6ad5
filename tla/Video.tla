-------------------------------- MODULE Video --------------------------------
(***************************************************************************)
(* The screens of the terminals and the page through which they are        *)
(* written: terminal_write and switch_terminal of terminal.c, the echo of  *)
(* keyboard_handler, the mouse pointer, vidmap, schedule's last lines, and *)
(* the messages of the exception handlers of idt.c.                        *)
(*                                                                         *)
(* The displayed terminal lives in the frame VIDEO, a hidden one in a      *)
(* frame of its own.  The virtual page 0xB8 is VIDEO until somebody has    *)
(* called vidmap; from then on it is what one page table entry says, or    *)
(* what the TLB remembers of it.  Interrupt handlers and system calls      *)
(* under cli() are steps; vidmap and the exception handlers run with       *)
(* interrupts enabled, and each of their stores is one.                    *)
(*                                                                         *)
(* The module begins when every terminal has its shell.                    *)
(***************************************************************************)
EXTENDS Integers

CONSTANTS NTerm,     \* terminals: 3 in the code
          MaxOut     \* a bound: how much a terminal writes

ASSUME NTermAssumption == NTerm \in Nat \ {0}
ASSUME MaxOutAssumption == MaxOut \in Nat

Terminal == 0 .. NTerm - 1
VIDEO == NTerm
TERM(t) == t
Frame == Terminal \cup {VIDEO}
NONE == -1

VARIABLES
  cur_terminal, terminal_process_index,
  idle,            \* the terminals with only a shell on top
  pc,              \* where the top process of each terminal is
  dead,            \* the processor loops with interrupts disabled
  vidmapped,       \* page_directory[0] designates vidmap_page_table
  present,         \* the pages whose entries in vidmap_page_table have P set
  users,           \* terminals whose top process has called vidmap
  pte,             \* vidmap_page_table[VIDMEM_INDEX].physical_address
  tlb,             \* what the processor remembers of page 0xB8, or NONE
  frame,           \* the outputs in each frame, as pairs <<terminal, number>>
  written,         \* how many outputs each terminal has had
  cursor,          \* cursor_x, cursor_y: outputs that went through putc
  hw_cursor,       \* the same of the cursor the hardware shows
  derailed,        \* the mapping was not the one the next store needs
  raced            \* two have printed on the display at the same time

schedule == <<cur_terminal, terminal_process_index, idle, pc>>
table == <<vidmapped, present>>
paging == <<table, users, pte, tlb>>
screen == <<frame, written, cursor, hw_cursor>>
flags == <<dead, derailed, raced>>
vars == <<schedule, paging, screen, flags>>

Init ==
  /\ cur_terminal = 0
  /\ terminal_process_index \in Terminal
  /\ idle = Terminal
  /\ pc = [t \in Terminal |-> "user"]
  /\ dead = FALSE
  /\ vidmapped = FALSE
  /\ present = {}
  /\ users = {}
  /\ pte = VIDEO
  /\ tlb = NONE
  /\ frame = [f \in Frame |-> {}]
  /\ written = [t \in Terminal |-> 0]
  /\ cursor = [t \in Terminal |-> 0]
  /\ hw_cursor = 0
  /\ derailed = FALSE
  /\ raced = FALSE

run == terminal_process_index

Goto(label) == pc' = [pc EXCEPT ![run] = label]

(* The top process of t will draw through the entry as it is.              *)
Drawing(t) == t \in users \/ pc[t] = "terminals"

(* Those inside of putc with interrupts enabled; whoever moves the cursor  *)
(* of the display meanwhile prints into the same place.                    *)
Printing == {t \in Terminal : pc[t] \in {"store", "outb", "struct"}}
Faulted == {t \in Terminal : pc[t] \in {"fault", "store", "outb", "struct"}}
Interrupts == raced' = (raced \/ Printing # {})

(* A store to the page that is f unless vidmap has remapped it faults,     *)
(* unless the TLB remembers page 0xB8 from before.  Whether it remembers   *)
(* the page of a hidden terminal is left open: a store there may succeed   *)
(* and may fault.                                                          *)
Absent(f) == vidmapped /\ f \notin present /\ ~(f = VIDEO /\ tlb # NONE)

(* The frame that a store to page 0xB8 reaches when the entry is p. *)
Through(p) == IF ~vidmapped THEN VIDEO ELSE IF tlb # NONE THEN tlb ELSE p

(* Output of t into the frame f. *)
Output(t, f) ==
  /\ written[t] < MaxOut
  /\ written' = [written EXCEPT ![t] = @ + 1]
  /\ frame' = [frame EXCEPT ![f] = @ \cup {<<t, written'[t]>>}]

(* set_cursor moves the hardware's cursor too if t is on display. *)
MoveCursor(t) ==
  /\ cursor' = [cursor EXCEPT ![t] = @ + 1]
  /\ hw_cursor' = IF t = cur_terminal THEN cursor'[t] ELSE hw_cursor

-----------------------------------------------------------------------------
(* Processes *)

TerminalWriteOnTop ==
  /\ pc[run] = "user"
  /\ run = cur_terminal => ~Absent(VIDEO)
  /\ LET f == IF run = cur_terminal THEN Through(pte) ELSE TERM(run) IN
       /\ Output(run, f)
       /\ tlb' = IF run = cur_terminal THEN f ELSE tlb
  /\ cursor' = [cursor EXCEPT ![run] = @ + 1]
  /\ hw_cursor' = cursor'[run]
  /\ IF run = cur_terminal THEN Interrupts ELSE UNCHANGED raced
  /\ dead' \in {FALSE, run \notin idle}
  /\ UNCHANGED <<schedule, table, users, pte, derailed>>

(* write to the terminal, under cli(): a process of a hidden terminal      *)
(* writes to the terminal's frame, which page 0xB8 is not used for.  A     *)
(* buffer that is not mapped stops the machine: the message of the fault   *)
(* is printed in the buffer's stead, and its handler loops under cli().    *)
TerminalWrite ==
  /\ pc[run] = "user"
  /\ run = cur_terminal => ~Absent(VIDEO)
  /\ LET f == IF run = cur_terminal THEN Through(pte) ELSE TERM(run) IN
       /\ Output(run, f)
       /\ tlb' = IF run = cur_terminal THEN f ELSE tlb
  /\ MoveCursor(run)
  /\ IF run = cur_terminal THEN Interrupts ELSE UNCHANGED raced
  /\ dead' \in {FALSE, run \notin idle}
  /\ UNCHANGED <<schedule, table, users, pte, derailed>>

(* A program that has called vidmap stores into the page. *)
UserWrite ==
  /\ run \in users
  /\ pc[run] = "user"
  /\ LET f == Through(pte) IN
       /\ Output(run, f)
       /\ tlb' = f
  /\ UNCHANGED <<schedule, table, users, pte, cursor, hw_cursor, flags>>

(* vidmap, with interrupts enabled.  Until it marks them, the pages of its *)
(* table are not present, and the kernel's own stores to them fault.       *)
VidmapDirectory ==
  /\ run \notin idle
  /\ pc[run] = "user"
  /\ Goto("page")
  /\ vidmapped' = TRUE
  /\ UNCHANGED <<cur_terminal, terminal_process_index, idle, present, users,
                 pte, tlb, screen, flags>>

VidmapPage ==
  /\ pc[run] = "page"
  /\ Goto("address")
  /\ present' = present \cup {VIDEO}
  /\ UNCHANGED <<cur_terminal, terminal_process_index, idle, vidmapped,
                 users, pte, tlb, screen, flags>>

VidmapKeepsEntry ==
  /\ pc[run] = "address"
  /\ Goto("terminals")
  /\ derailed' = (derailed \/ run # cur_terminal)
  /\ UNCHANGED <<cur_terminal, terminal_process_index, idle, paging, screen,
                 dead, raced>>

(* It maps VIDEO, whatever terminal the caller runs in. *)
VidmapAddress ==
  /\ pc[run] = "address"
  /\ Goto("terminals")
  /\ pte' = VIDEO
  /\ derailed' = (derailed \/ run # cur_terminal)
  /\ UNCHANGED <<cur_terminal, terminal_process_index, idle, table, users,
                 tlb, screen, dead, raced>>

(* The pages of the hidden terminals, in their order. *)
VidmapTerminal(t) ==
  /\ pc[run] = "terminals"
  /\ TERM(t) \notin present
  /\ \A u \in Terminal : u < t => TERM(u) \in present
  /\ present' = present \cup {TERM(t)}
  /\ UNCHANGED <<schedule, vidmapped, users, pte, tlb, screen, flags>>

VidmapReturn ==
  /\ pc[run] = "terminals"
  /\ Terminal \subseteq present
  /\ Goto("user")
  /\ users' = users \cup {run}
  /\ tlb' = NONE
  /\ UNCHANGED <<cur_terminal, terminal_process_index, idle, table, pte,
                 screen, flags>>

(* An exception of a program: its handler prints a message character by    *)
(* character, with interrupts enabled, and then loops for ever.  The       *)
(* message goes where the cursor of the display is, through page 0xB8,     *)
(* whatever terminal the program runs in.                                  *)
Fault ==
  /\ run \notin idle
  /\ pc[run] = "user"
  /\ Goto("fault")
  /\ UNCHANGED <<cur_terminal, terminal_process_index, idle, paging, screen,
                 flags>>

MessageCursor ==
  /\ pc[run] = "fault"
  /\ written[run] < MaxOut
  /\ Goto("store")
  /\ Interrupts
  /\ UNCHANGED <<cur_terminal, terminal_process_index, idle, paging, screen,
                 dead, derailed>>

MessageStore ==
  /\ pc[run] = "store"
  /\ ~Absent(VIDEO)
  /\ Goto("outb")
  /\ LET f == Through(pte) IN
       /\ Output(run, f)
       /\ tlb' = f
  /\ derailed' = (derailed \/ run # cur_terminal)
  /\ UNCHANGED <<cur_terminal, terminal_process_index, idle, table, users,
                 pte, cursor, hw_cursor, dead, raced>>

MessageShow ==
  /\ pc[run] = "outb"
  /\ Goto("struct")
  /\ hw_cursor' = cursor[cur_terminal] + 1
  /\ UNCHANGED <<cur_terminal, terminal_process_index, idle, paging, frame,
                 written, cursor, flags>>

MessageMove ==
  /\ pc[run] = "struct"
  /\ Goto("fault")
  /\ cursor' = [cursor EXCEPT ![cur_terminal] = @ + 1]
  /\ UNCHANGED <<cur_terminal, terminal_process_index, idle, paging, frame,
                 written, hw_cursor, flags>>

(* execute by the shell on display and halt: map_program_mem flushes the   *)
(* TLB.  Programs that execute files elsewhere are in module Kernel.       *)
Execute ==
  /\ run = cur_terminal
  /\ run \in idle
  /\ idle' = idle \ {run}
  /\ tlb' = NONE
  /\ UNCHANGED <<cur_terminal, terminal_process_index, pc, table, users, pte,
                 screen, flags>>

Halt ==
  /\ run \notin idle
  /\ pc[run] = "user"
  /\ idle' = idle \cup {run}
  /\ users' = users \ {run}
  /\ tlb' = NONE
  /\ UNCHANGED <<cur_terminal, terminal_process_index, pc, table, pte,
                 screen, flags>>

-----------------------------------------------------------------------------
(* The timer *)

Skip(t) == t \in idle /\ t # cur_terminal

Between(a, b, c) == IF a < c THEN a < b /\ b < c ELSE b > a \/ b < c

PitNext(i) ==
  /\ i # run
  /\ ~Skip(i)
  /\ \A t \in Terminal : Between(run, t, i) => Skip(t)

TargetAlways(i) == TERM(i)
Target(i) == IF i = cur_terminal THEN VIDEO ELSE TERM(i)

(* schedule flushes the TLB, then changes the entry.  If it finds nobody   *)
(* else to run, pit_handler changes nothing.                               *)
Tick ==
  /\ \E i \in Terminal :
       /\ PitNext(i)
       /\ terminal_process_index' = i
       /\ pte' = Target(i)
  /\ tlb' = NONE
  /\ UNCHANGED <<cur_terminal, idle, pc, table, users, screen, flags>>

-----------------------------------------------------------------------------
(* The keyboard and the mouse *)

(* Both handlers save the entry, set it to VIDEO and restore it, without   *)
(* telling the TLB.  A program that has mapped the page then finds VIDEO   *)
(* in the TLB although it is hidden, or makes the handler miss VIDEO.      *)
HandlerMisleads == Drawing(run) /\ run # cur_terminal

Echo ==
  /\ ~Absent(VIDEO)
  /\ LET f == Through(VIDEO) IN
       /\ Output(cur_terminal, f)
       /\ tlb' = f
  /\ MoveCursor(cur_terminal)
  /\ derailed' = (derailed \/ HandlerMisleads)
  /\ Interrupts
  /\ UNCHANGED <<schedule, table, users, pte, dead>>

(* The pointer replaces a character and puts it back. *)
MouseMove ==
  /\ ~Absent(VIDEO)
  /\ tlb' = Through(VIDEO)
  /\ derailed' = (derailed \/ HandlerMisleads)
  /\ UNCHANGED <<schedule, table, users, pte, screen, dead, raced>>

(* switch_terminal does so too when the running process changes between    *)
(* display and hiding.                                                     *)
SwitchMisleads(t) ==
  HandlerMisleads \/ (vidmapped /\ t # cur_terminal
                       /\ (t = run \/ Drawing(run)))

(* Alt and a function key.  switch_terminal sets the entry to what the     *)
(* running process needs from now on, but keyboard_handler, which calls    *)
(* it, restores the entry of before.                                       *)
SwitchTerminal(t) ==
  /\ ~Absent(VIDEO)
  /\ LET f == Through(VIDEO)
         saved == [frame EXCEPT ![TERM(cur_terminal)] = frame[f]]
     IN /\ frame' = [saved EXCEPT ![f] = saved[TERM(t)]]
        /\ tlb' = f
  /\ cur_terminal' = t
  /\ hw_cursor' = cursor[t]
  /\ derailed' = (derailed \/ SwitchMisleads(t))
  /\ Interrupts
  /\ UNCHANGED <<terminal_process_index, idle, pc, table, users, pte,
                 written, cursor, dead>>

(* Somebody stores to a page that is not present.  The handler of the page *)
(* fault prints, which faults again, and so on: nothing else happens from  *)
(* then on.                                                                *)
Crash ==
  /\ \E f \in Frame : Absent(f)
  /\ dead' = TRUE
  /\ UNCHANGED <<schedule, paging, screen, derailed, raced>>

(* The processor may forget a translation at any time. *)
Evict ==
  /\ tlb' = NONE
  /\ UNCHANGED <<schedule, table, users, pte, screen, flags>>

Stopped == dead /\ UNCHANGED vars

Vidmap == \/ VidmapDirectory \/ VidmapPage \/ VidmapAddress
          \/ (\E t \in Terminal : VidmapTerminal(t)) \/ VidmapReturn

Message == MessageCursor \/ MessageStore \/ MessageShow \/ MessageMove

Step ==
  \/ TerminalWrite \/ UserWrite \/ Vidmap \/ Fault \/ Message
  \/ Execute \/ Halt
  \/ Tick
  \/ Echo \/ MouseMove
  \/ \E t \in Terminal : SwitchTerminal(t)
  \/ Crash
  \/ Evict

Next == (~dead /\ Step) \/ Stopped

Spec == Init /\ [][Next]_vars

-----------------------------------------------------------------------------
(* Properties *)

TypeOK ==
  /\ cur_terminal \in Terminal
  /\ terminal_process_index \in Terminal
  /\ idle \in SUBSET Terminal
  /\ pc \in [Terminal -> {"user", "page", "address", "terminals",
                         "fault", "store", "outb", "struct"}]
  /\ vidmapped \in BOOLEAN
  /\ present \in SUBSET Frame
  /\ users \in SUBSET Terminal
  /\ pte \in Frame
  /\ tlb \in Frame \cup {NONE}
  /\ frame \in [Frame -> SUBSET (Terminal \X (1 .. MaxOut))]
  /\ written \in [Terminal -> 0 .. MaxOut]
  /\ cursor \in [Terminal -> Nat]
  /\ hw_cursor \in Nat
  /\ {dead, derailed, raced} \subseteq BOOLEAN

Screen(t) == IF t = cur_terminal THEN frame[VIDEO] ELSE frame[TERM(t)]

(* Every screen holds all of its terminal's output and nothing of another  *)
(* terminal's, displayed or hidden, through any terminal switches, also    *)
(* while vidmap changes the tables and while messages of faults come out:  *)
(* as long as no handler, vidmap or message finds the entry set up for     *)
(* somebody else, and nobody interrupts a message to print too.            *)
ScreensFaithful ==
  ~derailed /\ ~raced =>
    \A t \in Terminal : Screen(t) = {t} \X (1 .. written[t])

(* While nobody has called vidmap and no program has faulted, they are     *)
(* without any such condition.                                             *)
TextFaithful ==
  ~vidmapped /\ Faulted = {} =>
    \A t \in Terminal : Screen(t) = {t} \X (1 .. written[t])

(* The hardware's cursor is where the displayed terminal prints next,      *)
(* whatever was printed on hidden terminals or of their faults in between, *)
(* but for the moment between the two stores of a message's character.     *)
CursorShown ==
  ~raced /\ (\A t \in Terminal : pc[t] # "struct") =>
    hw_cursor = cursor[cur_terminal]

(* A program that has mapped the page and is entered by the scheduler has  *)
(* its own screen behind it, also in a slice in which keys are echoed and  *)
(* while another program is in the middle of vidmap.                       *)
OwnScreenMapped ==
  ~derailed /\ run \in users => Through(pte) = Target(run) /\ ~Absent(VIDEO)
=============================================================================
