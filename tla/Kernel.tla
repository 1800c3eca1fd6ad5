------------------------------- MODULE Kernel -------------------------------
(***************************************************************************)
(* Processes, terminals and the scheduler: execute and halt of             *)
(* system_calls.c, pit_handler and schedule of pit.c, and the part of      *)
(* switch_terminal that changes cur_terminal.                              *)
(*                                                                         *)
(* A step is the code the processor runs with interrupts masked, or one    *)
(* store of a system call that runs with them enabled.  System calls enter *)
(* through a trap gate, which leaves IF set: halt may lose the processor   *)
(* to the timer between any two of its stores.  execute runs under cli()   *)
(* up to the sti just before its iret.                                     *)
(*                                                                         *)
(* An operator next to the one it resembles, such as ParentPrevious next   *)
(* to Parent, is a mistake the code could have made; nothing uses it but   *)
(* the runs that show a property would notice the mistake.                 *)
(*                                                                         *)
(* A process, the kernel thread that serves it and its kernel stack share  *)
(* one number, the pid.                                                    *)
(***************************************************************************)
EXTENDS Integers

CONSTANTS NTerm,     \* terminals: 3 in the code
          NPid,      \* PCB slots: 6 in the code
          Program,   \* the executables of the file system
          Shell,     \* the program named "shell"
          Quiet,     \* "pingpong" and "fish", which take no typing
          Status     \* the values user programs pass to halt

ASSUME SizeAssumption == /\ NTerm \in Nat \ {0}
                         /\ NPid \in Nat
                         /\ NPid >= NTerm
ASSUME ProgramAssumption == /\ Shell \in Program
                            /\ Quiet \subseteq Program \ {Shell}
ASSUME StatusAssumption == Status \subseteq Nat

NONE == -1
Terminal == 0 .. NTerm - 1
Pid == 0 .. NPid - 1

(***************************************************************************)
(* Where a thread is.  "user" also covers the system calls other than      *)
(* execute and halt.  A thread is "waiting" inside execute until its child *)
(* jumps to finish_execute, and it spins for ever once an exception        *)
(* handler has taken it.  The steps of halt are named by the store that    *)
(* comes next.                                                             *)
(***************************************************************************)
HaltSteps == {"restore_paging", "clear_shell", "restore_tss", "free_pid",
              "pop_pid", "set_value", "jump"}
PC == {"none", "user", "waiting", "launch", "finish", "spin"} \cup HaltSteps

(* What a step can do that the code does not defend itself against. *)
Hazard == {"halt_preempted", "launch_preempted", "undisplayed_execute",
           "base_pid_taken", "image_damaged"}

VARIABLES
  pid_mask,                \* which PCB slots are taken
  shell_mask,              \* which pids run a shell
  typing_mask,             \* which terminals echo what is typed
  pid_arr,                 \* the process on top of each terminal
  cur_terminal,            \* the displayed terminal
  terminal_process_index,  \* the terminal whose process has the processor
  parentid, prev_ESP, TSS_prev_esp0, program_ESP,  \* fields of the PCBs
  page_map,                \* whose image page_directory[32] maps
  esp0,                    \* whose kernel stack tss.esp0 designates
  halt_value,              \* the static variable of system_calls.c
  run,                     \* the thread on the processor, NONE while booting
  pc,                      \* where each thread is
  stack,                   \* whose kernel stack holds a thread's frames
  halt_pid, pid_temp,      \* halt's curr_pid and pid_temp, the caller's pid
  status,                  \* the status that halt was given
  program,                 \* what each thread's process executes
  home,                    \* the terminal in whose slice it was executed
  lost,                    \* threads whose kernel frames were overwritten
  derailed,                \* which hazards have happened
  crashed                  \* the processor follows a pointer nobody saved

tables == <<pid_mask, shell_mask, typing_mask, pid_arr>>
links == <<parentid, prev_ESP, TSS_prev_esp0>>
local == <<halt_pid, pid_temp, status>>
ghosts == <<program, home>>
vars == <<tables, cur_terminal, terminal_process_index, links, program_ESP,
          page_map, esp0, halt_value, run, pc, stack, local, ghosts, lost,
          derailed, crashed>>

-----------------------------------------------------------------------------
Init ==
  /\ pid_mask = [p \in Pid |-> FALSE]
  /\ shell_mask = [p \in Pid |-> FALSE]
  /\ typing_mask = [t \in Terminal |-> TRUE]
  /\ pid_arr = [t \in Terminal |-> NONE]
  /\ cur_terminal = 0
  /\ terminal_process_index = NONE
  /\ parentid = [p \in Pid |-> NONE]
  /\ prev_ESP = [p \in Pid |-> NONE]
  /\ TSS_prev_esp0 = [p \in Pid |-> 0]
  /\ program_ESP = [p \in Pid |-> NONE]
  /\ page_map = NONE
  /\ esp0 = 0
  /\ halt_value = 0
  /\ run = NONE
  /\ pc = [p \in Pid |-> "none"]
  /\ stack = [p \in Pid |-> p]
  /\ halt_pid = [p \in Pid |-> NONE]
  /\ pid_temp = [p \in Pid |-> NONE]
  /\ status = [p \in Pid |-> 0]
  /\ program = [p \in Pid |-> Shell]
  /\ home = [p \in Pid |-> 0]
  /\ lost = {}
  /\ derailed = {}
  /\ crashed = FALSE

Running(where) == ~crashed /\ run # NONE /\ pc[run] \in where

Preempted ==
  IF run = NONE THEN {}
  ELSE IF pc[run] \in HaltSteps \cup {"finish"} THEN {"halt_preempted"}
  ELSE IF pc[run] = "launch" /\ run < NTerm THEN {"launch_preempted"}
  ELSE {}

(* r goes back to user mode.  It will enter the kernel again at the top of *)
(* the stack s, over whatever another thread has left there.               *)
ToUser(r, s) ==
  /\ stack' = [stack EXCEPT ![r] = s]
  /\ lost' = lost \cup {x \in Pid \ {r} : pc[x] # "none" /\ stack[x] = s}

-----------------------------------------------------------------------------
(* execute *)

Free(p) == ~pid_mask[p]
LowestFree(p) == Free(p) /\ \A q \in Pid : q < p => ~Free(q)

(* A base shell is its own parent and goes to the terminal of its number;  *)
(* any other process is filed under the displayed terminal.                *)
ParentPrevious(p) == IF p < NTerm THEN p ELSE p - 1
ParentShown(p) == pid_arr[cur_terminal]
Parent(p) == IF p < NTerm THEN p ELSE pid_arr[cur_terminal]

PlaceShown(p) == cur_terminal
Place(p) == IF p < NTerm THEN p ELSE cur_terminal

(* The part of execute that both its callers share: everything from       *)
(* create_pcb to the sti before the iret, with interrupts masked.  Frames  *)
(* that were saved on the new process's stack are gone; create_pcb leaves  *)
(* the program_ESP of the PCB as it is.                                    *)
LoadProgram(p, prog, slice) ==
  /\ parentid' = [parentid EXCEPT ![p] = Parent(p)]
  /\ prev_ESP' = [prev_ESP EXCEPT ![p] = run]
  /\ TSS_prev_esp0' = [TSS_prev_esp0 EXCEPT ![p] = esp0]
  /\ page_map' = p
  /\ esp0' = p
  /\ shell_mask' = IF prog = Shell THEN [shell_mask EXCEPT ![p] = TRUE]
                                   ELSE shell_mask
  /\ typing_mask' = [typing_mask EXCEPT ![cur_terminal] = prog \notin Quiet]
  /\ pid_mask' = [pid_mask EXCEPT ![p] = TRUE]
  /\ pid_arr' = [pid_arr EXCEPT ![Place(p)] = p]
  /\ run' = p
  /\ stack' = [stack EXCEPT ![p] = IF run = NONE THEN 0 ELSE stack[run]]
  /\ program' = [program EXCEPT ![p] = prog]
  /\ home' = [home EXCEPT ![p] = slice]
  /\ lost' = lost \ {p}

(* A shell executes a command.  One that names no executable file, and one *)
(* that finds no free pid, returns -1 and changes nothing.                 *)
Execute(prog) ==
  /\ Running({"user"})
  /\ program[run] = Shell
  /\ \E p \in Pid :
       /\ LowestFree(p)
       /\ LoadProgram(p, prog, terminal_process_index)
       /\ pc' = [pc EXCEPT ![run] = "waiting", ![p] = "launch"]
       /\ program_ESP' = [q \in Pid |->
                            IF program_ESP[q] = p THEN NONE
                                                  ELSE program_ESP[q]]
       /\ derailed' = derailed
            \cup (IF p < NTerm THEN {"base_pid_taken"} ELSE {})
            \cup (IF p >= NTerm /\ terminal_process_index # cur_terminal
                    THEN {"undisplayed_execute"} ELSE {})
  /\ UNCHANGED <<cur_terminal, terminal_process_index, halt_value, local,
                 crashed>>

(* The file turns out to be damaged when its image is copied: execute has  *)
(* filled in the PCB and mapped the new process, and returns -1 without    *)
(* mapping its caller again.                                               *)
ExecuteDamaged ==
  /\ Running({"user"})
  /\ program[run] = Shell
  /\ \E p \in Pid :
       /\ LowestFree(p)
       /\ parentid' = [parentid EXCEPT ![p] = Parent(p)]
       /\ page_map' = p
  /\ derailed' = derailed \cup {"image_damaged"}
  /\ UNCHANGED <<tables, cur_terminal, terminal_process_index, prev_ESP,
                 TSS_prev_esp0, program_ESP, esp0, halt_value, run, pc, stack,
                 local, ghosts, lost, crashed>>

(* The iret of execute, after the sti. *)
Launch ==
  /\ Running({"launch"})
  /\ pc' = [pc EXCEPT ![run] = "user"]
  /\ ToUser(run, esp0)
  /\ UNCHANGED <<tables, cur_terminal, terminal_process_index, links,
                 program_ESP, page_map, esp0, halt_value, run, local, ghosts,
                 derailed, crashed>>

-----------------------------------------------------------------------------
(* halt *)

HaltAnyone(st) ==
  /\ Running({"user"})
  /\ halt_pid' = [halt_pid EXCEPT ![run] = pid_arr[terminal_process_index]]
  /\ pid_temp' =
       [pid_temp EXCEPT ![run] = parentid[pid_arr[terminal_process_index]]]
  /\ status' = [status EXCEPT ![run] = st]
  /\ pc' = [pc EXCEPT ![run] = "restore_paging"]
  /\ UNCHANGED <<tables, cur_terminal, terminal_process_index, links,
                 program_ESP, page_map, esp0, halt_value, run, stack, ghosts,
                 lost, derailed, crashed>>

(* A base shell that halts is started again by an iret to its entry point: *)
(* no kernel state changes, and the step is a stutter of this module.      *)
Halt(st) ==
  /\ Running({"user"})
  /\ pid_arr[terminal_process_index] >= NTerm
  /\ halt_pid' = [halt_pid EXCEPT ![run] = pid_arr[terminal_process_index]]
  /\ pid_temp' =
       [pid_temp EXCEPT ![run] = parentid[pid_arr[terminal_process_index]]]
  /\ status' = [status EXCEPT ![run] = st]
  /\ pc' = [pc EXCEPT ![run] = "restore_paging"]
  /\ UNCHANGED <<tables, cur_terminal, terminal_process_index, links,
                 program_ESP, page_map, esp0, halt_value, run, stack, ghosts,
                 lost, derailed, crashed>>

HaltStep(at, next) ==
  /\ Running({at})
  /\ pc' = [pc EXCEPT ![run] = next]
  /\ UNCHANGED <<cur_terminal, terminal_process_index, links, program_ESP, run,
                 stack, local, ghosts, lost, derailed, crashed>>

RestorePagingForgotten ==
  HaltStep("restore_paging", "clear_shell") /\ UNCHANGED <<tables, page_map,
                                                          esp0, halt_value>>

RestorePaging ==
  /\ HaltStep("restore_paging", "clear_shell")
  /\ page_map' = pid_temp[run]
  /\ UNCHANGED <<tables, esp0, halt_value>>

ClearShellForgotten ==
  HaltStep("clear_shell", "restore_tss") /\ UNCHANGED <<tables, page_map, esp0,
                                                       halt_value>>

ClearShell ==
  /\ HaltStep("clear_shell", "restore_tss")
  /\ shell_mask' = [shell_mask EXCEPT ![halt_pid[run]] = FALSE]
  /\ UNCHANGED <<pid_mask, typing_mask, pid_arr, page_map, esp0, halt_value>>

RestoreTss ==
  /\ HaltStep("restore_tss", "free_pid")
  /\ esp0' = TSS_prev_esp0[halt_pid[run]]
  /\ UNCHANGED <<tables, page_map, halt_value>>

FreePidForgotten ==
  HaltStep("free_pid", "pop_pid") /\ UNCHANGED <<tables, page_map, esp0,
                                                halt_value>>

FreePid ==
  /\ HaltStep("free_pid", "pop_pid")
  /\ pid_mask' = [pid_mask EXCEPT ![halt_pid[run]] = FALSE]
  /\ UNCHANGED <<shell_mask, typing_mask, pid_arr, page_map, esp0, halt_value>>

PopPidShown ==
  /\ HaltStep("pop_pid", "set_value")
  /\ typing_mask' = [typing_mask EXCEPT ![cur_terminal] = TRUE]
  /\ pid_arr' = [pid_arr EXCEPT ![cur_terminal] = pid_temp[run]]
  /\ UNCHANGED <<pid_mask, shell_mask, page_map, esp0, halt_value>>

PopPid ==
  /\ HaltStep("pop_pid", "set_value")
  /\ typing_mask' = [typing_mask EXCEPT ![terminal_process_index] = TRUE]
  /\ pid_arr' = [pid_arr EXCEPT ![terminal_process_index] = pid_temp[run]]
  /\ UNCHANGED <<pid_mask, shell_mask, page_map, esp0, halt_value>>

SetValueForgotten ==
  HaltStep("set_value", "jump") /\ UNCHANGED <<tables, page_map, esp0,
                                              halt_value>>

SetValueFailure ==
  /\ HaltStep("set_value", "jump")
  /\ halt_value' = NONE
  /\ UNCHANGED <<tables, page_map, esp0>>

SetValue ==
  /\ HaltStep("set_value", "jump")
  /\ halt_value' = status[run]
  /\ UNCHANGED <<tables, page_map, esp0>>

(* Load prev_ESP and jump to finish_execute: the caller's frame must still *)
(* be there.  halt's own is left behind, and its variables with it.        *)
Jump ==
  /\ Running({"jump"})
  /\ LET w == prev_ESP[halt_pid[run]] IN
       IF w # NONE /\ w \notin lost /\ pc[w] = "waiting"
         THEN /\ pc' = [pc EXCEPT ![run] = "none", ![w] = "finish"]
              /\ halt_pid' = [halt_pid EXCEPT ![run] = NONE]
              /\ pid_temp' = [pid_temp EXCEPT ![run] = NONE]
              /\ status' = [status EXCEPT ![run] = 0]
              /\ run' = w
              /\ UNCHANGED crashed
         ELSE /\ crashed' = TRUE
              /\ UNCHANGED <<pc, local, run>>
  /\ UNCHANGED <<tables, cur_terminal, terminal_process_index, links,
                 program_ESP, page_map, esp0, halt_value, stack, ghosts, lost,
                 derailed>>

(* execute returns halt_value to the program that called it. *)
Finish ==
  /\ Running({"finish"})
  /\ pc' = [pc EXCEPT ![run] = "user"]
  /\ ToUser(run, esp0)
  /\ UNCHANGED <<tables, cur_terminal, terminal_process_index, links,
                 program_ESP, page_map, esp0, halt_value, run, local, ghosts,
                 derailed, crashed>>

-----------------------------------------------------------------------------
(* The timer *)

SkipIdle(t) == pid_arr[t] # NONE /\ shell_mask[pid_arr[t]]
SkipHidden(t) == pid_arr[t] # NONE /\ cur_terminal # t

(* The scheduler passes over a terminal that only shows an idle shell. *)
Skip(t) ==
  /\ pid_arr[t] # NONE
  /\ shell_mask[pid_arr[t]]
  /\ cur_terminal # t

(* b lies strictly between a and c, counting up from a modulo NTerm. *)
Between(a, b, c) == IF a < c THEN a < b /\ b < c ELSE b > a \/ b < c

(* pit_handler's loop stops at i.  When it comes back to where it started  *)
(* the handler returns and nothing has changed.                            *)
PitNext(i) ==
  /\ i # terminal_process_index
  /\ ~Skip(i)
  /\ \A t \in Terminal : Between(terminal_process_index, t, i) => Skip(t)

SavedNowhere == program_ESP

(* program_ESP once the registers are saved in the PCB of the process that *)
(* pid_arr files under the interrupted terminal.                           *)
Saved == IF run = NONE THEN program_ESP
         ELSE [program_ESP EXCEPT ![pid_arr[terminal_process_index]] = run]

(* schedule finds a terminal that has no process yet. *)
StartShell(i) ==
  /\ pid_arr[i] = NONE
  /\ \E p \in Pid :
       /\ LowestFree(p)
       /\ LoadProgram(p, Shell, i)
       /\ pc' = [pc EXCEPT ![p] = "launch"]
       /\ program_ESP' = [q \in Pid |->
                            IF Saved[q] = p THEN NONE ELSE Saved[q]]
  /\ UNCHANGED <<halt_value, local, crashed>>

(* schedule switches to the process on top of terminal i. *)
Resume(i) ==
  LET q == pid_arr[i]
      r == Saved[q]
  IN /\ q # NONE
     /\ page_map' = q
     /\ esp0' = q
     /\ IF r = NONE \/ r \in lost
          THEN /\ crashed' = TRUE
               /\ program_ESP' = Saved
               /\ UNCHANGED <<run, stack, lost>>
          ELSE /\ run' = r
               /\ program_ESP' = [Saved EXCEPT ![q] = NONE]
               /\ IF pc[r] = "user" THEN ToUser(r, q)
                                    ELSE UNCHANGED <<stack, lost>>
               /\ UNCHANGED crashed
     /\ UNCHANGED <<tables, links, halt_value, pc, local, ghosts>>

Tick ==
  /\ ~crashed
  /\ \E i \in Terminal :
       /\ PitNext(i)
       /\ terminal_process_index' = i
       /\ StartShell(i) \/ Resume(i)
  /\ derailed' = derailed \cup Preempted
  /\ UNCHANGED cur_terminal

-----------------------------------------------------------------------------
(* A program faults: the exception handler prints a message and loops. *)
Fault ==
  /\ Running({"user"})
  /\ pc' = [pc EXCEPT ![run] = "spin"]
  /\ UNCHANGED <<tables, cur_terminal, terminal_process_index, links,
                 program_ESP, page_map, esp0, halt_value, run, stack, local,
                 ghosts, lost, derailed, crashed>>

(* Alt and a function key. *)
SwitchTerminal(t) ==
  /\ ~crashed
  /\ cur_terminal' = t
  /\ UNCHANGED <<tables, terminal_process_index, links, program_ESP, page_map,
                 esp0, halt_value, run, pc, stack, local, ghosts, lost,
                 derailed, crashed>>

Hung == crashed /\ UNCHANGED vars

HaltMove == \/ RestorePaging \/ ClearShell \/ RestoreTss \/ FreePid \/ PopPid
            \/ SetValue \/ Jump \/ Finish

Next ==
  \/ Tick
  \/ \E prog \in Program : Execute(prog)
  \/ ExecuteDamaged
  \/ Launch
  \/ \E st \in Status : Halt(st)
  \/ HaltMove
  \/ Fault
  \/ \E t \in Terminal : SwitchTerminal(t)
  \/ Hung

Spec == Init /\ [][Next]_vars

(* The timer keeps interrupting: every state of the module has IF set.     *)
TimerSpec == Spec /\ WF_vars(Tick)

(* A slice lasts ten milliseconds, so a thread that is given the processor *)
(* again and again gets on with its system call.                           *)
FairSpec ==
  /\ TimerSpec
  /\ \A p \in Pid : SF_vars(run = p /\ (Launch \/ HaltMove))
-----------------------------------------------------------------------------
(* Properties *)

Clean == derailed = {}
Live(p) == pc[p] # "none"

(* Every variable keeps its type; in particular the value that execute     *)
(* returns is always a status some program passed to halt.                 *)
TypeOK ==
  /\ pid_mask \in [Pid -> BOOLEAN]
  /\ shell_mask \in [Pid -> BOOLEAN]
  /\ typing_mask \in [Terminal -> BOOLEAN]
  /\ pid_arr \in [Terminal -> Pid \cup {NONE}]
  /\ cur_terminal \in Terminal
  /\ terminal_process_index \in Terminal \cup {NONE}
  /\ parentid \in [Pid -> Pid \cup {NONE}]
  /\ prev_ESP \in [Pid -> Pid \cup {NONE}]
  /\ TSS_prev_esp0 \in [Pid -> Pid]
  /\ program_ESP \in [Pid -> Pid \cup {NONE}]
  /\ page_map \in Pid \cup {NONE}
  /\ esp0 \in Pid
  /\ halt_value \in Status \cup {0}
  /\ run \in Pid \cup {NONE}
  /\ pc \in [Pid -> PC]
  /\ stack \in [Pid -> Pid]
  /\ halt_pid \in [Pid -> Pid \cup {NONE}]
  /\ pid_temp \in [Pid -> Pid \cup {NONE}]
  /\ status \in [Pid -> Status \cup {0}]
  /\ program \in [Pid -> Program]
  /\ home \in [Pid -> Terminal]
  /\ lost \in SUBSET Pid
  /\ derailed \in SUBSET Hazard
  /\ crashed \in BOOLEAN

(* The pid of a base shell is never given back, by any interleaving of     *)
(* halt, execute and the timer.                                            *)
BaseShellsStay ==
  [][\A p \in Pid : p < NTerm /\ ~Free(p) => ~Free(p)']_vars

(* While a terminal waits for its first shell, its base pid is free: the   *)
(* execute that schedule calls, whose failure it does not handle, finds a  *)
(* pid.                                                                    *)
EmptyTerminalHasPid == \A t \in Terminal : pid_arr[t] = NONE => Free(t)

(* A process in use has a parent, so that halt's map_program_mem cannot    *)
(* fail: its failure branch would return to the wrong frame.               *)
ParentNamed == \A p \in Pid : ~Free(p) => parentid[p] \in Pid

(* As long as no hazard happens, the processor never loads a stack pointer *)
(* that was not saved or whose stack has been overwritten.                 *)
NeverCrashes == Clean => ~crashed

(* A thread in user mode sees its own image, will enter the kernel on its  *)
(* own stack, and is the process filed under the running terminal: what    *)
(* read, write, getargs and halt take to be their caller.                  *)
MappingFollowsRunner ==
  Clean /\ Running({"user", "spin"}) =>
    /\ page_map = run
    /\ esp0 = run
    /\ pid_arr[terminal_process_index] = run

(* The process on top of a terminal was executed from that terminal. *)
OwnTerminal ==
  Clean => \A t \in Terminal : pid_arr[t] # NONE => home[pid_arr[t]] = t

(* The three ways in which a PCB remembers the caller agree: the process   *)
(* halt maps, the frame it jumps to and the stack it puts in the TSS.      *)
CallerHears ==
  Clean => \A p \in Pid : p >= NTerm /\ Live(p) =>
    /\ prev_ESP[p] = parentid[p]
    /\ TSS_prev_esp0[p] = parentid[p]
    /\ home[p] = home[parentid[p]]

(* A pid is in use exactly while its process lives, except that halt gives *)
(* it back while it still runs on its stack.                               *)
SlotsAccounted ==
  Clean => \A p \in Pid :
    Free(p) <=> \/ ~Live(p)
                \/ p = run /\ pc[p] \in {"pop_pid", "set_value", "jump"}

(* The masks fit the programs: the keyboard echoes on a terminal unless    *)
(* pingpong or fish is on top, and shell_mask, by which the scheduler      *)
(* decides whom to pass over, is right about every process, also when a    *)
(* pid is used again.                                                      *)
MasksFitPrograms ==
  Clean =>
    /\ \A t \in Terminal : pid_arr[t] # NONE =>
         typing_mask[t] = (program[pid_arr[t]] \notin Quiet)
    /\ \A p \in Pid :
         ~Free(p) /\ pc[p] \notin HaltSteps => (shell_mask[p] <=> program[p] = Shell)

Busy(t) == pid_arr[t] # NONE /\ ~shell_mask[pid_arr[t]]

(* A terminal that is displayed or runs something else than a shell, now   *)
(* this and then that, gets the processor again and again.                 *)
NoTerminalStarves ==
  \A t \in Terminal :
    <>[](cur_terminal = t \/ Busy(t)) => []<>(terminal_process_index = t \/ crashed)

(* A program that calls halt gives its pid back, even if it is preempted   *)
(* on the way and its terminal is not displayed.                           *)
HaltGivesBackPid ==
  \A p \in Pid :
    (pc[p] = "restore_paging" /\ program[p] # Shell)
      ~> (Free(p) \/ crashed \/ "undisplayed_execute" \in derailed)
=============================================================================
