---------------------------- MODULE KernelProofs ----------------------------
(***************************************************************************)
(* Theorems about Kernel, for any number of terminals and PCB slots:       *)
(* first what no hazard can break, then what execute, halt and the         *)
(* scheduler keep as long as no hazard happens, and that Kernel then       *)
(* implements Sessions.                                                    *)
(***************************************************************************)
EXTENDS KernelSessions, TLAPS

-----------------------------------------------------------------------------
(* The part of the invariant that no hazard can break.                     *)

SliceOK == run # NONE => terminal_process_index # NONE

HaltPidOK == \A p \in Pid : pc[p] \in HaltSteps => halt_pid[p] >= NTerm

(* The chain of parents never leads to NONE. *)
Named(p) == parentid[p] # NONE

ParentsOK ==
  /\ \A p \in Pid : ~Free(p) => Named(p)
  /\ \A p \in Pid : Named(p) => Named(parentid[p])
  /\ \A p \in Pid : pc[p] \in HaltSteps =>
       pid_temp[p] # NONE /\ Named(pid_temp[p])
  /\ \A t \in Terminal : pid_arr[t] # NONE => Named(pid_arr[t])

BaseInv == TypeOK /\ SliceOK /\ HaltPidOK /\ EmptyTerminalHasPid /\ ParentsOK

(* The numbers of terminals and processes are as the code needs them. *)
LEMMA TerminalInPid == Terminal \subseteq Pid /\ 0 \in Terminal /\ NONE \notin Pid
BY SizeAssumption, SMT DEF Terminal, Pid, NONE

(* A pid at or above NTerm is handed out only when every terminal has a    *)
(* process.                                                                *)
LEMMA AllLaunched ==
  ASSUME BaseInv, NEW p \in Pid, LowestFree(p), p >= NTerm
  PROVE  \A t \in Terminal : pid_arr[t] # NONE
<1>1. SUFFICES ASSUME NEW t \in Terminal
               PROVE  pid_arr[t] # NONE
  OBVIOUS
<1>2. t \in Pid /\ t < p
  BY SizeAssumption, SMT DEF Terminal, Pid
<1>3. ~Free(t)
  BY <1>2 DEF LowestFree
<1> QED
  BY <1>3 DEF BaseInv, EmptyTerminalHasPid

(* Boot establishes the invariant. *)
LEMMA BaseInit == Init => BaseInv
<1> SUFFICES ASSUME Init
             PROVE  BaseInv
  OBVIOUS
<1>1. TypeOK
  <2>1. /\ pid_mask \in [Pid -> BOOLEAN]
        /\ shell_mask \in [Pid -> BOOLEAN]
        /\ typing_mask \in [Terminal -> BOOLEAN]
        /\ crashed \in BOOLEAN
    BY Zenon DEF Init
  <2>2. /\ pid_arr \in [Terminal -> Pid \cup {NONE}]
        /\ cur_terminal \in Terminal
        /\ terminal_process_index \in Terminal \cup {NONE}
        /\ parentid \in [Pid -> Pid \cup {NONE}]
        /\ prev_ESP \in [Pid -> Pid \cup {NONE}]
        /\ TSS_prev_esp0 \in [Pid -> Pid]
        /\ program_ESP \in [Pid -> Pid \cup {NONE}]
    BY TerminalInPid, SMT DEF Init
  <2>3. /\ page_map \in Pid \cup {NONE}
        /\ esp0 \in Pid
        /\ halt_value \in Status \cup {0}
        /\ run \in Pid \cup {NONE}
        /\ stack \in [Pid -> Pid]
        /\ halt_pid \in [Pid -> Pid \cup {NONE}]
        /\ pid_temp \in [Pid -> Pid \cup {NONE}]
        /\ status \in [Pid -> Status \cup {0}]
        /\ home \in [Pid -> Terminal]
        /\ lost \in SUBSET Pid
    BY TerminalInPid, SMT DEF Init
  <2>4. /\ program \in [Pid -> Program]
        /\ pc \in [Pid -> PC]
        /\ derailed \in SUBSET Hazard
    BY ProgramAssumption DEF Init, PC
  <2> QED
    BY <2>1, <2>2, <2>3, <2>4 DEF TypeOK
<1>2. SliceOK /\ EmptyTerminalHasPid
  BY TerminalInPid, SMT DEF Init, SliceOK, EmptyTerminalHasPid, Free, NONE
<1>3. HaltPidOK
  BY DEF Init, HaltPidOK, HaltSteps
<1>4. ParentsOK
  BY SMT DEF Init, ParentsOK, Free, Named, HaltSteps
<1> QED
  BY <1>1, <1>2, <1>3, <1>4 DEF BaseInv

(* execute keeps every table well typed. *)
LEMMA LoadProgramType ==
  ASSUME TypeOK, NEW p \in Pid, NEW prog \in Program, NEW slice \in Terminal,
         LoadProgram(p, prog, slice)
  PROVE  /\ pid_mask' \in [Pid -> BOOLEAN]
         /\ shell_mask' \in [Pid -> BOOLEAN]
         /\ typing_mask' \in [Terminal -> BOOLEAN]
         /\ pid_arr' \in [Terminal -> Pid \cup {NONE}]
         /\ parentid' \in [Pid -> Pid \cup {NONE}]
         /\ prev_ESP' \in [Pid -> Pid \cup {NONE}]
         /\ TSS_prev_esp0' \in [Pid -> Pid]
         /\ page_map' \in Pid \cup {NONE}
         /\ esp0' \in Pid
         /\ run' \in Pid \cup {NONE}
         /\ stack' \in [Pid -> Pid]
         /\ program' \in [Pid -> Program]
         /\ home' \in [Pid -> Terminal]
         /\ lost' \in SUBSET Pid
<1>1. /\ pid_mask' \in [Pid -> BOOLEAN]
      /\ shell_mask' \in [Pid -> BOOLEAN]
      /\ typing_mask' \in [Terminal -> BOOLEAN]
  BY Zenon DEF TypeOK, LoadProgram
<1>2. /\ prev_ESP' \in [Pid -> Pid \cup {NONE}]
      /\ TSS_prev_esp0' \in [Pid -> Pid]
      /\ page_map' \in Pid \cup {NONE}
      /\ esp0' \in Pid
      /\ run' \in Pid \cup {NONE}
  BY SMT DEF TypeOK, LoadProgram
<1>a. pid_arr' \in [Terminal -> Pid \cup {NONE}]
  BY Zenon DEF TypeOK, LoadProgram, Place
<1>b. parentid' \in [Pid -> Pid \cup {NONE}]
  <2>1. Parent(p) \in Pid \cup {NONE}
    BY DEF TypeOK, Parent
  <2> QED
    BY <2>1 DEF TypeOK, LoadProgram
<1>3. /\ stack' \in [Pid -> Pid]
      /\ lost' \in SUBSET Pid
  BY TerminalInPid, SMT DEF TypeOK, LoadProgram
<1>4. /\ program' \in [Pid -> Program]
      /\ home' \in [Pid -> Terminal]
  BY DEF TypeOK, LoadProgram
<1> QED
  BY <1>1, <1>2, <1>a, <1>b, <1>3, <1>4

(* Saving the registers in a PCB keeps program_ESP well typed. *)
LEMMA SavedType == TypeOK => Saved \in [Pid -> Pid \cup {NONE}]
<1> SUFFICES ASSUME TypeOK
             PROVE  Saved \in [Pid -> Pid \cup {NONE}]
  OBVIOUS
<1>1. CASE run = NONE
  BY <1>1 DEF TypeOK, Saved
<1>2. CASE run # NONE
  BY <1>2, Zenon DEF TypeOK, Saved
<1> QED
  BY <1>1, <1>2

(* Going back to user mode keeps the ghosts well typed. *)
LEMMA ToUserType ==
  ASSUME TypeOK, NEW r \in Pid, NEW s \in Pid, ToUser(r, s)
  PROVE  stack' \in [Pid -> Pid] /\ lost' \in SUBSET Pid
BY SMT DEF TypeOK, ToUser

(* Every step keeps every variable in its type. *)
LEMMA TypeStep == BaseInv /\ [Next]_vars => TypeOK'
<1> SUFFICES ASSUME BaseInv, [Next]_vars
             PROVE  TypeOK'
  OBVIOUS
<1> USE DEF BaseInv
<1>1. CASE Tick
  <2>1. PICK i \in Terminal : /\ terminal_process_index' = i
                              /\ StartShell(i) \/ Resume(i)
    BY <1>1 DEF Tick
  <2>2. /\ cur_terminal' \in Terminal
        /\ terminal_process_index' \in Terminal \cup {NONE}
        /\ derailed' \in SUBSET Hazard
    BY <1>1, <2>1 DEF Tick, TypeOK, Preempted, Hazard
  <2>3. CASE StartShell(i)
    <3>1. PICK p \in Pid :
            /\ LoadProgram(p, Shell, i)
            /\ pc' = [pc EXCEPT ![p] = "launch"]
            /\ program_ESP' =
                 [q \in Pid |-> IF Saved[q] = p THEN NONE ELSE Saved[q]]
      BY <2>3 DEF StartShell
    <3>2. program_ESP' \in [Pid -> Pid \cup {NONE}]
      BY <3>1, SavedType, SMT
    <3>3. pc' \in [Pid -> PC]
      BY <3>1 DEF TypeOK, PC
    <3>4. UNCHANGED <<halt_value, local, crashed>>
      BY <2>3 DEF StartShell
    <3> QED
      BY <2>2, <3>1, <3>2, <3>3, <3>4, ProgramAssumption, LoadProgramType
         DEF TypeOK, local
  <2>4. CASE Resume(i)
    <3> DEFINE q == pid_arr[i]
    <3>1. q \in Pid
      BY <2>4, SMT DEF Resume, TypeOK
    <3>2. /\ page_map' = q /\ esp0' = q
          /\ UNCHANGED <<tables, links, halt_value, pc, local, ghosts>>
      BY <2>4 DEF Resume
    <3>3. /\ run' \in Pid \cup {NONE}
          /\ program_ESP' \in [Pid -> Pid \cup {NONE}]
          /\ stack' \in [Pid -> Pid]
          /\ lost' \in SUBSET Pid
          /\ crashed' \in BOOLEAN
      <4>1. CASE Saved[q] = NONE \/ Saved[q] \in lost
        BY <4>1, <2>4, SavedType DEF Resume, TypeOK
      <4>2. CASE ~(Saved[q] = NONE \/ Saved[q] \in lost)
        <5>1. Saved[q] \in Pid
          BY <4>2, <3>1, SavedType
        <5>2. /\ run' = Saved[q]
              /\ program_ESP' = [Saved EXCEPT ![q] = NONE]
              /\ \/ ToUser(Saved[q], q)
                 \/ UNCHANGED <<stack, lost>>
              /\ UNCHANGED crashed
          BY <4>2, <2>4 DEF Resume
        <5>3. program_ESP' \in [Pid -> Pid \cup {NONE}]
          BY <5>2, <3>1, SavedType, SMT
        <5>4. stack' \in [Pid -> Pid] /\ lost' \in SUBSET Pid
          BY <5>1, <5>2, <3>1, ToUserType DEF TypeOK
        <5> QED
          BY <5>1, <5>2, <5>3, <5>4 DEF TypeOK
      <4> QED
        BY <4>1, <4>2
    <3> QED
      BY <2>2, <3>1, <3>2, <3>3 DEF TypeOK, tables, links, local, ghosts
  <2> QED
    BY <2>1, <2>3, <2>4
<1>2. ASSUME NEW prog \in Program, Execute(prog)
      PROVE  TypeOK'
  <2>1. PICK p \in Pid :
          /\ LoadProgram(p, prog, terminal_process_index)
          /\ pc' = [pc EXCEPT ![run] = "waiting", ![p] = "launch"]
          /\ program_ESP' = [q \in Pid |-> IF program_ESP[q] = p
                                             THEN NONE ELSE program_ESP[q]]
          /\ derailed' = derailed
               \cup (IF p < NTerm THEN {"base_pid_taken"} ELSE {})
               \cup (IF p >= NTerm /\ terminal_process_index # cur_terminal
                       THEN {"undisplayed_execute"} ELSE {})
    BY <1>2 DEF Execute
  <2>2. run # NONE /\ terminal_process_index \in Terminal
    BY <1>2 DEF Execute, Running, SliceOK, TypeOK
  <2>3. program_ESP' \in [Pid -> Pid \cup {NONE}]
    BY <2>1, SMT DEF TypeOK
  <2>4. pc' \in [Pid -> PC]
    BY <2>1 DEF TypeOK, PC
  <2>5. derailed' \in SUBSET Hazard
    BY <2>1 DEF TypeOK, Hazard
  <2>6. UNCHANGED <<cur_terminal, terminal_process_index, halt_value, local,
                    crashed>>
    BY <1>2 DEF Execute
  <2> QED
    BY <2>1, <2>2, <2>3, <2>4, <2>5, <2>6, LoadProgramType DEF TypeOK, local
<1>3. CASE Launch
  <2>1. run \in Pid /\ esp0 \in Pid /\ ToUser(run, esp0)
    BY <1>3 DEF Launch, Running, TypeOK
  <2>2. pc' \in [Pid -> PC]
    BY <1>3 DEF Launch, TypeOK, PC
  <2> QED
    BY <1>3, <2>1, <2>2, ToUserType
       DEF Launch, TypeOK, tables, links, local, ghosts
<1>4. ASSUME NEW st \in Status, Halt(st)
      PROVE  TypeOK'
  <2>1. run \in Pid /\ terminal_process_index \in Terminal
    BY <1>4 DEF Halt, Running, SliceOK, TypeOK
  <2>a. pid_arr[terminal_process_index] \in Pid
    BY <1>4, <2>1, SizeAssumption, SMT DEF Halt, TypeOK, NONE
  <2>2. /\ halt_pid' \in [Pid -> Pid \cup {NONE}]
        /\ pid_temp' \in [Pid -> Pid \cup {NONE}]
        /\ status' \in [Pid -> Status \cup {0}]
        /\ pc' \in [Pid -> PC]
    BY <1>4, <2>1, <2>a DEF Halt, TypeOK, PC, HaltSteps
  <2> QED
    BY <1>4, <2>2 DEF Halt, TypeOK, tables, links, ghosts
<1>5. CASE HaltMove
  <2>1. ASSUME NEW at \in HaltSteps, NEW next \in PC, HaltStep(at, next)
        PROVE  /\ run \in Pid
               /\ halt_pid[run] \in Pid
               /\ pid_temp[run] \in Pid \cup {NONE}
               /\ pc' \in [Pid -> PC]
               /\ UNCHANGED <<cur_terminal, terminal_process_index, links,
                              program_ESP, run, stack, local, ghosts, lost,
                              derailed, crashed>>
    <3>1. run \in Pid /\ pc[run] = at
      BY <2>1 DEF HaltStep, Running, TypeOK
    <3>2. halt_pid[run] \in Pid
      BY <3>1, <2>1, SizeAssumption, SMT DEF HaltPidOK, TypeOK, NONE
    <3> QED
      BY <3>1, <3>2, <2>1 DEF HaltStep, TypeOK
  <2>2. CASE RestorePaging
    <3>1. HaltStep("restore_paging", "clear_shell")
      BY <2>2 DEF RestorePaging
    <3> QED
      BY <2>1, <2>2, <3>1 DEF RestorePaging, TypeOK, HaltSteps, PC, tables,
                              links, local, ghosts
  <2>3. CASE ClearShell
    <3>1. HaltStep("clear_shell", "restore_tss")
      BY <2>3 DEF ClearShell
    <3> QED
      BY <2>1, <2>3, <3>1 DEF ClearShell, TypeOK, HaltSteps, PC,
                              links, local, ghosts
  <2>4. CASE RestoreTss
    <3>1. HaltStep("restore_tss", "free_pid")
      BY <2>4 DEF RestoreTss
    <3> QED
      BY <2>1, <2>4, <3>1 DEF RestoreTss, TypeOK, HaltSteps, PC, tables,
                              links, local, ghosts
  <2>5. CASE FreePid
    <3>1. HaltStep("free_pid", "pop_pid")
      BY <2>5 DEF FreePid
    <3> QED
      BY <2>1, <2>5, <3>1 DEF FreePid, TypeOK, HaltSteps, PC,
                              links, local, ghosts
  <2>6. CASE PopPid
    <3>1. HaltStep("pop_pid", "set_value")
      BY <2>6 DEF PopPid
    <3>2. pid_temp[run] \in Pid \cup {NONE}
      BY <2>1, <3>1 DEF TypeOK, HaltSteps, PC
    <3>3. typing_mask' \in [Terminal -> BOOLEAN]
      BY <2>6, Zenon DEF PopPid, TypeOK
    <3>4. pid_arr' \in [Terminal -> Pid \cup {NONE}]
      BY <2>6, <3>2 DEF PopPid, TypeOK
    <3> QED
      BY <2>1, <2>6, <3>1, <3>3, <3>4 DEF PopPid, TypeOK, HaltSteps, PC,
                                          links, local, ghosts
  <2>7. CASE SetValue
    <3>1. HaltStep("set_value", "jump")
      BY <2>7 DEF SetValue
    <3> QED
      BY <2>1, <2>7, <3>1 DEF SetValue, TypeOK, HaltSteps, PC, tables,
                              links, local, ghosts
  <2>8. CASE Jump
    <3> DEFINE w == prev_ESP[halt_pid[run]]
    <3>1. run \in Pid /\ halt_pid[run] \in Pid
      BY <2>8, SizeAssumption, SMT
         DEF Jump, Running, HaltPidOK, HaltSteps, TypeOK, NONE
    <3>2. w \in Pid \cup {NONE}
      BY <3>1 DEF TypeOK
    <3>3. /\ pc' \in [Pid -> PC]
          /\ halt_pid' \in [Pid -> Pid \cup {NONE}]
          /\ pid_temp' \in [Pid -> Pid \cup {NONE}]
          /\ status' \in [Pid -> Status \cup {0}]
          /\ run' \in Pid \cup {NONE}
          /\ crashed' \in BOOLEAN
      <4>1. CASE w # NONE /\ w \notin lost /\ pc[w] = "waiting"
        <5>1. /\ pc' = [pc EXCEPT ![run] = "none", ![w] = "finish"]
              /\ halt_pid' = [halt_pid EXCEPT ![run] = NONE]
              /\ pid_temp' = [pid_temp EXCEPT ![run] = NONE]
              /\ status' = [status EXCEPT ![run] = 0]
              /\ run' = w
              /\ UNCHANGED crashed
          BY <2>8, <4>1 DEF Jump
        <5> QED
          BY <5>1, <4>1, <3>1, <3>2 DEF TypeOK, PC
      <4>2. CASE ~(w # NONE /\ w \notin lost /\ pc[w] = "waiting")
        BY <2>8, <4>2 DEF Jump, TypeOK, local
      <4> QED
        BY <4>1, <4>2
    <3> QED
      BY <2>8, <3>3 DEF Jump, TypeOK, tables, links, ghosts
  <2>9. CASE Finish
    <3>1. run \in Pid /\ esp0 \in Pid /\ ToUser(run, esp0)
      BY <2>9 DEF Finish, Running, TypeOK
    <3>2. pc' \in [Pid -> PC]
      BY <2>9 DEF Finish, TypeOK, PC
    <3> QED
      BY <2>9, <3>1, <3>2, ToUserType
         DEF Finish, TypeOK, tables, links, local, ghosts
  <2> QED
    BY <1>5, <2>2, <2>3, <2>4, <2>5, <2>6, <2>7, <2>8, <2>9 DEF HaltMove
<1>6. CASE Fault
  <2>1. pc' \in [Pid -> PC]
    BY <1>6 DEF Fault, TypeOK, PC
  <2> QED
    BY <1>6, <2>1 DEF Fault, TypeOK, tables, links, local, ghosts
<1>7. ASSUME NEW t \in Terminal, SwitchTerminal(t)
      PROVE  TypeOK'
  BY <1>7 DEF SwitchTerminal, TypeOK, tables, links, local, ghosts
<1>8. CASE UNCHANGED vars
  BY <1>8 DEF TypeOK, vars, tables, links, local, ghosts
<1>9. CASE ExecuteDamaged
  <2>1. PICK p \in Pid : /\ parentid' = [parentid EXCEPT ![p] = Parent(p)]
                         /\ page_map' = p
    BY <1>9 DEF ExecuteDamaged
  <2>2. Parent(p) \in Pid \cup {NONE}
    BY DEF TypeOK, Parent
  <2>3. parentid' \in [Pid -> Pid \cup {NONE}]
    BY <2>1, <2>2 DEF TypeOK
  <2>4. derailed' \in SUBSET Hazard
    BY <1>9 DEF ExecuteDamaged, TypeOK, Hazard
  <2> QED
    BY <1>9, <2>1, <2>3, <2>4
       DEF ExecuteDamaged, TypeOK, tables, local, ghosts
<1> QED
  BY <1>1, <1>2, <1>3, <1>4, <1>5, <1>6, <1>7, <1>8, <1>9 DEF Next, Hung

(* create_pcb names a parent that has one itself.                          *)
LEMMA CreatePcbParents ==
  ASSUME BaseInv, NEW p \in Pid, LowestFree(p),
         parentid' = [parentid EXCEPT ![p] = Parent(p)]
  PROVE  /\ Place(p) \in Terminal
         /\ parentid'[p] # NONE
         /\ \A q \in Pid : Named(q) => Named(q)'
         /\ \A q \in Pid : Named(q)' => parentid'[parentid'[q]] # NONE
<1> DEFINE par == Parent(p)
           at  == Place(p)
<1>2. par \in Pid /\ at \in Terminal /\ (par # p => Named(par))
  <2>1. CASE p < NTerm
    BY <2>1, SizeAssumption, SMT DEF Pid, Terminal, Parent, Place
  <2>2. CASE ~(p < NTerm)
    <3>a. p >= NTerm
      BY <2>2, SizeAssumption, SMT DEF Pid
    <3>1. pid_arr[cur_terminal] \in Pid
      BY <3>a, AllLaunched DEF BaseInv, TypeOK
    <3>2. Named(pid_arr[cur_terminal]) /\ cur_terminal \in Terminal
      BY <3>1, TerminalInPid DEF BaseInv, TypeOK, ParentsOK
    <3> QED
      BY <2>2, <3>1, <3>2 DEF Parent, Place
  <2> QED
    BY <2>1, <2>2
<1>3. /\ parentid \in [Pid -> Pid \cup {NONE}]
      /\ \A q \in Pid : Named(q) => Named(parentid[q])
  BY DEF BaseInv, TypeOK, ParentsOK
<1>4. par # NONE
  BY <1>2, TerminalInPid
<1>5. parentid' = [parentid EXCEPT ![p] = par]
  OBVIOUS
<1> HIDE DEF par, at
<1>6. \A q \in Pid : Named(q) => Named(q)'
  BY <1>3, <1>4, <1>5 DEF Named
<1>8. \A q \in Pid : Named(q)' => parentid'[parentid'[q]] # NONE
  <2> SUFFICES ASSUME NEW q \in Pid, parentid'[q] # NONE
               PROVE  parentid'[parentid'[q]] # NONE
    BY DEF Named
  <2>1. CASE q = p
    BY <2>1, <1>2, <1>3, <1>4, <1>5 DEF Named
  <2>2. CASE q # p
    <3>1. parentid'[q] = parentid[q] /\ parentid[q] \in Pid
      BY <2>2, <1>3, <1>5
    <3>2. parentid[parentid[q]] # NONE
      BY <3>1, <1>3, TerminalInPid DEF Named
    <3> QED
      BY <3>1, <3>2, <1>3, <1>4, <1>5
  <2> QED
    BY <2>1, <2>2
<1>9. parentid'[p] # NONE
  BY <1>3, <1>4, <1>5
<1> QED
  BY <1>2, <1>6, <1>8, <1>9 DEF at

(* What execute does to the parents and to the tables that point at them. *)
LEMMA LoadProgramParents ==
  ASSUME BaseInv, NEW p \in Pid, LowestFree(p), NEW prog, NEW slice,
         LoadProgram(p, prog, slice)
  PROVE  /\ EmptyTerminalHasPid'
         /\ \A q \in Pid : Named(q) => Named(q)'
         /\ \A q \in Pid : ~Free(q)' => Named(q)'
         /\ \A q \in Pid : Named(q)' => parentid'[parentid'[q]] # NONE
         /\ \A t \in Terminal : pid_arr'[t] # NONE => parentid'[pid_arr'[t]] # NONE
<1> DEFINE at  == Place(p)
<1>1. /\ parentid' = [parentid EXCEPT ![p] = Parent(p)]
      /\ pid_mask' = [pid_mask EXCEPT ![p] = TRUE]
      /\ pid_arr' = [pid_arr EXCEPT ![at] = p]
  BY DEF LoadProgram
<1>2. /\ at \in Terminal
      /\ parentid'[p] # NONE
      /\ \A q \in Pid : Named(q) => Named(q)'
      /\ \A q \in Pid : Named(q)' => parentid'[parentid'[q]] # NONE
  BY <1>1, CreatePcbParents
<1>3. /\ pid_mask \in [Pid -> BOOLEAN]
      /\ pid_arr \in [Terminal -> Pid \cup {NONE}]
      /\ \A q \in Pid : ~Free(q) => Named(q)
      /\ \A t \in Terminal : pid_arr[t] # NONE => Named(pid_arr[t])
      /\ EmptyTerminalHasPid
  BY DEF BaseInv, TypeOK, ParentsOK
<1>4. p # NONE
  BY TerminalInPid
<1>5. EmptyTerminalHasPid'
  <2> SUFFICES ASSUME NEW t \in Terminal, pid_arr'[t] = NONE
               PROVE  ~pid_mask'[t]
    BY DEF EmptyTerminalHasPid, Free
  <2>1. pid_arr[t] = NONE /\ t # at
    BY <1>1, <1>2, <1>3, <1>4
  <2>2. t # p
    BY <2>1, SizeAssumption, SMT DEF Terminal, Place
  <2>3. ~pid_mask[t] /\ t \in Pid
    BY <2>1, <1>3, TerminalInPid DEF EmptyTerminalHasPid, Free
  <2> QED
    BY <1>1, <1>3, <2>2, <2>3
<1>7. \A q \in Pid : ~Free(q)' => Named(q)'
  <2> SUFFICES ASSUME NEW q \in Pid, pid_mask'[q]
               PROVE  parentid'[q] # NONE
    BY DEF Free, Named
  <2>1. CASE q = p
    BY <2>1, <1>2
  <2>2. CASE q # p
    BY <2>2, <1>1, <1>2, <1>3 DEF Free, Named
  <2> QED
    BY <2>1, <2>2
<1>9. \A t \in Terminal : pid_arr'[t] # NONE => parentid'[pid_arr'[t]] # NONE
  <2> SUFFICES ASSUME NEW t \in Terminal, pid_arr'[t] # NONE
               PROVE  parentid'[pid_arr'[t]] # NONE
    OBVIOUS
  <2>1. CASE t = at
    BY <2>1, <1>1, <1>2, <1>3
  <2>2. CASE t # at
    <3>1. pid_arr'[t] = pid_arr[t] /\ pid_arr[t] \in Pid
      BY <2>2, <1>1, <1>3
    <3> QED
      BY <3>1, <1>2, <1>3, TerminalInPid DEF Named
  <2> QED
    BY <2>1, <2>2
<1> QED
  BY <1>2, <1>5, <1>7, <1>9

(* Steps that leave the parents and the tables alone keep ParentsOK and    *)
(* EmptyTerminalHasPid, provided that no thread enters halt.               *)
LEMMA ParentsKept ==
  ASSUME BaseInv, UNCHANGED <<pid_mask, pid_arr, parentid>>,
         \A p \in Pid : pc'[p] \in HaltSteps =>
           /\ pc[p] \in HaltSteps
           /\ halt_pid'[p] = halt_pid[p] /\ pid_temp'[p] = pid_temp[p]
  PROVE  HaltPidOK' /\ EmptyTerminalHasPid' /\ ParentsOK'
<1>1. HaltPidOK'
  BY DEF BaseInv, HaltPidOK
<1>2. EmptyTerminalHasPid'
  BY DEF BaseInv, EmptyTerminalHasPid, Free
<1>3. ParentsOK'
  BY DEF BaseInv, ParentsOK, Free, Named
<1> QED
  BY <1>1, <1>2, <1>3

(* No step breaks the invariant. *)
LEMMA BaseStep == BaseInv /\ [Next]_vars => BaseInv'
<1> SUFFICES ASSUME BaseInv, [Next]_vars
             PROVE  SliceOK' /\ HaltPidOK' /\ EmptyTerminalHasPid' /\ ParentsOK'
  BY TypeStep DEF BaseInv
<1>t. TypeOK /\ SliceOK /\ HaltPidOK /\ EmptyTerminalHasPid /\ ParentsOK
  BY DEF BaseInv
<1>1. CASE Tick
  <2>1. PICK i \in Terminal : /\ terminal_process_index' = i
                              /\ StartShell(i) \/ Resume(i)
    BY <1>1 DEF Tick
  <2>2. SliceOK'
    BY <2>1, TerminalInPid DEF SliceOK
  <2>3. CASE StartShell(i)
    <3>1. PICK p \in Pid : /\ LowestFree(p)
                           /\ LoadProgram(p, Shell, i)
                           /\ pc' = [pc EXCEPT ![p] = "launch"]
      BY <2>3 DEF StartShell
    <3>2. \A q \in Pid : pc'[q] \in HaltSteps =>
            /\ pc[q] \in HaltSteps
            /\ halt_pid'[q] = halt_pid[q] /\ pid_temp'[q] = pid_temp[q]
      BY <2>3, <3>1, <1>t DEF StartShell, local, HaltSteps, TypeOK
    <3>3. HaltPidOK'
      BY <3>2, <1>t DEF HaltPidOK
    <3>4. ParentsOK'
      <4>1. \A q \in Pid : pc'[q] \in HaltSteps =>
             pid_temp'[q] # NONE /\ parentid'[pid_temp'[q]] # NONE
        <5> SUFFICES ASSUME NEW q \in Pid, pc'[q] \in HaltSteps
                     PROVE  pid_temp'[q] # NONE /\ parentid'[pid_temp'[q]] # NONE
          OBVIOUS
        <5>1. /\ pid_temp'[q] = pid_temp[q]
             /\ pid_temp[q] # NONE /\ Named(pid_temp[q])
          BY <3>2, <1>t DEF ParentsOK
        <5>2. pid_temp[q] \in Pid
          BY <5>1, <1>t DEF TypeOK
        <5> QED
          BY <5>1, <5>2, <3>1, LoadProgramParents DEF Named
      <4> QED
        BY <4>1, <3>1, LoadProgramParents DEF ParentsOK, Named
    <3> QED
      BY <2>2, <3>1, <3>3, <3>4, LoadProgramParents
  <2>4. CASE Resume(i)
    BY <2>2, <2>4, ParentsKept DEF Resume, tables, links, local
  <2> QED
    BY <2>1, <2>3, <2>4
<1>2. ASSUME NEW prog \in Program, Execute(prog)
      PROVE  SliceOK' /\ HaltPidOK' /\ EmptyTerminalHasPid' /\ ParentsOK'
  <2>1. PICK p \in Pid : /\ LowestFree(p)
                         /\ LoadProgram(p, prog, terminal_process_index)
                         /\ pc' = [pc EXCEPT ![run] = "waiting", ![p] = "launch"]
    BY <1>2 DEF Execute
  <2>2. SliceOK'
    BY <1>2, <1>t DEF Execute, Running, SliceOK
  <2>3. \A q \in Pid : pc'[q] \in HaltSteps =>
          /\ pc[q] \in HaltSteps
          /\ halt_pid'[q] = halt_pid[q] /\ pid_temp'[q] = pid_temp[q]
    BY <1>2, <2>1, <1>t DEF Execute, local, HaltSteps, TypeOK
  <2>4. HaltPidOK'
    BY <2>3, <1>t DEF HaltPidOK
  <2>5. ParentsOK'
    <3>1. \A q \in Pid : pc'[q] \in HaltSteps =>
           pid_temp'[q] # NONE /\ parentid'[pid_temp'[q]] # NONE
      <4> SUFFICES ASSUME NEW q \in Pid, pc'[q] \in HaltSteps
                   PROVE  pid_temp'[q] # NONE /\ parentid'[pid_temp'[q]] # NONE
        OBVIOUS
      <4>1. /\ pid_temp'[q] = pid_temp[q]
           /\ pid_temp[q] # NONE /\ Named(pid_temp[q])
        BY <2>3, <1>t DEF ParentsOK
      <4>2. pid_temp[q] \in Pid
        BY <4>1, <1>t DEF TypeOK
      <4> QED
        BY <4>1, <4>2, <2>1, LoadProgramParents DEF Named
    <3> QED
      BY <3>1, <2>1, LoadProgramParents DEF ParentsOK, Named
  <2> QED
    BY <2>1, <2>2, <2>4, <2>5, LoadProgramParents
<1>3. CASE Launch
  BY <1>3, <1>t, ParentsKept
     DEF Launch, tables, links, local, SliceOK, HaltSteps, TypeOK
<1>4. ASSUME NEW st \in Status, Halt(st)
      PROVE  SliceOK' /\ HaltPidOK' /\ EmptyTerminalHasPid' /\ ParentsOK'
  <2> DEFINE h == pid_arr[terminal_process_index]
  <2>1. /\ run \in Pid /\ terminal_process_index \in Terminal
        /\ h \in Pid /\ h >= NTerm
        /\ halt_pid' = [halt_pid EXCEPT ![run] = h]
        /\ pid_temp' = [pid_temp EXCEPT ![run] = parentid[h]]
        /\ pc' = [pc EXCEPT ![run] = "restore_paging"]
        /\ UNCHANGED <<tables, links, terminal_process_index, run>>
    BY <1>4, <1>t, SizeAssumption, SMT DEF Halt, Running, SliceOK, TypeOK, NONE
  <2>2. parentid[h] # NONE /\ Named(parentid[h])
    BY <2>1, <1>t, TerminalInPid DEF ParentsOK, Named
  <2>3. SliceOK' /\ EmptyTerminalHasPid'
    BY <2>1, <1>t DEF SliceOK, EmptyTerminalHasPid, Free, tables
  <2>4. HaltPidOK'
    BY <2>1, <1>t DEF HaltPidOK, TypeOK
  <2>5. ParentsOK'
    BY <2>1, <2>2, <1>t DEF ParentsOK, Named, Free, tables, links, TypeOK
  <2> QED
    BY <2>3, <2>4, <2>5
<1>5. CASE HaltMove
  <2>1. ASSUME NEW at \in HaltSteps, NEW next \in PC, HaltStep(at, next)
        PROVE  /\ SliceOK'
               /\ \A q \in Pid : pc'[q] \in HaltSteps =>
                    /\ pc[q] \in HaltSteps
                    /\ halt_pid'[q] = halt_pid[q]
                    /\ pid_temp'[q] = pid_temp[q]
               /\ run \in Pid /\ pc[run] = at
               /\ UNCHANGED <<parentid, halt_pid, pid_temp>>
    BY <2>1, <1>t DEF HaltStep, Running, TypeOK, local, links, SliceOK
  <2>2. CASE RestorePaging \/ ClearShell \/ RestoreTss \/ SetValue
    <3>1. PICK at \in HaltSteps, next \in PC : HaltStep(at, next)
      BY <2>2 DEF RestorePaging, ClearShell, RestoreTss, SetValue,
                  HaltSteps, PC
    <3>2. UNCHANGED <<pid_mask, pid_arr>>
      BY <2>2 DEF RestorePaging, ClearShell, RestoreTss, SetValue, tables
    <3> QED
      BY <2>1, <3>1, <3>2, ParentsKept
  <2>3. CASE FreePid
    <3>1. HaltStep("free_pid", "pop_pid")
      BY <2>3 DEF FreePid
    <3>2. /\ SliceOK'
          /\ \A q \in Pid : pc'[q] \in HaltSteps =>
               /\ pc[q] \in HaltSteps
               /\ halt_pid'[q] = halt_pid[q] /\ pid_temp'[q] = pid_temp[q]
          /\ UNCHANGED <<parentid, halt_pid, pid_temp>>
      BY <2>1, <3>1 DEF HaltSteps, PC
    <3>3. /\ \A q \in Pid : Free(q) => Free(q)'
          /\ UNCHANGED pid_arr
      BY <2>3, <1>t DEF FreePid, Free, TypeOK
    <3>4. EmptyTerminalHasPid'
      BY <3>3, <1>t, TerminalInPid DEF EmptyTerminalHasPid
    <3>5. HaltPidOK'
      BY <3>2, <1>t DEF HaltPidOK
    <3>6. ParentsOK'
      BY <3>2, <3>3, <1>t DEF ParentsOK, Named
    <3> QED
      BY <3>2, <3>4, <3>5, <3>6
  <2>4. CASE PopPid
    <3> DEFINE up == pid_temp[run]
    <3>1. HaltStep("pop_pid", "set_value")
      BY <2>4 DEF PopPid
    <3>2. /\ SliceOK'
          /\ \A q \in Pid : pc'[q] \in HaltSteps =>
               /\ pc[q] \in HaltSteps
               /\ halt_pid'[q] = halt_pid[q] /\ pid_temp'[q] = pid_temp[q]
          /\ UNCHANGED <<parentid, halt_pid, pid_temp>>
          /\ run \in Pid /\ pc[run] \in HaltSteps
      BY <2>1, <3>1 DEF HaltSteps, PC
    <3>3. up # NONE /\ parentid[up] # NONE
      BY <3>2, <1>t DEF ParentsOK, Named
    <3>4. /\ pid_arr' = [pid_arr EXCEPT ![terminal_process_index] = up]
          /\ UNCHANGED pid_mask
      BY <2>4 DEF PopPid
    <3>5. EmptyTerminalHasPid'
      BY <3>3, <3>4, <1>t DEF EmptyTerminalHasPid, Free, TypeOK
    <3>6. HaltPidOK'
      BY <3>2, <1>t DEF HaltPidOK
    <3>7. ParentsOK'
      BY <3>2, <3>3, <3>4, <1>t DEF ParentsOK, Named, Free, TypeOK
    <3> QED
      BY <3>2, <3>5, <3>6, <3>7
  <2>5. CASE Jump
    <3>1. /\ UNCHANGED <<pid_mask, pid_arr, parentid,
                         terminal_process_index>>
          /\ run # NONE
      BY <2>5 DEF Jump, Running, tables, links
    <3>2. \A q \in Pid : pc'[q] \in HaltSteps =>
            /\ pc[q] \in HaltSteps
            /\ halt_pid'[q] = halt_pid[q] /\ pid_temp'[q] = pid_temp[q]
      BY <2>5, <1>t DEF Jump, Running, TypeOK, HaltSteps, local
    <3> QED
      BY <3>1, <3>2, <1>t, ParentsKept DEF SliceOK
  <2>6. CASE Finish
    BY <2>6, <1>t, ParentsKept
       DEF Finish, tables, links, local, SliceOK, HaltSteps, TypeOK
  <2> QED
    BY <1>5, <2>2, <2>3, <2>4, <2>5, <2>6 DEF HaltMove
<1>6. CASE Fault
  BY <1>6, <1>t, ParentsKept
     DEF Fault, tables, links, local, SliceOK, HaltSteps, TypeOK
<1>7. ASSUME NEW t \in Terminal, SwitchTerminal(t)
      PROVE  SliceOK' /\ HaltPidOK' /\ EmptyTerminalHasPid' /\ ParentsOK'
  BY <1>7, <1>t, ParentsKept DEF SwitchTerminal, tables, links, local, SliceOK
<1>8. CASE UNCHANGED vars
  BY <1>8, <1>t, ParentsKept DEF vars, tables, links, local, SliceOK
<1>9. CASE ExecuteDamaged
  <2>1. PICK p \in Pid : /\ LowestFree(p)
                         /\ parentid' = [parentid EXCEPT ![p] = Parent(p)]
    BY <1>9 DEF ExecuteDamaged
  <2>2. UNCHANGED <<pid_mask, pid_arr, run, terminal_process_index, pc,
                    halt_pid, pid_temp>>
    BY <1>9 DEF ExecuteDamaged, tables, local
  <2>3. SliceOK' /\ HaltPidOK' /\ EmptyTerminalHasPid'
    BY <2>2, <1>t DEF SliceOK, HaltPidOK, EmptyTerminalHasPid, Free
  <2>4. /\ \A q \in Pid : Named(q) => Named(q)'
        /\ \A q \in Pid : Named(q)' => parentid'[parentid'[q]] # NONE
    BY <2>1, CreatePcbParents
  <2>5. ParentsOK'
    <3>1. /\ pid_temp \in [Pid -> Pid \cup {NONE}]
          /\ pid_arr \in [Terminal -> Pid \cup {NONE}]
      BY <1>t DEF TypeOK
    <3>2. \A q \in Pid : parentid[q] # NONE => parentid'[q] # NONE
      BY <2>4 DEF Named
    <3> QED
      BY <2>2, <2>4, <3>1, <3>2, <1>t DEF ParentsOK, Named, Free
  <2> QED
    BY <2>3, <2>5
<1> QED
  BY <1>1, <1>2, <1>3, <1>4, <1>5, <1>6, <1>7, <1>8, <1>9 DEF Next, Hung

(* Every run satisfies the invariant. *)
THEOREM BaseInvariant == Spec => []BaseInv
<1> QED
  BY BaseInit, BaseStep, PTL DEF Spec

(* Every variable of the kernel keeps its type, whatever the timer and the *)
(* keyboard interrupt.                                                     *)
THEOREM TypeCorrect == Spec => []TypeOK
<1>1. BaseInv => TypeOK
  BY DEF BaseInv
<1> QED
  BY <1>1, BaseInvariant, PTL

(* While a terminal has no shell its base pid is free: execute never       *)
(* fails when the scheduler calls it.                                      *)
THEOREM TerminalsStart == Spec => []EmptyTerminalHasPid
<1>1. BaseInv => EmptyTerminalHasPid
  BY DEF BaseInv
<1> QED
  BY <1>1, BaseInvariant, PTL

(* A live process always has a parent to map: the failure branch at the    *)
(* head of halt is never taken.                                            *)
THEOREM ParentAlwaysNamed == Spec => []ParentNamed
<1>1. BaseInv => ParentNamed
  BY DEF BaseInv, ParentNamed, ParentsOK, Named, TypeOK
<1> QED
  BY <1>1, BaseInvariant, PTL

(* The pid of a base shell is never given back. *)
THEOREM BaseShellsNeverFreed == Spec => BaseShellsStay
<1>1. BaseInv /\ [Next]_vars =>
        [\A p \in Pid : p < NTerm /\ ~Free(p) => ~Free(p)']_vars
  <2> SUFFICES ASSUME BaseInv, [Next]_vars, NEW p \in Pid, p < NTerm, ~Free(p)
               PROVE  ~Free(p)'
    OBVIOUS
  <2>1. pid_mask \in [Pid -> BOOLEAN] /\ NTerm \in Int
    BY SizeAssumption DEF BaseInv, TypeOK
  <2>2. CASE FreePid
    <3>1. halt_pid[run] # p
      <4>1. run \in Pid /\ pc[run] \in HaltSteps
        BY <2>2 DEF FreePid, HaltStep, Running, BaseInv, TypeOK, HaltSteps
      <4>2. halt_pid[run] >= NTerm
        BY <4>1 DEF BaseInv, HaltPidOK
      <4> QED
        BY <4>2, <2>1, SMT DEF Pid
    <3> QED
      BY <2>1, <2>2, <3>1 DEF FreePid, Free
  <2>3. CASE UNCHANGED pid_mask
    BY <2>3 DEF Free
  <2>4. CASE \E q \in Pid : pid_mask' = [pid_mask EXCEPT ![q] = TRUE]
    BY <2>1, <2>4 DEF Free
  <2>5. CASE Tick
    BY <2>3, <2>4, <2>5 DEF Tick, StartShell, Resume, LoadProgram, tables
  <2>6. CASE \E prog \in Program : Execute(prog)
    BY <2>4, <2>6 DEF Execute, LoadProgram
  <2>7. CASE Launch \/ Fault \/ ExecuteDamaged \/ (\E st \in Status : Halt(st))
             \/ (\E t \in Terminal : SwitchTerminal(t)) \/ Hung
             \/ UNCHANGED vars
    BY <2>3, <2>7 DEF Launch, Fault, ExecuteDamaged, Halt, SwitchTerminal, Hung, vars, tables
  <2>8. CASE HaltMove
    BY <2>2, <2>3, <2>8 DEF HaltMove, RestorePaging, ClearShell, RestoreTss,
                            PopPid, SetValue, Jump, Finish, tables
  <2> QED
    BY <2>5, <2>6, <2>7, <2>8 DEF Next
<1> QED
  BY <1>1, BaseInvariant, PTL DEF Spec, BaseShellsStay

-----------------------------------------------------------------------------
(* The inductive invariant of the runs without a hazard.                   *)

Popped == {"set_value", "jump"}
Freed == Popped \cup {"pop_pid"}
Unshelled == Freed \cup {"restore_tss", "free_pid"}

(* The terminals start in the order of their numbers, each with the pid    *)
(* of its number, and all of them before a shell executes anything.        *)
BootOK ==
  /\ ~crashed
  /\ run = NONE => \A t \in Terminal : pid_arr[t] = NONE
  /\ terminal_process_index # NONE =>
       run # NONE /\ pid_arr[terminal_process_index] # NONE
  /\ \A t \in Terminal : pid_arr[t] = NONE <=> Free(t)
  /\ \A s, t \in Terminal : s < t /\ pid_arr[t] # NONE => pid_arr[s] # NONE
  /\ \A p \in Pid : Live(p) /\ p >= NTerm => \A t \in Terminal : pid_arr[t] # NONE

(* The running thread owns the mapped image and the stack in the TSS, up   *)
(* to the store of halt that gives them to its parent.                     *)
RunnerOK ==
  run # NONE =>
    /\ Live(run) /\ pc[run] # "waiting"
    /\ home[run] = terminal_process_index
    /\ pid_arr[terminal_process_index] =
         IF pc[run] \in Popped THEN parentid[run] ELSE run
    /\ page_map = IF pc[run] \in HaltSteps \ {"restore_paging"}
                    THEN parentid[run] ELSE run
    /\ esp0 = IF pc[run] \in Freed \cup {"free_pid"} THEN parentid[run] ELSE run
    /\ pc[run] \in HaltSteps =>
         run >= NTerm /\ halt_pid[run] = run /\ pid_temp[run] = parentid[run]
    /\ pc[run] = "jump" => halt_value = status[run]

(* Any other thread waits for its child, or is on top of its terminal with *)
(* its registers saved in its own PCB.                                     *)
Suspended(p) ==
  /\ pc[p] \in {"user", "spin", "launch"}
  /\ pc[p] = "launch" => p >= NTerm
  /\ pid_arr[home[p]] = p
  /\ program_ESP[p] = p

OthersOK == \A p \in Pid : Live(p) /\ p # run => pc[p] = "waiting" \/ Suspended(p)

TopOK ==
  \A t \in Terminal : pid_arr[t] # NONE =>
    /\ Live(pid_arr[t])
    /\ home[pid_arr[t]] = t
    /\ t # terminal_process_index => pc[pid_arr[t]] # "waiting"

(* Every process that a shell executed has its own waiting caller.         *)
CallerOK ==
  /\ \A p \in Pid : Live(p) /\ p < NTerm => home[p] = p /\ program[p] = Shell
  /\ \A p \in Pid : Live(p) /\ p >= NTerm =>
       /\ parentid[p] \in Pid
       /\ pc[parentid[p]] = "waiting"
       /\ program[parentid[p]] = Shell
       /\ prev_ESP[p] = parentid[p]
       /\ TSS_prev_esp0[p] = parentid[p]
       /\ home[p] = home[parentid[p]]
  /\ \A p, q \in Pid :
       Live(p) /\ Live(q) /\ p >= NTerm /\ q >= NTerm /\ parentid[p] = parentid[q]
         => p = q

(* A thread has its own kernel stack; one that has not launched its        *)
(* program yet is still on its caller's.                                   *)
StacksOK ==
  \A p \in Pid : Live(p) =>
    /\ p \notin lost
    /\ pc[p] # "launch" => stack[p] = p
    /\ pc[p] = "launch" /\ p >= NTerm => stack[p] = parentid[p]

SlotsOK ==
  \A p \in Pid : Free(p) <=> ~Live(p) \/ (p = run /\ pc[p] \in Freed)

MasksOK ==
  /\ \A t \in Terminal :
       typing_mask[t] <=> (pid_arr[t] = NONE \/ program[pid_arr[t]] \notin Quiet)
  /\ \A p \in Pid :
       shell_mask[p] <=> /\ ~Free(p)
                         /\ ~(p = run /\ pc[p] \in Unshelled)
                         /\ program[p] = Shell

Orderly == /\ BootOK /\ RunnerOK /\ OthersOK /\ TopOK
           /\ CallerOK /\ StacksOK /\ SlotsOK /\ MasksOK

CleanInv == Clean => Orderly

LEMMA OrderlyInit == Init => Orderly
<1> SUFFICES ASSUME Init
             PROVE  Orderly
  OBVIOUS
<1>1. BootOK
  BY TerminalInPid, SMT DEF Init, BootOK, Free, Live
<1>2. RunnerOK /\ OthersOK /\ CallerOK /\ StacksOK
  BY DEF Init, RunnerOK, OthersOK, CallerOK, StacksOK, Live
<1>3. TopOK
  BY DEF Init, TopOK
<1>4. SlotsOK
  BY DEF Init, SlotsOK, Live, Free
<1>5. MasksOK
  BY DEF Init, MasksOK, Free
<1> QED
  BY <1>1, <1>2, <1>3, <1>4, <1>5 DEF Orderly

(* Hazards are remembered.                                                 *)
LEMMA CleanKept == [Next]_vars /\ Clean' => Clean
<1> SUFFICES ASSUME [Next]_vars, Clean'
             PROVE  Clean
  OBVIOUS
<1>1. derailed \subseteq derailed'
  BY DEF Next, Tick, Execute, ExecuteDamaged, Launch, Halt, HaltMove, RestorePaging, ClearShell,
         RestoreTss, FreePid, PopPid, SetValue, HaltStep, Jump, Finish, Fault,
         SwitchTerminal, Hung, vars
<1> QED
  BY <1>1 DEF Clean

(* Nobody else is on the stack of a thread that goes back to user mode.    *)
LEMMA OwnStack ==
  ASSUME CallerOK, StacksOK, NEW q \in Pid, pc[q] # "waiting",
         \A x \in Pid \ {q} : pc[x] = "launch" => x >= NTerm
  PROVE  \A x \in Pid \ {q} : Live(x) => stack[x] # q
BY DEF CallerOK, StacksOK, Live

LEMMA SwitchOrderly ==
  ASSUME Orderly, NEW t \in Terminal, SwitchTerminal(t)
  PROVE  Orderly'
<1> USE DEF SwitchTerminal, tables, links, local, ghosts
<1>1. BootOK' /\ RunnerOK' /\ OthersOK' /\ TopOK'
  BY DEF Orderly, BootOK, RunnerOK, OthersOK, TopOK, Suspended, Live, Free
<1>2. CallerOK' /\ StacksOK' /\ SlotsOK' /\ MasksOK'
  BY DEF Orderly, CallerOK, StacksOK, SlotsOK, MasksOK, Live, Free
<1> QED
  BY <1>1, <1>2 DEF Orderly

LEMMA StutterOrderly ==
  ASSUME Orderly, UNCHANGED vars
  PROVE  Orderly'
<1> USE DEF vars, tables, links, local, ghosts
<1>1. BootOK' /\ RunnerOK' /\ OthersOK' /\ TopOK'
  BY DEF Orderly, BootOK, RunnerOK, OthersOK, TopOK, Suspended, Live, Free
<1>2. CallerOK' /\ StacksOK' /\ SlotsOK' /\ MasksOK'
  BY DEF Orderly, CallerOK, StacksOK, SlotsOK, MasksOK, Live, Free
<1> QED
  BY <1>1, <1>2 DEF Orderly

(* What is known of the thread on the processor.                           *)
LEMMA RunnerTypes ==
  ASSUME BaseInv, run # NONE
  PROVE  /\ run \in Pid
         /\ terminal_process_index \in Terminal
         /\ pc \in [Pid -> PC]
         /\ NTerm \in Nat
BY SizeAssumption DEF BaseInv, TypeOK, SliceOK

LEMMA FaultOrderly ==
  ASSUME BaseInv, Orderly, Fault
  PROVE  Orderly'
<1> USE DEF Fault, tables, links, local, ghosts
<1>1. /\ run \in Pid /\ pc[run] = "user"
      /\ pc' = [pc EXCEPT ![run] = "spin"]
      /\ pc \in [Pid -> PC]
  BY RunnerTypes DEF Running
<1>2. BootOK' /\ RunnerOK' /\ OthersOK'
  BY <1>1 DEF Orderly, BootOK, RunnerOK, OthersOK, Suspended, Live, Free,
              Popped, Freed, HaltSteps
<1>3. TopOK' /\ CallerOK'
  BY <1>1 DEF Orderly, TopOK, CallerOK, Live, Free
<1>4. StacksOK' /\ SlotsOK' /\ MasksOK'
  BY <1>1 DEF Orderly, StacksOK, SlotsOK, MasksOK, Live, Free, Popped, Freed,
              Unshelled
<1> QED
  BY <1>2, <1>3, <1>4 DEF Orderly

(* A thread that is done with execute goes on in user mode, on a kernel    *)
(* stack of its own.                                                       *)
LEMMA BackInUserOrderly ==
  ASSUME BaseInv, Orderly, Launch \/ Finish
  PROVE  Orderly'
<1> USE DEF Launch, Finish, tables, links, local, ghosts
<1>1. /\ run \in Pid /\ pc[run] \in {"launch", "finish"}
      /\ pc' = [pc EXCEPT ![run] = "user"]
      /\ pc \in [Pid -> PC]
  BY RunnerTypes DEF Running
<1>2. esp0 = run
  BY <1>1 DEF Orderly, RunnerOK, Freed, Popped, Running
<1>3. \A x \in Pid \ {run} : Live(x) => stack[x] # run
  <2>1. \A x \in Pid \ {run} : pc[x] = "launch" => x >= NTerm
    BY DEF Orderly, OthersOK, Suspended, Live
  <2> QED
    BY <1>1, <2>1, OwnStack DEF Orderly
<1>4. stack' = [stack EXCEPT ![run] = run] /\ UNCHANGED lost
  BY <1>2, <1>3 DEF ToUser, Live
<1>5. stack \in [Pid -> Pid]
  BY DEF BaseInv, TypeOK
<1>6. BootOK' /\ RunnerOK' /\ OthersOK'
  BY <1>1 DEF Orderly, BootOK, RunnerOK, OthersOK, Suspended, Live, Free,
              Popped, Freed, HaltSteps
<1>7. TopOK' /\ CallerOK'
  BY <1>1 DEF Orderly, TopOK, CallerOK, Live, Free
<1>8. StacksOK'
  BY <1>1, <1>4, <1>5 DEF Orderly, StacksOK, Live
<1>9. SlotsOK' /\ MasksOK'
  BY <1>1 DEF Orderly, SlotsOK, MasksOK, Live, Free, Popped, Freed, Unshelled
<1> QED
  BY <1>6, <1>7, <1>8, <1>9 DEF Orderly

(* halt takes the process filed under the running terminal for its caller. *)
LEMMA HaltOrderly ==
  ASSUME BaseInv, Orderly, NEW st, Halt(st)
  PROVE  Orderly'
<1> USE DEF Halt, tables, links, local, ghosts
<1>1. /\ run \in Pid /\ pc[run] = "user"
      /\ pc' = [pc EXCEPT ![run] = "restore_paging"]
      /\ pc \in [Pid -> PC]
  BY RunnerTypes DEF Running
<1>2. pid_arr[terminal_process_index] = run /\ run >= NTerm
  BY <1>1 DEF Orderly, RunnerOK, Popped, Running
<1>3. halt_pid'[run] = run /\ pid_temp'[run] = parentid[run]
  BY <1>1, <1>2 DEF BaseInv, TypeOK
<1>4. BootOK' /\ OthersOK' /\ TopOK' /\ CallerOK'
  BY <1>1 DEF Orderly, BootOK, OthersOK, Suspended, TopOK, CallerOK, Live, Free
<1>5. RunnerOK'
  BY <1>1, <1>2, <1>3 DEF Orderly, RunnerOK, Popped, Freed, HaltSteps, Live
<1>6. StacksOK' /\ SlotsOK' /\ MasksOK'
  BY <1>1 DEF Orderly, StacksOK, SlotsOK, MasksOK, Live, Free, Popped, Freed,
              Unshelled
<1> QED
  BY <1>4, <1>5, <1>6 DEF Orderly

(* The steps of halt that store nothing but their own variable.            *)
LEMMA HaltStepFacts ==
  ASSUME BaseInv, Orderly, NEW at \in HaltSteps, NEW next, HaltStep(at, next)
  PROVE  /\ run \in Pid /\ pc[run] = at
         /\ pc' = [pc EXCEPT ![run] = next]
         /\ pc \in [Pid -> PC]
         /\ terminal_process_index \in Terminal
         /\ run >= NTerm
         /\ halt_pid[run] = run /\ pid_temp[run] = parentid[run]
         /\ parentid[run] \in Pid \ {run}
         /\ pc[parentid[run]] = "waiting"
         /\ UNCHANGED <<cur_terminal, terminal_process_index, links,
                        program_ESP, run, stack, local, ghosts, lost,
                        derailed, crashed>>
<1>1. /\ run # NONE /\ pc[run] = at
      /\ pc' = [pc EXCEPT ![run] = next]
      /\ UNCHANGED <<cur_terminal, terminal_process_index, links,
                     program_ESP, run, stack, local, ghosts, lost,
                     derailed, crashed>>
  BY DEF HaltStep, Running
<1>2. /\ run >= NTerm /\ Live(run)
      /\ halt_pid[run] = run /\ pid_temp[run] = parentid[run]
  BY <1>1 DEF Orderly, RunnerOK, HaltSteps
<1>3. run \in Pid /\ terminal_process_index \in Terminal /\ pc \in [Pid -> PC]
  BY <1>1, RunnerTypes
<1>4. parentid[run] \in Pid /\ pc[parentid[run]] = "waiting"
  BY <1>2, <1>3 DEF Orderly, CallerOK
<1>5. parentid[run] # run
  BY <1>1, <1>4 DEF HaltSteps
<1> QED
  BY <1>1, <1>2, <1>3, <1>4, <1>5

(* What a step of halt leaves in order whatever it stores, but for the     *)
(* runner, the slots, the masks and the top of the terminal.               *)
LEMMA HaltStepOrderly ==
  ASSUME BaseInv, Orderly, NEW at \in HaltSteps, NEW next \in HaltSteps,
         HaltStep(at, next)
  PROVE  /\ CallerOK' /\ StacksOK'
         /\ UNCHANGED pid_arr => OthersOK' /\ TopOK'
         /\ UNCHANGED <<pid_arr, pid_mask>> => BootOK'
<1>a. /\ run \in Pid /\ pc[run] = at
      /\ pc' = [pc EXCEPT ![run] = next]
      /\ pc \in [Pid -> PC]
      /\ UNCHANGED <<terminal_process_index, links, program_ESP, run, stack,
                     ghosts, lost, crashed>>
  BY HaltStepFacts
<1> USE <1>a DEF links, ghosts, HaltSteps
<1>1. CallerOK' /\ StacksOK'
  <2>1. \A p \in Pid : /\ Live(p)' <=> Live(p)
                       /\ pc'[p] = "launch" <=> pc[p] = "launch"
                       /\ pc'[p] = "waiting" <=> pc[p] = "waiting"
    BY DEF Live
  <2>2. UNCHANGED <<links, ghosts, stack, lost>>
    OBVIOUS
  <2> QED
    BY <2>1, <2>2 DEF Orderly, CallerOK, StacksOK
<1>2. ASSUME UNCHANGED pid_arr
      PROVE  OthersOK' /\ TopOK'
  BY <1>2 DEF Orderly, OthersOK, TopOK, Suspended, Live
<1>3. ASSUME UNCHANGED <<pid_arr, pid_mask>>
      PROVE  BootOK'
  BY <1>3 DEF Orderly, BootOK, Live, Free
<1> QED
  BY <1>1, <1>2, <1>3

LEMMA RestorePagingOrderly ==
  ASSUME BaseInv, Orderly, RestorePaging
  PROVE  Orderly'
<1>1. /\ HaltStep("restore_paging", "clear_shell")
      /\ page_map' = pid_temp[run]
      /\ UNCHANGED <<tables, esp0, halt_value>>
  BY DEF RestorePaging
<1> USE HaltStepFacts DEF links, local, ghosts, tables, HaltSteps
<1>2. BootOK' /\ OthersOK' /\ TopOK' /\ CallerOK' /\ StacksOK'
  BY <1>1, HaltStepOrderly
<1>3. RunnerOK'
  BY <1>1 DEF Orderly, RunnerOK, Live, Freed, Popped
<1>4. SlotsOK' /\ MasksOK'
  BY <1>1 DEF Orderly, SlotsOK, MasksOK, Live, Free, Freed, Popped, Unshelled
<1> QED
  BY <1>2, <1>3, <1>4 DEF Orderly

LEMMA ClearShellOrderly ==
  ASSUME BaseInv, Orderly, ClearShell
  PROVE  Orderly'
<1>1. /\ HaltStep("clear_shell", "restore_tss")
      /\ shell_mask' = [shell_mask EXCEPT ![halt_pid[run]] = FALSE]
      /\ UNCHANGED <<pid_mask, typing_mask, pid_arr, page_map, esp0, halt_value>>
  BY DEF ClearShell
<1> USE HaltStepFacts DEF links, local, ghosts, HaltSteps
<1>2. BootOK' /\ OthersOK' /\ TopOK' /\ CallerOK' /\ StacksOK'
  BY <1>1, HaltStepOrderly
<1>3. RunnerOK' /\ SlotsOK'
  BY <1>1 DEF Orderly, RunnerOK, SlotsOK, Live, Free, Freed, Popped
<1>4. MasksOK'
  <2>1. shell_mask \in [Pid -> BOOLEAN]
    BY DEF BaseInv, TypeOK
  <2> QED
    BY <1>1, <2>1 DEF Orderly, MasksOK, Free, Freed, Popped, Unshelled
<1> QED
  BY <1>2, <1>3, <1>4 DEF Orderly

LEMMA RestoreTssOrderly ==
  ASSUME BaseInv, Orderly, RestoreTss
  PROVE  Orderly'
<1>1. /\ HaltStep("restore_tss", "free_pid")
      /\ esp0' = TSS_prev_esp0[halt_pid[run]]
      /\ UNCHANGED <<tables, page_map, halt_value>>
  BY DEF RestoreTss
<1> USE HaltStepFacts DEF links, local, ghosts, tables, HaltSteps
<1>2. BootOK' /\ OthersOK' /\ TopOK' /\ CallerOK' /\ StacksOK'
  BY <1>1, HaltStepOrderly
<1>3. RunnerOK'
  <2>1. TSS_prev_esp0[run] = parentid[run]
    BY <1>1 DEF Orderly, CallerOK, Live
  <2> QED
    BY <1>1, <2>1 DEF Orderly, RunnerOK, Live, Freed, Popped
<1>4. SlotsOK' /\ MasksOK'
  BY <1>1 DEF Orderly, SlotsOK, MasksOK, Live, Free, Freed, Popped, Unshelled
<1> QED
  BY <1>2, <1>3, <1>4 DEF Orderly

LEMMA FreePidOrderly ==
  ASSUME BaseInv, Orderly, FreePid
  PROVE  Orderly'
<1>1. /\ HaltStep("free_pid", "pop_pid")
      /\ pid_mask' = [pid_mask EXCEPT ![halt_pid[run]] = FALSE]
      /\ UNCHANGED <<shell_mask, typing_mask, pid_arr, page_map, esp0, halt_value>>
  BY DEF FreePid
<1>t. pid_mask \in [Pid -> BOOLEAN]
  BY DEF BaseInv, TypeOK
<1> USE HaltStepFacts DEF links, local, ghosts, HaltSteps
<1>2. OthersOK' /\ TopOK' /\ CallerOK' /\ StacksOK'
  BY <1>1, HaltStepOrderly
<1>3. BootOK'
  <2>1. run \notin Terminal
    BY <1>1, SizeAssumption, SMT DEF Terminal, Pid
  <2>2. \A t \in Terminal : Free(t)' = Free(t)
    BY <1>1, <1>t, <2>1, TerminalInPid DEF Free
  <2> QED
    BY <1>1, <2>2 DEF Orderly, BootOK, Live
<1>4. RunnerOK'
  BY <1>1 DEF Orderly, RunnerOK, Live, Freed, Popped
<1>5. SlotsOK'
  BY <1>1, <1>t DEF Orderly, SlotsOK, Live, Free, Freed, Popped
<1>6. MasksOK'
  BY <1>1, <1>t DEF Orderly, MasksOK, Live, Free, Freed, Popped, Unshelled
<1> QED
  BY <1>2, <1>3, <1>4, <1>5, <1>6 DEF Orderly

(* The caller, a shell, is on top of its terminal again before it has the  *)
(* processor.                                                              *)
LEMMA PopPidOrderly ==
  ASSUME BaseInv, Orderly, PopPid
  PROVE  Orderly'
<1>1. /\ HaltStep("pop_pid", "set_value")
      /\ typing_mask' = [typing_mask EXCEPT ![terminal_process_index] = TRUE]
      /\ pid_arr' = [pid_arr EXCEPT ![terminal_process_index] = pid_temp[run]]
      /\ UNCHANGED <<pid_mask, shell_mask, page_map, esp0, halt_value>>
  BY DEF PopPid
<1>t. /\ typing_mask \in [Terminal -> BOOLEAN]
      /\ pid_arr \in [Terminal -> Pid \cup {NONE}]
  BY DEF BaseInv, TypeOK
<1> USE HaltStepFacts DEF links, local, ghosts, HaltSteps
<1> DEFINE w == parentid[run]
           here == terminal_process_index
<1>2. /\ w \in Pid /\ w # NONE /\ Live(w) /\ pc[w] = "waiting"
      /\ program[w] = Shell
      /\ home[w] = here
      /\ pid_arr[here] = run
  BY <1>1, TerminalInPid
     DEF Orderly, CallerOK, RunnerOK, Live, Popped
<1>3. CallerOK' /\ StacksOK'
  BY <1>1, HaltStepOrderly
<1>4. BootOK'
  BY <1>1, <1>t, <1>2 DEF Orderly, BootOK, Live, Free
<1>5. RunnerOK'
  BY <1>1, <1>t, <1>2 DEF Orderly, RunnerOK, Live, Freed, Popped
<1>6. OthersOK'
  <2>1. \A p \in Pid : Suspended(p) /\ p # run => Suspended(p)'
    BY <1>1, <1>t, <1>2 DEF Suspended
  <2> QED
    BY <1>1, <2>1 DEF Orderly, OthersOK, Live
<1>7. TopOK'
  BY <1>1, <1>t, <1>2 DEF Orderly, TopOK, Live
<1>8. SlotsOK'
  BY <1>1 DEF Orderly, SlotsOK, Live, Free, Freed, Popped
<1>9. MasksOK'
  <2>1. Shell \notin Quiet
    BY ProgramAssumption
  <2> QED
    BY <1>1, <1>t, <1>2, <2>1 DEF Orderly, MasksOK, Free, Freed, Popped, Unshelled
<1> QED
  BY <1>3, <1>4, <1>5, <1>6, <1>7, <1>8, <1>9 DEF Orderly

LEMMA SetValueOrderly ==
  ASSUME BaseInv, Orderly, SetValue
  PROVE  Orderly'
<1>1. /\ HaltStep("set_value", "jump")
      /\ halt_value' = status[run]
      /\ UNCHANGED <<tables, page_map, esp0>>
  BY DEF SetValue
<1> USE HaltStepFacts DEF links, local, ghosts, tables, HaltSteps
<1>2. BootOK' /\ OthersOK' /\ TopOK' /\ CallerOK' /\ StacksOK'
  BY <1>1, HaltStepOrderly
<1>3. RunnerOK'
  BY <1>1 DEF Orderly, RunnerOK, Live, Freed, Popped
<1>4. SlotsOK' /\ MasksOK'
  BY <1>1 DEF Orderly, SlotsOK, MasksOK, Live, Free, Freed, Popped, Unshelled
<1> QED
  BY <1>2, <1>3, <1>4 DEF Orderly

(* The jump finds the caller's frame.                                      *)
LEMMA JumpFacts ==
  ASSUME BaseInv, Orderly, Jump
  PROVE  LET w == parentid[run] IN
         /\ run \in Pid /\ pc[run] = "jump" /\ run >= NTerm
         /\ pc \in [Pid -> PC] /\ status \in [Pid -> Status \cup {0}]
         /\ w \in Pid /\ w # run /\ pc[w] = "waiting"
         /\ pc' = [pc EXCEPT ![run] = "none", ![w] = "finish"]
         /\ status' = [status EXCEPT ![run] = 0]
         /\ run' = w
         /\ UNCHANGED crashed
<1>1. run \in Pid /\ pc[run] = "jump" /\ Live(run)
  BY RunnerTypes DEF Jump, Running, Live
<1>2. halt_pid[run] = run /\ run >= NTerm
  BY <1>1, TerminalInPid DEF Orderly, RunnerOK, HaltSteps
<1>3. LET w == parentid[run] IN
      /\ w \in Pid /\ w # run /\ w # NONE /\ Live(w)
      /\ pc[w] = "waiting" /\ prev_ESP[run] = w
  BY <1>1, <1>2, TerminalInPid DEF Orderly, CallerOK, Live
<1>4. parentid[run] \notin lost
  BY <1>3 DEF Orderly, StacksOK
<1>5. pc \in [Pid -> PC] /\ status \in [Pid -> Status \cup {0}]
  BY DEF BaseInv, TypeOK
<1> QED
  BY <1>1, <1>2, <1>3, <1>4, <1>5 DEF Jump

LEMMA JumpOrderly ==
  ASSUME BaseInv, Orderly, Jump
  PROVE  Orderly'
<1> DEFINE w == parentid[run]
<1>1. /\ run \in Pid /\ pc[run] = "jump" /\ run >= NTerm
      /\ pc \in [Pid -> PC] /\ status \in [Pid -> Status \cup {0}]
      /\ w \in Pid /\ w # run /\ pc[w] = "waiting"
      /\ pc' = [pc EXCEPT ![run] = "none", ![w] = "finish"]
      /\ status' = [status EXCEPT ![run] = 0]
      /\ run' = w
      /\ UNCHANGED crashed
  BY JumpFacts
<1>2. UNCHANGED <<tables, cur_terminal, terminal_process_index, links,
                  program_ESP, page_map, esp0, halt_value, stack, ghosts,
                  lost, derailed>>
  BY DEF Jump
<1> USE <1>1, <1>2 DEF tables, links, ghosts
<1>a. Live(run) /\ run # NONE /\ w # NONE /\ home[w] = home[run]
  BY TerminalInPid DEF Orderly, CallerOK, Live
<1>b. \A p \in Pid : Live(p) /\ p >= NTerm /\ parentid[p] = w => p = run
  BY <1>a DEF Orderly, CallerOK
<1>3. BootOK'
  BY <1>a DEF Orderly, BootOK, Live, Free
<1>4. RunnerOK'
  BY <1>a DEF Orderly, RunnerOK, Live, Freed, Popped, HaltSteps
<1>5. OthersOK'
  BY <1>a DEF Orderly, OthersOK, Suspended, Live
<1>6. TopOK'
  <2>1. \A t \in Terminal : pid_arr[t] # run
    BY <1>a, TerminalInPid DEF Orderly, RunnerOK, TopOK, Popped
  <2>2. pid_arr \in [Terminal -> Pid \cup {NONE}]
    BY DEF BaseInv, TypeOK
  <2> QED
    BY <1>a, <2>1, <2>2 DEF Orderly, RunnerOK, TopOK, Live, Popped
<1>7. CallerOK'
  BY <1>a, <1>b DEF Orderly, CallerOK, Live
<1>8. StacksOK'
  BY <1>a DEF Orderly, StacksOK, Live
<1>9. SlotsOK'
  BY <1>a DEF Orderly, SlotsOK, Live, Free, Freed, Popped
<1>10. MasksOK'
  BY <1>a, <1>9 DEF Orderly, SlotsOK, MasksOK, Live, Free, Freed, Popped, Unshelled
<1> QED
  BY <1>3, <1>4, <1>5, <1>6, <1>7, <1>8, <1>9, <1>10 DEF Orderly

(* What the timer finds if it preempts nobody in halt: every live process  *)
(* waits for its child or has its registers in its own PCB, that of the    *)
(* interrupted one included.                                               *)
Settled ==
  /\ \A p \in Pid : Free(p) <=> ~Live(p)
  /\ \A p \in Pid : Live(p) =>
       \/ pc[p] = "waiting"
       \/ /\ pc[p] \in {"user", "spin", "launch"}
          /\ pc[p] = "launch" => p >= NTerm
          /\ pid_arr[home[p]] = p
          /\ Saved[p] = p
  /\ \A t \in Terminal : pid_arr[t] # NONE =>
       /\ pid_arr[t] \in Pid /\ Live(pid_arr[t])
       /\ home[pid_arr[t]] = t
       /\ pc[pid_arr[t]] # "waiting"
  /\ \A p \in Pid : shell_mask[p] <=> Live(p) /\ program[p] = Shell

LEMMA TickSettled ==
  ASSUME BaseInv, Orderly, Tick, Clean'
  PROVE  Settled
<1>1. pc \in [Pid -> PC] /\ pid_arr \in [Terminal -> Pid \cup {NONE}]
      /\ program_ESP \in [Pid -> Pid \cup {NONE}]
  BY DEF BaseInv, TypeOK
<1>2. CASE run = NONE
  <2>1. Saved = program_ESP
    BY <1>2 DEF Saved
  <2>2. run \notin Pid
    BY <1>2, TerminalInPid
  <2>3. \A p \in Pid : Free(p) <=> ~Live(p)
    BY <2>2 DEF Orderly, SlotsOK
  <2>4. \A p \in Pid : Live(p) => pc[p] = "waiting" \/ Suspended(p)
    BY <2>2 DEF Orderly, OthersOK
  <2>5. \A t \in Terminal : pid_arr[t] = NONE
    BY <1>2 DEF Orderly, BootOK
  <2>6. \A p \in Pid : shell_mask[p] <=> Live(p) /\ program[p] = Shell
    BY <2>2, <2>3 DEF Orderly, MasksOK
  <2> QED
    BY <2>1, <2>3, <2>4, <2>5, <2>6 DEF Settled, Suspended
<1>3. CASE run # NONE
  <2>1. run \in Pid /\ terminal_process_index \in Terminal /\ Live(run)
        /\ pc[run] # "waiting"
    BY <1>3, RunnerTypes DEF Orderly, RunnerOK
  <2>2. Preempted = {}
    BY DEF Tick, Clean
  <2>3. /\ pc[run] \in {"user", "spin", "launch"}
        /\ pc[run] = "launch" => run >= NTerm
    <3>1. pc[run] \notin HaltSteps \cup {"finish"}
      BY <1>3, <2>2 DEF Preempted
    <3>2. ~(pc[run] = "launch" /\ run < NTerm)
      BY <1>3, <2>2, <3>1 DEF Preempted
    <3>3. pc[run] = "launch" => run >= NTerm
      BY <3>2, <2>1, SizeAssumption, SMT DEF Pid
    <3> QED
      BY <1>1, <2>1, <3>1, <3>3 DEF PC, Live
  <2>4. pid_arr[terminal_process_index] = run /\ home[run] = terminal_process_index
    BY <1>3, <2>3 DEF Orderly, RunnerOK, Popped
  <2>5. Saved = [program_ESP EXCEPT ![run] = run]
    BY <1>3, <2>4 DEF Saved
  <2>6. \A p \in Pid : Free(p) <=> ~Live(p)
    BY <2>3 DEF Orderly, SlotsOK, Freed, Popped
  <2>7. \A p \in Pid : Live(p) =>
          \/ pc[p] = "waiting"
          \/ /\ pc[p] \in {"user", "spin", "launch"}
             /\ pc[p] = "launch" => p >= NTerm
             /\ pid_arr[home[p]] = p
             /\ Saved[p] = p
    BY <1>1, <2>1, <2>3, <2>4, <2>5 DEF Orderly, OthersOK, Suspended
  <2>8. \A t \in Terminal : pid_arr[t] # NONE =>
          /\ pid_arr[t] \in Pid /\ Live(pid_arr[t])
          /\ home[pid_arr[t]] = t
          /\ pc[pid_arr[t]] # "waiting"
    BY <1>1, <2>1, <2>4 DEF Orderly, TopOK
  <2>9. \A p \in Pid : shell_mask[p] <=> Live(p) /\ program[p] = Shell
    BY <2>3, <2>6 DEF Orderly, MasksOK, Unshelled, Freed, Popped
  <2> QED
    BY <2>6, <2>7, <2>8, <2>9 DEF Settled
<1> QED
  BY <1>2, <1>3

(* schedule finds what it saved.                                           *)
LEMMA ResumeFacts ==
  ASSUME BaseInv, Orderly, Settled, NEW i \in Terminal, Resume(i)
  PROVE  LET q == pid_arr[i] IN
         /\ q \in Pid /\ Live(q) /\ home[q] = i
         /\ pc[q] \in {"user", "spin", "launch"}
         /\ pc[q] = "launch" => q >= NTerm
         /\ run' = q
         /\ page_map' = q
         /\ esp0' = q
         /\ program_ESP' = [Saved EXCEPT ![q] = NONE]
         /\ pc[q] = "user" => stack' = [stack EXCEPT ![q] = q]
         /\ pc[q] # "user" => UNCHANGED stack
         /\ UNCHANGED <<lost, crashed, tables, links, halt_value, pc, local, ghosts>>
<1> DEFINE q == pid_arr[i]
<1>1. /\ q # NONE
      /\ page_map' = q
      /\ esp0' = q
      /\ UNCHANGED <<tables, links, halt_value, pc, local, ghosts>>
  BY DEF Resume
<1>2. /\ q \in Pid /\ Live(q) /\ home[q] = i
      /\ pc[q] \in {"user", "spin", "launch"}
      /\ pc[q] = "launch" => q >= NTerm
      /\ Saved[q] = q
  BY <1>1 DEF Settled
<1>3. q \notin lost
  BY <1>2 DEF Orderly, StacksOK
<1>4. /\ run' = q
      /\ program_ESP' = [Saved EXCEPT ![q] = NONE]
      /\ IF pc[q] = "user" THEN ToUser(q, q) ELSE UNCHANGED <<stack, lost>>
      /\ UNCHANGED crashed
  BY <1>1, <1>2, <1>3 DEF Resume
<1>5. \A x \in Pid \ {q} : Live(x) => stack[x] # q
  <2>1. \A x \in Pid \ {q} : pc[x] = "launch" => x >= NTerm
    BY DEF Settled, Live
  <2>2. pc[q] # "waiting"
    BY <1>2
  <2> QED
    BY <1>2, <2>1, <2>2, OwnStack DEF Orderly
<1>6. /\ pc[q] = "user" => stack' = [stack EXCEPT ![q] = q] /\ UNCHANGED lost
      /\ pc[q] # "user" => UNCHANGED <<stack, lost>>
  BY <1>4, <1>5 DEF ToUser, Live
<1> HIDE DEF q
<1>7. /\ pc[q] = "user" => stack' = [stack EXCEPT ![q] = q]
      /\ pc[q] # "user" => UNCHANGED stack
      /\ UNCHANGED lost
  BY <1>6
<1> QED
  BY <1>1, <1>2, <1>4, <1>7 DEF q

LEMMA ResumeOrderly ==
  ASSUME BaseInv, Orderly, Settled, UNCHANGED cur_terminal,
         NEW i \in Terminal, terminal_process_index' = i, Resume(i)
  PROVE  Orderly'
<1> DEFINE q == pid_arr[i]
<1>1. /\ q \in Pid /\ Live(q) /\ home[q] = i
      /\ pc[q] \in {"user", "spin", "launch"}
      /\ pc[q] = "launch" => q >= NTerm
      /\ run' = q
      /\ page_map' = q
      /\ esp0' = q
      /\ program_ESP' = [Saved EXCEPT ![q] = NONE]
      /\ pc[q] = "user" => stack' = [stack EXCEPT ![q] = q]
      /\ pc[q] # "user" => UNCHANGED stack
      /\ UNCHANGED <<lost, crashed, tables, links, halt_value, pc, local, ghosts>>
  BY ResumeFacts
<1>2. /\ stack \in [Pid -> Pid]
      /\ Saved \in [Pid -> Pid \cup {NONE}]
      /\ q # NONE
  BY <1>1, SavedType, TerminalInPid DEF BaseInv, TypeOK
<1> HIDE DEF q
<1> USE <1>1 DEF tables, links, ghosts
<1>3. BootOK'
  BY <1>2 DEF Orderly, BootOK, Live, Free, q
<1>4. RunnerOK'
  BY DEF RunnerOK, Live, Freed, Popped, HaltSteps, q
<1>5. OthersOK'
  BY <1>2 DEF Settled, OthersOK, Suspended, Live
<1>6. TopOK' /\ CallerOK'
  BY DEF Orderly, Settled, TopOK, CallerOK, Live
<1>7. StacksOK'
  BY <1>2 DEF Orderly, StacksOK, Live
<1>8. SlotsOK'
  BY DEF Settled, SlotsOK, Live, Free, Freed, Popped
<1>9. MasksOK'
  BY DEF Settled, Orderly, MasksOK, Live, Free, Unshelled, Freed, Popped
<1> QED
  BY <1>3, <1>4, <1>5, <1>6, <1>7, <1>8, <1>9 DEF Orderly

(* The scheduler comes to the terminals that have no shell in the order of *)
(* their numbers, and each gets the pid of its number.                     *)
LEMMA StartsInOrder ==
  ASSUME BaseInv, Orderly, NEW i \in Terminal, PitNext(i), pid_arr[i] = NONE,
         NEW p \in Pid, LowestFree(p)
  PROVE  p = i
<1>1. i \in Pid /\ Free(i) /\ NTerm \in Nat /\ NPid \in Nat
  BY TerminalInPid, SizeAssumption DEF Orderly, BootOK
<1>2. ~(i < p)
  BY <1>1 DEF LowestFree
<1>3. p \in Terminal /\ p <= i
  BY <1>1, <1>2, SMT DEF Pid, Terminal
<1>4. pid_arr[p] = NONE
  BY <1>3 DEF Orderly, BootOK, LowestFree
<1>5. ~Skip(p)
  BY <1>4 DEF Skip
<1>6. ~Between(terminal_process_index, p, i)
  BY <1>3, <1>5 DEF PitNext
<1>7. CASE terminal_process_index = NONE
  BY <1>1, <1>3, <1>6, <1>7, SMT DEF Between, Terminal, NONE
<1>8. CASE terminal_process_index # NONE
  <2> DEFINE here == terminal_process_index
  <2>1. here \in Terminal /\ pid_arr[here] # NONE
    BY <1>8 DEF BaseInv, TypeOK, Orderly, BootOK
  <2>2. ~(p < here)
    BY <2>1, <1>3, <1>4 DEF Orderly, BootOK
  <2>3. here # p
    BY <2>1, <1>4
  <2>4. here < p
    BY <2>1, <2>2, <2>3, <1>1, <1>3, SMT DEF Terminal
  <2> QED
    BY <2>1, <2>4, <1>1, <1>3, <1>6, SMT DEF Between, Terminal
<1> QED
  BY <1>7, <1>8

LEMMA StartShellFacts ==
  ASSUME BaseInv, Orderly, NEW i \in Terminal, PitNext(i), StartShell(i)
  PROVE  /\ i \in Pid /\ i < NTerm /\ Free(i) /\ pid_arr[i] = NONE
         /\ \A q \in Pid : q < i => ~Free(q)
         /\ \A q \in Pid : q >= NTerm => ~Live(q)
         /\ LoadProgram(i, Shell, i)
         /\ Place(i) = i
         /\ pc' = [pc EXCEPT ![i] = "launch"]
         /\ program_ESP' =
              [q \in Pid |-> IF Saved[q] = i THEN NONE ELSE Saved[q]]
         /\ UNCHANGED <<halt_value, local, crashed>>
<1>1. PICK p \in Pid :
        /\ LowestFree(p)
        /\ LoadProgram(p, Shell, i)
        /\ pc' = [pc EXCEPT ![p] = "launch"]
        /\ program_ESP' =
             [q \in Pid |-> IF Saved[q] = p THEN NONE ELSE Saved[q]]
  BY DEF StartShell
<1>2. pid_arr[i] = NONE /\ UNCHANGED <<halt_value, local, crashed>>
  BY DEF StartShell
<1>3. p = i
  BY <1>1, <1>2, StartsInOrder
<1>4. i \in Pid /\ i < NTerm
  BY <1>1, <1>3, SizeAssumption, SMT DEF Terminal
<1>5. \A q \in Pid : q >= NTerm => ~Live(q)
  BY <1>2 DEF Orderly, BootOK
<1>6. Place(i) = i
  BY <1>4 DEF Place
<1> QED
  BY <1>1, <1>2, <1>3, <1>4, <1>5, <1>6 DEF LowestFree

LEMMA StartShellOrderly ==
  ASSUME BaseInv, Orderly, Settled, UNCHANGED cur_terminal,
         NEW i \in Terminal, PitNext(i), terminal_process_index' = i, StartShell(i)
  PROVE  Orderly'
<1>1. /\ i \in Pid /\ i < NTerm /\ Free(i) /\ pid_arr[i] = NONE
      /\ \A q \in Pid : q < i => ~Free(q)
      /\ \A q \in Pid : q >= NTerm => ~Live(q)
      /\ pc' = [pc EXCEPT ![i] = "launch"]
      /\ program_ESP' =
           [q \in Pid |-> IF Saved[q] = i THEN NONE ELSE Saved[q]]
      /\ UNCHANGED <<halt_value, crashed>>
  BY StartShellFacts
<1>2. /\ shell_mask' = [shell_mask EXCEPT ![i] = TRUE]
      /\ typing_mask' = [typing_mask EXCEPT ![cur_terminal] = TRUE]
      /\ pid_mask' = [pid_mask EXCEPT ![i] = TRUE]
      /\ pid_arr' = [pid_arr EXCEPT ![i] = i]
      /\ page_map' = i
      /\ esp0' = i
      /\ run' = i
      /\ program' = [program EXCEPT ![i] = Shell]
      /\ home' = [home EXCEPT ![i] = i]
      /\ lost' = lost \ {i}
      /\ \A q \in Pid \ {i} : stack'[q] = stack[q]
  <2>1. LoadProgram(i, Shell, i) /\ Place(i) = i
    BY StartShellFacts
  <2>2. Shell \notin Quiet
    BY ProgramAssumption
  <2> QED
    BY <2>1, <2>2 DEF LoadProgram, BaseInv, TypeOK
<1>3. /\ pc \in [Pid -> PC] /\ pid_mask \in [Pid -> BOOLEAN]
      /\ pid_arr \in [Terminal -> Pid \cup {NONE}]
      /\ shell_mask \in [Pid -> BOOLEAN]
      /\ typing_mask \in [Terminal -> BOOLEAN]
      /\ cur_terminal \in Terminal
      /\ program \in [Pid -> Program]
      /\ home \in [Pid -> Terminal]
      /\ i # NONE
      /\ Terminal \subseteq Pid
  BY <1>1, TerminalInPid DEF BaseInv, TypeOK
<1>4. ~Live(i) /\ \A q \in Pid : Live(q) => q < NTerm
  BY <1>1, SizeAssumption, SMT DEF Settled, Pid
<1>5. BootOK'
  <2>1. \A t \in Terminal : pid_arr'[t] = NONE <=> Free(t)'
    BY <1>1, <1>2, <1>3 DEF Orderly, BootOK, Free
  <2>2. \A t, u \in Terminal : t < u /\ pid_arr'[u] # NONE => pid_arr'[t] # NONE
    BY <1>1, <1>2, <1>3 DEF Orderly, BootOK
  <2>3. \A q \in Pid : Live(q)' => ~(q >= NTerm)
    BY <1>1, <1>3, <1>4, SizeAssumption, SMT DEF Live, Pid
  <2> QED
    BY <1>1, <1>2, <1>3, <2>1, <2>2, <2>3 DEF Orderly, BootOK
<1>6. RunnerOK'
  BY <1>1, <1>2, <1>3 DEF RunnerOK, Live, Freed, Popped, HaltSteps
<1>7. OthersOK'
  <2> SUFFICES ASSUME NEW q \in Pid, q # i, Live(q)', pc'[q] # "waiting"
               PROVE  Suspended(q)'
    BY <1>2 DEF OthersOK
  <2>a. pc'[q] = pc[q] /\ Live(q) /\ home'[q] = home[q]
    BY <1>1, <1>2, <1>3 DEF Live
  <2>1. /\ pc'[q] = pc[q] /\ Live(q) /\ home'[q] = home[q]
        /\ program_ESP'[q] = Saved[q]
    BY <2>a, <1>1 DEF Settled
  <2>2. pid_arr[home[q]] = q /\ home[q] # i /\ home[q] \in Terminal
    BY <2>1, <1>1, <1>3, TerminalInPid DEF Settled
  <2> QED
    BY <2>1, <2>2, <1>2, <1>3 DEF Settled, Suspended
<1>8. TopOK'
  BY <1>1, <1>2, <1>3, <1>4 DEF Settled, TopOK, Live
<1>9. CallerOK'
  <2>1. \A q \in Pid : Live(q)' => q < NTerm /\ ~(q >= NTerm)
    BY <1>1, <1>3, <1>4, SizeAssumption, SMT DEF Live, Pid
  <2>2. \A q \in Pid : Live(q)' => home'[q] = q /\ program'[q] = Shell
    BY <1>1, <1>2, <1>3, <1>4 DEF Orderly, CallerOK, Live
  <2> QED
    BY <2>1, <2>2, <1>3 DEF CallerOK
<1>10. StacksOK'
  <2> SUFFICES ASSUME NEW q \in Pid, Live(q)'
               PROVE  /\ q \notin lost'
                      /\ pc'[q] # "launch" => stack'[q] = q
                      /\ ~(q >= NTerm)
    BY DEF StacksOK
  <2>1. CASE q = i
    BY <2>1, <1>1, <1>2, <1>3, SizeAssumption, SMT DEF Pid
  <2>2. CASE q # i
    <3>1. Live(q) /\ pc'[q] = pc[q] /\ stack'[q] = stack[q]
      BY <2>2, <1>1, <1>2, <1>3 DEF Live
    <3>2. ~(q >= NTerm)
      BY <3>1, <1>4, SizeAssumption, SMT DEF Pid
    <3> QED
      BY <3>1, <3>2, <1>2 DEF Orderly, StacksOK
  <2> QED
    BY <2>1, <2>2
<1>11. SlotsOK'
  BY <1>1, <1>2, <1>3 DEF Settled, SlotsOK, Live, Free, Freed, Popped
<1>12. MasksOK'
  <2>1. \A t \in Terminal : pid_arr'[t] # NONE => program'[pid_arr'[t]] = Shell
    BY <1>1, <1>2, <1>3, <1>4 DEF Settled, Orderly, CallerOK
  <2>2. \A t \in Terminal : typing_mask'[t]
    BY <1>2, <1>3, <1>4, ProgramAssumption DEF Settled, Orderly, MasksOK, CallerOK
  <2>3. \A q \in Pid : shell_mask'[q] <=> Live(q)' /\ program'[q] = Shell
    BY <1>1, <1>2, <1>3 DEF Settled, Live
  <2>4. \A q \in Pid : Free(q)' <=> ~Live(q)'
    BY <1>1, <1>2, <1>3 DEF Settled, Live, Free
  <2>5. pc'[run'] \notin Unshelled
    BY <1>1, <1>2, <1>3 DEF Unshelled, Freed, Popped
  <2> QED
    BY <2>1, <2>2, <2>3, <2>4, <2>5, ProgramAssumption DEF MasksOK
<1> QED
  BY <1>5, <1>6, <1>7, <1>8, <1>9, <1>10, <1>11, <1>12 DEF Orderly

LEMMA TickOrderly ==
  ASSUME BaseInv, Orderly, Tick, Clean'
  PROVE  Orderly'
<1>1. PICK i \in Terminal : /\ PitNext(i)
                            /\ terminal_process_index' = i
                            /\ StartShell(i) \/ Resume(i)
  BY DEF Tick
<1>2. UNCHANGED cur_terminal
  BY DEF Tick
<1> QED
  BY <1>1, <1>2, TickSettled, StartShellOrderly, ResumeOrderly

(* A shell executes a command from the displayed terminal, with a pid that *)
(* no process and no terminal uses.                                        *)
LEMMA ExecuteFacts ==
  ASSUME BaseInv, Orderly, NEW prog \in Program, Execute(prog), Clean'
  PROVE  /\ run \in Pid /\ pc[run] = "user" /\ program[run] = Shell
         /\ terminal_process_index = cur_terminal
         /\ pid_arr[cur_terminal] = run /\ home[run] = cur_terminal
         /\ page_map = run /\ esp0 = run /\ stack[run] = run
         /\ \A t \in Terminal : pid_arr[t] # NONE
         /\ \A q \in Pid : Free(q) <=> ~Live(q)
         /\ UNCHANGED <<cur_terminal, terminal_process_index, halt_value, local,
                        crashed>>
         /\ \E p \in Pid :
              /\ LowestFree(p) /\ ~Live(p) /\ p >= NTerm /\ p # run
              /\ LoadProgram(p, prog, cur_terminal)
              /\ Parent(p) = run /\ Place(p) = cur_terminal
              /\ pc' = [pc EXCEPT ![run] = "waiting", ![p] = "launch"]
              /\ program_ESP' = [q \in Pid |->
                                   IF program_ESP[q] = p
                                     THEN NONE ELSE program_ESP[q]]
<1>1. /\ run \in Pid /\ pc[run] = "user" /\ program[run] = Shell
      /\ terminal_process_index \in Terminal
  BY RunnerTypes DEF Execute, Running
<1>2. PICK p \in Pid :
        /\ LowestFree(p)
        /\ LoadProgram(p, prog, terminal_process_index)
        /\ pc' = [pc EXCEPT ![run] = "waiting", ![p] = "launch"]
        /\ program_ESP' = [q \in Pid |->
                             IF program_ESP[q] = p
                               THEN NONE ELSE program_ESP[q]]
        /\ derailed' = derailed
             \cup (IF p < NTerm THEN {"base_pid_taken"} ELSE {})
             \cup (IF p >= NTerm /\ terminal_process_index # cur_terminal
                     THEN {"undisplayed_execute"} ELSE {})
  BY DEF Execute
<1>3. ~(p < NTerm)
  BY <1>2 DEF Clean
<1>4. p >= NTerm
  BY <1>3, SizeAssumption, SMT DEF Pid
<1>5. terminal_process_index = cur_terminal
  BY <1>2, <1>4 DEF Clean
<1>6. /\ Live(run) /\ home[run] = cur_terminal
      /\ pid_arr[cur_terminal] = run /\ page_map = run /\ esp0 = run
  BY <1>1, <1>5, TerminalInPid DEF Orderly, RunnerOK, Popped, Freed, HaltSteps
<1>7. stack[run] = run
  BY <1>1, <1>6 DEF Orderly, StacksOK
<1>8. \A t \in Terminal : pid_arr[t] # NONE
  BY <1>2, <1>4, AllLaunched
<1>9. \A q \in Pid : Free(q) <=> ~Live(q)
  BY <1>1 DEF Orderly, SlotsOK, Freed, Popped
<1>10. ~Live(p) /\ p # run /\ Parent(p) = run /\ Place(p) = cur_terminal
  BY <1>2, <1>3, <1>6, <1>9 DEF LowestFree, Parent, Place
<1>11. UNCHANGED <<cur_terminal, terminal_process_index, halt_value, local,
                   crashed>>
  BY DEF Execute
<1> QED
  BY <1>1, <1>2, <1>4, <1>5, <1>6, <1>7, <1>8, <1>9, <1>10, <1>11

LEMMA ExecuteOrderly ==
  ASSUME BaseInv, Orderly, NEW prog \in Program, Execute(prog), Clean'
  PROVE  Orderly'
<1> DEFINE r == run
<1> DEFINE c == cur_terminal
<1>1. /\ r = run /\ r \in Pid /\ pc[r] = "user" /\ program[r] = Shell
      /\ c = terminal_process_index /\ pid_arr[c] = r /\ home[r] = c
      /\ page_map = r /\ esp0 = r /\ stack[r] = r
      /\ \A t \in Terminal : pid_arr[t] # NONE
      /\ \A q \in Pid : Free(q) <=> ~Live(q)
      /\ UNCHANGED <<terminal_process_index, halt_value, crashed>>
  BY ExecuteFacts
<1>2. PICK p \in Pid :
        /\ LowestFree(p) /\ ~Live(p) /\ p >= NTerm /\ p # r
        /\ LoadProgram(p, prog, c)
        /\ Parent(p) = r /\ Place(p) = c
        /\ pc' = [pc EXCEPT ![r] = "waiting", ![p] = "launch"]
        /\ program_ESP' = [q \in Pid |->
                             IF program_ESP[q] = p
                               THEN NONE ELSE program_ESP[q]]
  BY ExecuteFacts
<1>3. /\ pc \in [Pid -> PC] /\ pid_mask \in [Pid -> BOOLEAN]
      /\ pid_arr \in [Terminal -> Pid \cup {NONE}]
      /\ shell_mask \in [Pid -> BOOLEAN]
      /\ typing_mask \in [Terminal -> BOOLEAN]
      /\ c \in Terminal
      /\ program \in [Pid -> Program]
      /\ home \in [Pid -> Terminal]
      /\ stack \in [Pid -> Pid]
      /\ parentid \in [Pid -> Pid \cup {NONE}]
      /\ prev_ESP \in [Pid -> Pid \cup {NONE}]
      /\ TSS_prev_esp0 \in [Pid -> Pid]
      /\ Terminal \subseteq Pid /\ NONE \notin Pid
  BY TerminalInPid DEF BaseInv, TypeOK
<1>4. /\ parentid' = [parentid EXCEPT ![p] = r]
      /\ prev_ESP' = [prev_ESP EXCEPT ![p] = r]
      /\ TSS_prev_esp0' = [TSS_prev_esp0 EXCEPT ![p] = r]
      /\ page_map' = p /\ esp0' = p /\ run' = p
      /\ shell_mask' = IF prog = Shell THEN [shell_mask EXCEPT ![p] = TRUE]
                                       ELSE shell_mask
      /\ typing_mask' = [typing_mask EXCEPT ![c] = prog \notin Quiet]
      /\ pid_mask' = [pid_mask EXCEPT ![p] = TRUE]
      /\ pid_arr' = [pid_arr EXCEPT ![c] = p]
      /\ stack' = [stack EXCEPT ![p] = r]
      /\ program' = [program EXCEPT ![p] = prog]
      /\ home' = [home EXCEPT ![p] = c]
      /\ lost' = lost \ {p}
  BY <1>1, <1>2, <1>3 DEF LoadProgram
<1> HIDE DEF r, c
<1>5. /\ \A q \in Pid \ {p, r} : pc'[q] = pc[q]
      /\ pc'[r] = "waiting" /\ pc'[p] = "launch"
      /\ \A q \in Pid : Live(q)' <=> Live(q) \/ q = p
      /\ Live(r)
  BY <1>1, <1>2, <1>3 DEF Live
<1>6. \A q \in Pid : Live(q) /\ q >= NTerm => parentid[q] \in Pid \ {p, r}
  BY <1>1, <1>2 DEF Orderly, CallerOK, Live
<1>7. BootOK'
  <2>1. \A t \in Terminal : pid_arr'[t] # NONE
    BY <1>1, <1>2, <1>3, <1>4
  <2>2. \A t \in Terminal : ~Free(t)'
    BY <1>1, <1>2, <1>3, <1>4 DEF Orderly, BootOK, Free
  <2> QED
    BY <1>1, <1>2, <1>3, <1>4, <2>1, <2>2 DEF Orderly, BootOK
<1>8. RunnerOK'
  BY <1>1, <1>2, <1>3, <1>4, <1>5 DEF RunnerOK, Live, Freed, Popped, HaltSteps
<1>9. OthersOK'
  <2> SUFFICES ASSUME NEW q \in Pid, q # p, Live(q)', pc'[q] # "waiting"
               PROVE  Suspended(q)'
    BY <1>4 DEF OthersOK
  <2>1. q # r /\ pc'[q] = pc[q] /\ Live(q) /\ Suspended(q)
    BY <1>1, <1>5 DEF Orderly, OthersOK
  <2>2. home'[q] = home[q] /\ home[q] \in Terminal /\ home[q] # c
    BY <2>1, <1>1, <1>3, <1>4 DEF Suspended
  <2>3. program_ESP'[q] = q
    BY <2>1, <1>2 DEF Suspended
  <2> QED
    BY <2>1, <2>2, <2>3, <1>3, <1>4 DEF Suspended
<1>10. TopOK'
  <2> SUFFICES ASSUME NEW t \in Terminal
               PROVE  /\ pc'[pid_arr'[t]] # "none"
                      /\ home'[pid_arr'[t]] = t
                      /\ t # c => pc'[pid_arr'[t]] # "waiting"
    BY <1>1 DEF TopOK, Live
  <2>1. CASE t = c
    BY <2>1, <1>2, <1>3, <1>4, <1>5 DEF Live
  <2>2. CASE t # c
    <3>1. pid_arr'[t] = pid_arr[t] /\ pid_arr[t] \in Pid
      BY <2>2, <1>1, <1>3, <1>4
    <3>2. /\ Live(pid_arr[t]) /\ home[pid_arr[t]] = t
          /\ pc[pid_arr[t]] # "waiting"
      BY <2>2, <1>1 DEF Orderly, TopOK
    <3>3. pid_arr[t] # p /\ pid_arr[t] # r
      BY <2>2, <3>2, <1>1, <1>2
    <3> QED
      BY <2>2, <3>1, <3>2, <3>3, <1>3, <1>4, <1>5 DEF Live
  <2> QED
    BY <2>1, <2>2
<1>11. CallerOK'
  <2>1. \A q \in Pid : Live(q)' /\ q < NTerm => home'[q] = q /\ program'[q] = Shell
    <3>1. ~(p < NTerm)
      BY <1>2, SizeAssumption, SMT DEF Pid
    <3> QED
      BY <3>1, <1>3, <1>4, <1>5 DEF Orderly, CallerOK
  <2>2. ASSUME NEW q \in Pid, Live(q)', q >= NTerm
        PROVE  /\ parentid'[q] \in Pid
               /\ pc'[parentid'[q]] = "waiting"
               /\ program'[parentid'[q]] = Shell
               /\ prev_ESP'[q] = parentid'[q]
               /\ TSS_prev_esp0'[q] = parentid'[q]
               /\ home'[q] = home'[parentid'[q]]
    <3>1. CASE q = p
      BY <3>1, <1>1, <1>2, <1>3, <1>4, <1>5
    <3>2. CASE q # p
      BY <3>2, <2>2, <1>3, <1>4, <1>5, <1>6 DEF Orderly, CallerOK
    <3> QED
      BY <3>1, <3>2
  <2>3. \A q, s \in Pid :
          Live(q)' /\ Live(s)' /\ q >= NTerm /\ s >= NTerm
            /\ parentid'[q] = parentid'[s] => q = s
    BY <1>3, <1>4, <1>5, <1>6 DEF Orderly, CallerOK
  <2> QED
    BY <2>1, <2>2, <2>3 DEF CallerOK
<1>12. StacksOK'
  BY <1>1, <1>2, <1>3, <1>4, <1>5 DEF Orderly, StacksOK
<1>13. SlotsOK'
  BY <1>1, <1>2, <1>3, <1>4, <1>5 DEF SlotsOK, Live, Free, Freed, Popped
<1>14. MasksOK'
  <2>1. \A t \in Terminal \ {c} : pid_arr'[t] = pid_arr[t] /\ pid_arr[t] \in Pid \ {p}
    BY <1>1, <1>2, <1>3, <1>4 DEF Orderly, TopOK
  <2>2. \A t \in Terminal : typing_mask'[t] <=> program'[pid_arr'[t]] \notin Quiet
    <3>1. \A t \in Terminal \ {c} : program'[pid_arr'[t]] = program[pid_arr[t]]
      BY <2>1, <1>3, <1>4
    <3>2. program'[pid_arr'[c]] = prog
      BY <1>3, <1>4
    <3> QED
      BY <3>1, <3>2, <1>1, <1>3, <1>4 DEF Orderly, MasksOK
  <2>3. \A t \in Terminal : pid_arr'[t] # NONE
    BY <1>1, <1>2, <1>3, <1>4
  <2>4. \A q \in Pid : shell_mask'[q] <=> ~Free(q)' /\ program'[q] = Shell
    BY <1>1, <1>2, <1>3, <1>4 DEF Orderly, MasksOK, Free, Unshelled, Freed, Popped
  <2>5. pc'[run'] \notin Unshelled
    BY <1>4, <1>5 DEF Unshelled, Freed, Popped
  <2> QED
    BY <2>2, <2>3, <2>4, <2>5 DEF MasksOK
<1> QED
  BY <1>7, <1>8, <1>9, <1>10, <1>11, <1>12, <1>13, <1>14 DEF Orderly

(* Boot gives every step what it needs.                                    *)
LEMMA CleanStep == BaseInv /\ CleanInv /\ [Next]_vars => CleanInv'
<1> SUFFICES ASSUME BaseInv, CleanInv, [Next]_vars, Clean'
             PROVE  Orderly'
  BY DEF CleanInv
<1>1. Orderly
  BY CleanKept DEF CleanInv
<1>2. CASE Tick
  BY <1>1, <1>2, TickOrderly
<1>3. ASSUME NEW prog \in Program, Execute(prog)
      PROVE  Orderly'
  BY <1>1, <1>3, ExecuteOrderly
<1>4. CASE Launch \/ Finish
  BY <1>1, <1>4, BackInUserOrderly
<1>5. ASSUME NEW st \in Status, Halt(st)
      PROVE  Orderly'
  BY <1>1, <1>5, HaltOrderly
<1>6. CASE RestorePaging \/ ClearShell \/ RestoreTss \/ FreePid \/ PopPid \/ SetValue
  BY <1>1, <1>6, RestorePagingOrderly, ClearShellOrderly, RestoreTssOrderly,
     FreePidOrderly, PopPidOrderly, SetValueOrderly
<1>7. CASE Jump
  BY <1>1, <1>7, JumpOrderly
<1>8. CASE Fault
  BY <1>1, <1>8, FaultOrderly
<1>9. ASSUME NEW t \in Terminal, SwitchTerminal(t)
      PROVE  Orderly'
  BY <1>1, <1>9, SwitchOrderly
<1>10. CASE Hung \/ UNCHANGED vars
  BY <1>1, <1>10, StutterOrderly DEF Hung
<1>11. ~ExecuteDamaged
  BY DEF ExecuteDamaged, Clean
<1> QED
  BY <1>2, <1>3, <1>4, <1>5, <1>6, <1>7, <1>8, <1>9, <1>10, <1>11
     DEF Next, HaltMove

-----------------------------------------------------------------------------
(* The theorems.                                                           *)

(* As long as no hazard happens, the tables, the PCBs, the page directory, *)
(* the TSS and the stacks stay in the order described above, through every *)
(* interleaving of execute, halt, the timer and the terminal keys.         *)
THEOREM CleanInvariant == Spec => []CleanInv
<1>1. Init => CleanInv
  BY OrderlyInit DEF CleanInv
<1>2. BaseInv /\ CleanInv /\ [Next]_vars => CleanInv'
  BY CleanStep
<1> QED
  BY <1>1, <1>2, BaseInvariant, PTL DEF Spec

(* Without a hazard no thread is resumed from a stack pointer that was     *)
(* never saved or whose frames are gone.                                   *)
THEOREM CrashFree == Spec => []NeverCrashes
<1>1. CleanInv => NeverCrashes
  BY DEF CleanInv, Orderly, BootOK, NeverCrashes
<1> QED
  BY <1>1, CleanInvariant, PTL

(* Without a hazard a thread in user mode runs on its own image, will use  *)
(* its own kernel stack, and is what system calls take for their caller.   *)
THEOREM RunnerIsMapped == Spec => []MappingFollowsRunner
<1>1. CleanInv => MappingFollowsRunner
  BY DEF CleanInv, Orderly, RunnerOK, MappingFollowsRunner, Running, Freed,
         Popped, HaltSteps
<1> QED
  BY <1>1, CleanInvariant, PTL

(* Without a hazard a terminal shows a process that was executed there.    *)
THEOREM TerminalsKeepApart == Spec => []OwnTerminal
<1>1. CleanInv => OwnTerminal
  BY DEF CleanInv, Orderly, TopOK, OwnTerminal
<1> QED
  BY <1>1, CleanInvariant, PTL

(* Without a hazard the parent a process halts into, the frame it jumps to *)
(* and the kernel stack it leaves in the TSS belong to the same process.   *)
THEOREM CallerAgreed == Spec => []CallerHears
<1>1. CleanInv => CallerHears
  BY DEF CleanInv, Orderly, CallerOK, CallerHears
<1> QED
  BY <1>1, CleanInvariant, PTL

(* Without a hazard the slots of the PCB table are neither lost nor shared.*)
THEOREM SlotsKept == Spec => []SlotsAccounted
<1>1. CleanInv => SlotsAccounted
  BY DEF CleanInv, Orderly, SlotsOK, SlotsAccounted, Freed, Popped
<1> QED
  BY <1>1, CleanInvariant, PTL

(* Without a hazard typing_mask and shell_mask are right about the program *)
(* on top of every terminal and about every process.                       *)
THEOREM MasksFit == Spec => []MasksFitPrograms
<1>1. BaseInv /\ CleanInv => MasksFitPrograms
  <2> SUFFICES ASSUME BaseInv, MasksOK
               PROVE  MasksFitPrograms
    BY DEF CleanInv, Orderly, MasksFitPrograms
  <2>1. \A t \in Terminal : pid_arr[t] # NONE =>
          typing_mask[t] = (program[pid_arr[t]] \notin Quiet)
    <3>1. typing_mask \in [Terminal -> BOOLEAN]
      BY DEF BaseInv, TypeOK
    <3> QED
      BY <3>1, Zenon DEF MasksOK
  <2>2. \A p \in Pid : ~Free(p) /\ pc[p] \notin HaltSteps =>
          (shell_mask[p] <=> program[p] = Shell)
    BY DEF MasksOK, Unshelled, Freed, Popped, HaltSteps
  <2> QED
    BY <2>1, <2>2 DEF MasksFitPrograms
<1> QED
  BY <1>1, CleanInvariant, BaseInvariant, PTL

-----------------------------------------------------------------------------
(* Sessions: their state.                                                  *)

Alive == {p \in Pid : Live(p)}
Top == [t \in Terminal |-> OnTop(t)]
Caller == [p \in Pid |-> IF Live(p) /\ p >= NTerm THEN prev_ESP[p] ELSE NONE]
Exiting == [p \in Pid |-> IF pc[p] \in HaltSteps THEN status[p] ELSE NONE]
Reply == [p \in Pid |-> IF pc[p] = "finish" THEN halt_value ELSE NONE]

LEMMA SessionWords ==
  /\ Session!vars = <<Alive, Top, Caller, Exiting, Reply>>
  /\ Session!Pid = Pid /\ Session!Terminal = Terminal /\ Session!NONE = NONE
BY DEF Session!vars, Session!Pid, Session!Terminal, Session!NONE,
       Pid, Terminal, NONE, Alive, Top, Caller, Exiting, Reply

LEMMA BootWords ==
  ASSUME NEW t \in Terminal, Top[t] = NONE,
         Alive' = Alive \cup {t}, Top' = [Top EXCEPT ![t] = t],
         UNCHANGED <<Caller, Exiting, Reply>>
  PROVE  Session!Next
<1>1. Session!Boot(t)
  BY SessionWords DEF Session!Boot, Alive, Top, Caller, Exiting, Reply
<1> QED
  BY <1>1, SessionWords DEF Session!Next

LEMMA RunWords ==
  ASSUME NEW t \in Terminal, NEW p \in Pid, p >= NTerm, p \notin Alive,
         Top[t] # NONE, Exiting[Top[t]] = NONE, Reply[Top[t]] = NONE,
         Alive' = Alive \cup {p}, Top' = [Top EXCEPT ![t] = p],
         Caller' = [Caller EXCEPT ![p] = Top[t]],
         UNCHANGED <<Exiting, Reply>>
  PROVE  Session!Next
<1>1. Session!Run(t, p)
  BY SessionWords DEF Session!Run, Session!Active, Alive, Top, Caller, Exiting, Reply
<1> QED
  BY <1>1, SessionWords DEF Session!Next

LEMMA ExitWords ==
  ASSUME NEW t \in Terminal, NEW st \in Status, Top[t] >= NTerm,
         Top[t] # NONE, Exiting[Top[t]] = NONE, Reply[Top[t]] = NONE,
         Exiting' = [Exiting EXCEPT ![Top[t]] = st],
         UNCHANGED <<Alive, Top, Caller, Reply>>
  PROVE  Session!Next
<1>1. Session!Exit(t, st)
  BY SessionWords DEF Session!Exit, Session!Active, Alive, Top, Caller, Exiting, Reply
<1> QED
  BY <1>1, SessionWords DEF Session!Next

LEMMA LeaveWords ==
  ASSUME NEW t \in Terminal, Top[t] # NONE, Exiting[Top[t]] # NONE,
         Alive' = Alive \ {Top[t]},
         Top' = [Top EXCEPT ![t] = Caller[Top[t]]],
         Caller' = [Caller EXCEPT ![Top[t]] = NONE],
         Exiting' = [Exiting EXCEPT ![Top[t]] = NONE],
         Reply' = [Reply EXCEPT ![Caller[Top[t]]] = Exiting[Top[t]]]
  PROVE  Session!Next
<1>1. Session!Leave(t)
  BY SessionWords DEF Session!Leave, Alive, Top, Caller, Exiting, Reply
<1> QED
  BY <1>1, SessionWords DEF Session!Next

LEMMA ReturnWords ==
  ASSUME NEW p \in Pid, Reply[p] # NONE,
         Reply' = [Reply EXCEPT ![p] = NONE],
         UNCHANGED <<Alive, Top, Caller, Exiting>>
  PROVE  Session!Next
<1>1. Session!Return(p)
  BY SessionWords DEF Session!Return, Alive, Top, Caller, Exiting, Reply
<1> QED
  BY <1>1, SessionWords DEF Session!Next

LEMMA SessionInit == Init => Session!Init
<1> SUFFICES ASSUME Init
             PROVE  Session!Init
  OBVIOUS
<1>1. /\ Alive = {}
      /\ Top = [t \in Terminal |-> NONE]
      /\ Caller = [p \in Pid |-> NONE]
      /\ Exiting = [p \in Pid |-> NONE]
      /\ Reply = [p \in Pid |-> NONE]
  BY DEF Init, Alive, Top, Caller, Exiting, Reply, OnTop, Live, HaltSteps
<1> QED
  BY <1>1, SessionWords DEF Session!Init, Alive, Top, Caller, Exiting, Reply

-----------------------------------------------------------------------------
(* Every step of the kernel is a step of the sessions, or changes nothing  *)
(* that they see.                                                          *)

Seen == <<Alive, Top, Caller, Exiting, Reply>>

(* A thread computes, or gets on with halt.                                *)
LEMMA StaysUnseen ==
  ASSUME BaseInv, Orderly, run \in Pid, NEW x \in PC,
         \/ pc[run] \in HaltSteps /\ x \in HaltSteps
         \/ pc[run] \in {"user", "spin", "launch"} /\ x \in {"user", "spin"},
         pc' = [pc EXCEPT ![run] = x],
         UNCHANGED <<run, terminal_process_index, prev_ESP, status>>,
         \A t \in Terminal \ {terminal_process_index} : pid_arr'[t] = pid_arr[t]
  PROVE  UNCHANGED Seen
<1>1. pc \in [Pid -> PC] /\ run # NONE
  BY TerminalInPid DEF BaseInv, TypeOK
<1>2. Alive' = Alive /\ Caller' = Caller /\ Exiting' = Exiting
  <2>1. \A p \in Pid : /\ Live(p)' <=> Live(p)
                       /\ pc'[p] \in HaltSteps <=> pc[p] \in HaltSteps
    BY <1>1 DEF Live, HaltSteps
  <2> QED
    BY <2>1 DEF Alive, Caller, Exiting
<1>3. Top' = Top
  BY <1>1 DEF Top, OnTop
<1>4. Reply' = Reply
  <2>1. \A p \in Pid : pc[p] # "finish" /\ pc'[p] # "finish"
    BY <1>1 DEF Orderly, OthersOK, Suspended, Live, HaltSteps
  <2> QED
    BY <2>1 DEF Reply
<1> QED
  BY <1>2, <1>3, <1>4 DEF Seen

LEMMA HaltStepUnseen ==
  ASSUME BaseInv, Orderly,
         RestorePaging \/ ClearShell \/ RestoreTss \/ FreePid \/ PopPid \/ SetValue
  PROVE  UNCHANGED Seen
<1>1. PICK at \in HaltSteps, next \in HaltSteps : HaltStep(at, next)
  BY DEF RestorePaging, ClearShell, RestoreTss, FreePid, PopPid, SetValue, HaltSteps
<1>2. /\ run \in Pid /\ pc[run] = at
      /\ pc' = [pc EXCEPT ![run] = next]
      /\ UNCHANGED <<run, terminal_process_index, prev_ESP, status>>
  <2>1. /\ run \in Pid /\ pc[run] = at
        /\ pc' = [pc EXCEPT ![run] = next]
        /\ UNCHANGED <<terminal_process_index, links, run, local>>
    BY <1>1, HaltStepFacts
  <2> QED
    BY <2>1 DEF links, local
<1>3. \A t \in Terminal \ {terminal_process_index} : pid_arr'[t] = pid_arr[t]
  <2>1. pid_arr \in [Terminal -> Pid \cup {NONE}]
    BY DEF BaseInv, TypeOK
  <2> QED
    BY <2>1 DEF RestorePaging, ClearShell, RestoreTss, FreePid, PopPid, SetValue,
                tables
<1>4. next \in PC
  BY DEF PC
<1> QED
  BY <1>1, <1>2, <1>3, <1>4, StaysUnseen

LEMMA ComputeUnseen ==
  ASSUME BaseInv, Orderly, Fault \/ Launch
  PROVE  UNCHANGED Seen
<1>1. /\ run \in Pid /\ pc[run] \in {"user", "launch"}
      /\ pc' = [pc EXCEPT ![run] = "spin"] \/ pc' = [pc EXCEPT ![run] = "user"]
      /\ UNCHANGED <<run, terminal_process_index, prev_ESP, status, pid_arr>>
  BY RunnerTypes DEF Fault, Launch, Running, tables, links, local
<1>2. "spin" \in PC /\ "user" \in PC
  BY DEF PC
<1> QED
  BY <1>1, <1>2, StaysUnseen

(* The keyboard and an idle step.                                          *)
LEMMA SwitchUnseen ==
  ASSUME NEW t \in Terminal, SwitchTerminal(t) \/ UNCHANGED vars
  PROVE  UNCHANGED Seen
<1>1. UNCHANGED <<pc, run, terminal_process_index, prev_ESP, status, pid_arr,
                  halt_value>>
  BY DEF SwitchTerminal, vars, tables, links, local
<1>2. \A p \in Pid : Live(p)' <=> Live(p)
  BY <1>1 DEF Live
<1> QED
  BY <1>1, <1>2 DEF Seen, Alive, Top, OnTop, Caller, Exiting, Reply

LEMMA FinishSeen ==
  ASSUME BaseInv, Orderly, Finish
  PROVE  Session!Next
<1>1. /\ run \in Pid /\ run # NONE /\ pc[run] = "finish"
      /\ pc \in [Pid -> PC]
      /\ pc' = [pc EXCEPT ![run] = "user"]
      /\ UNCHANGED <<run, terminal_process_index, prev_ESP, status, pid_arr,
                     halt_value>>
  BY RunnerTypes DEF Finish, Running, tables, links, local
<1>2. halt_value # NONE
  BY StatusAssumption, SMT DEF BaseInv, TypeOK, NONE
<1>3. Alive' = Alive /\ Caller' = Caller /\ Exiting' = Exiting
  <2>1. \A p \in Pid : /\ Live(p)' <=> Live(p)
                       /\ pc'[p] \in HaltSteps <=> pc[p] \in HaltSteps
    BY <1>1 DEF Live, HaltSteps
  <2> QED
    BY <1>1, <2>1 DEF Alive, Caller, Exiting
<1>4. Top' = Top
  BY <1>1 DEF Top, OnTop
<1>5. Reply[run] # NONE /\ Reply' = [Reply EXCEPT ![run] = NONE]
  BY <1>1, <1>2 DEF Reply
<1> QED
  BY <1>1, <1>3, <1>4, <1>5, ReturnWords

LEMMA HaltSeen ==
  ASSUME BaseInv, Orderly, NEW st \in Status, Halt(st)
  PROVE  Session!Next
<1>1. /\ run \in Pid /\ run # NONE /\ pc[run] = "user"
      /\ terminal_process_index \in Terminal
      /\ pc \in [Pid -> PC]
      /\ pc' = [pc EXCEPT ![run] = "restore_paging"]
      /\ status' = [status EXCEPT ![run] = st]
      /\ UNCHANGED <<run, terminal_process_index, prev_ESP, pid_arr, halt_value>>
  BY RunnerTypes DEF Halt, Running, tables, links
<1>2. run >= NTerm
  <2>1. pid_arr[terminal_process_index] = run
    BY <1>1 DEF Orderly, RunnerOK, Popped
  <2> QED
    BY <2>1 DEF Halt
<1>3. status \in [Pid -> Status \cup {0}]
  BY DEF BaseInv, TypeOK
<1>4. Alive' = Alive /\ Caller' = Caller
  <2>1. \A p \in Pid : Live(p)' <=> Live(p)
    BY <1>1 DEF Live
  <2> QED
    BY <1>1, <2>1 DEF Alive, Caller
<1>5. Top' = Top /\ Top[terminal_process_index] = run
  BY <1>1 DEF Top, OnTop
<1>6. Exiting[run] = NONE /\ Exiting' = [Exiting EXCEPT ![run] = st]
  BY <1>1, <1>3 DEF Exiting, HaltSteps
<1>7. Reply[run] = NONE /\ Reply' = Reply
  BY <1>1 DEF Reply
<1> QED
  BY <1>1, <1>2, <1>4, <1>5, <1>6, <1>7, ExitWords

LEMMA JumpSeen ==
  ASSUME BaseInv, Orderly, Jump
  PROVE  Session!Next
<1> DEFINE w == parentid[run]
<1> DEFINE here == terminal_process_index
<1>1. /\ run \in Pid /\ pc[run] = "jump" /\ run >= NTerm
      /\ pc \in [Pid -> PC] /\ status \in [Pid -> Status \cup {0}]
      /\ w \in Pid /\ w # run /\ pc[w] = "waiting"
      /\ pc' = [pc EXCEPT ![run] = "none", ![w] = "finish"]
      /\ status' = [status EXCEPT ![run] = 0]
      /\ run' = w
  BY JumpFacts
<1>2. /\ here \in Terminal /\ run # NONE /\ Live(run)
      /\ halt_value = status[run] /\ prev_ESP[run] = w
      /\ w # NONE
  BY <1>1, RunnerTypes, TerminalInPid DEF Orderly, RunnerOK, CallerOK, Live
<1>3. UNCHANGED <<terminal_process_index, prev_ESP, pid_arr, halt_value>>
  BY DEF Jump, tables, links
<1>4. status[run] # NONE
  BY <1>1, StatusAssumption, SMT DEF NONE
<1> HIDE DEF w, here
<1>5. Alive' = Alive \ {run}
  BY <1>1 DEF Alive, Live
<1>6. Top[here] = run /\ Top' = [Top EXCEPT ![here] = w]
  BY <1>1, <1>2, <1>3 DEF Top, OnTop, here
<1>7. Caller[run] = w /\ Caller' = [Caller EXCEPT ![run] = NONE]
  BY <1>1, <1>2, <1>3 DEF Caller, Live
<1>8. Exiting[run] = status[run] /\ Exiting' = [Exiting EXCEPT ![run] = NONE]
  BY <1>1 DEF Exiting, HaltSteps
<1>9. Reply' = [Reply EXCEPT ![w] = status[run]]
  BY <1>1, <1>2, <1>3 DEF Reply
<1> QED
  BY <1>2, <1>4, <1>5, <1>6, <1>7, <1>8, <1>9, LeaveWords

LEMMA ExecuteSeen ==
  ASSUME BaseInv, Orderly, NEW prog \in Program, Execute(prog), Clean'
  PROVE  Session!Next
<1> DEFINE r == run
<1> DEFINE c == cur_terminal
<1>1. /\ r = run /\ r \in Pid /\ r # NONE /\ pc[r] = "user"
      /\ c = terminal_process_index /\ c \in Terminal /\ pid_arr[c] = r
      /\ UNCHANGED <<terminal_process_index, halt_value>>
      /\ pc \in [Pid -> PC]
      /\ pid_arr \in [Terminal -> Pid \cup {NONE}]
      /\ prev_ESP \in [Pid -> Pid \cup {NONE}]
      /\ NONE \notin Pid
  BY ExecuteFacts, TerminalInPid DEF BaseInv, TypeOK
<1>2. PICK p \in Pid :
        /\ ~Live(p) /\ p >= NTerm /\ p # r
        /\ LoadProgram(p, prog, c)
        /\ Place(p) = c
        /\ pc' = [pc EXCEPT ![r] = "waiting", ![p] = "launch"]
  BY ExecuteFacts
<1>3. /\ prev_ESP' = [prev_ESP EXCEPT ![p] = r]
      /\ pid_arr' = [pid_arr EXCEPT ![c] = p]
      /\ run' = p
  BY <1>1, <1>2 DEF LoadProgram
<1>4. UNCHANGED status
  BY DEF Execute, local
<1> HIDE DEF r, c
<1>5. p \notin Alive /\ Alive' = Alive \cup {p}
  BY <1>1, <1>2 DEF Alive, Live
<1>6. Top[c] = r /\ Top' = [Top EXCEPT ![c] = p]
  BY <1>1, <1>2, <1>3 DEF Top, OnTop
<1>7. Caller' = [Caller EXCEPT ![p] = r]
  BY <1>1, <1>2, <1>3 DEF Caller, Live
<1>8. Exiting[r] = NONE /\ Exiting' = Exiting
  BY <1>1, <1>2, <1>4 DEF Exiting, HaltSteps, Live
<1>9. Reply[r] = NONE /\ Reply' = Reply
  BY <1>1, <1>2 DEF Reply, Live
<1> QED
  BY <1>1, <1>2, <1>5, <1>6, <1>7, <1>8, <1>9, RunWords

(* The interrupted process is the one on top of its terminal.              *)
LEMMA TickTop ==
  ASSUME BaseInv, Orderly, Tick, Clean'
  PROVE  \A t \in Terminal : OnTop(t) = pid_arr[t]
<1> SUFFICES ASSUME run # NONE
             PROVE  pid_arr[terminal_process_index] = run
  BY DEF OnTop
<1>1. run \in Pid /\ Live(run) /\ pc[run] # "waiting"
      /\ home[run] = terminal_process_index
  BY RunnerTypes DEF Orderly, RunnerOK
<1> QED
  BY <1>1, TickSettled DEF Settled

LEMMA TickSeen ==
  ASSUME BaseInv, Orderly, Tick, Clean'
  PROVE  Session!Next \/ UNCHANGED Seen
<1>1. PICK i \in Terminal : /\ PitNext(i)
                            /\ terminal_process_index' = i
                            /\ StartShell(i) \/ Resume(i)
  BY DEF Tick
<1>2. Settled /\ \A t \in Terminal : OnTop(t) = pid_arr[t]
  BY TickSettled, TickTop
<1>3. /\ pc \in [Pid -> PC]
      /\ pid_arr \in [Terminal -> Pid \cup {NONE}]
      /\ NONE \notin Pid
  BY TerminalInPid DEF BaseInv, TypeOK
<1>4. CASE Resume(i)
  <2>1. /\ run' = pid_arr[i] /\ run' \in Pid
        /\ UNCHANGED <<pc, pid_arr, prev_ESP, status, halt_value>>
    <3>1. /\ pid_arr[i] \in Pid /\ run' = pid_arr[i]
          /\ UNCHANGED <<tables, links, halt_value, pc, local>>
      BY <1>2, <1>4, ResumeFacts
    <3> QED
      BY <3>1 DEF tables, links, local
  <2>2. \A p \in Pid : Live(p)' <=> Live(p)
    BY <2>1 DEF Live
  <2>3. Top' = Top
    BY <1>1, <1>2, <1>3, <2>1 DEF Top, OnTop
  <2> QED
    BY <2>1, <2>2, <2>3 DEF Seen, Alive, Caller, Exiting, Reply
<1>5. CASE StartShell(i)
  <2>1. /\ i \in Pid /\ i < NTerm /\ pid_arr[i] = NONE
        /\ \A q \in Pid : q >= NTerm => ~Live(q)
        /\ Free(i)
        /\ pc' = [pc EXCEPT ![i] = "launch"]
        /\ UNCHANGED <<halt_value, local>>
    BY <1>1, <1>5, StartShellFacts
  <2>2. LoadProgram(i, Shell, i) /\ Place(i) = i
    BY <1>1, <1>5, StartShellFacts
  <2>3. /\ pid_arr' = [pid_arr EXCEPT ![i] = i]
        /\ run' = i
        /\ UNCHANGED status
    BY <2>1, <2>2 DEF LoadProgram, local
  <2>4. ~Live(i)
    BY <1>2, <2>1 DEF Settled
  <2>5. Alive' = Alive \cup {i}
    BY <1>3, <2>1 DEF Alive, Live
  <2>6. Top[i] = NONE /\ Top' = [Top EXCEPT ![i] = i]
    BY <1>1, <1>2, <1>3, <2>1, <2>3 DEF Top, OnTop
  <2>7. Caller' = Caller
    <3>1. ~(i >= NTerm)
      BY <2>1, SizeAssumption, SMT DEF Pid
    <3>2. \A q \in Pid : q >= NTerm => ~Live(q)'
      BY <1>3, <2>1, <3>1 DEF Live
    <3> QED
      BY <2>1, <3>2 DEF Caller
  <2>8. Exiting' = Exiting /\ Reply' = Reply
    BY <1>3, <2>1, <2>3, <2>4 DEF Exiting, Reply, HaltSteps, Live
  <2> QED
    BY <2>5, <2>6, <2>7, <2>8, BootWords
<1> QED
  BY <1>1, <1>4, <1>5

LEMMA SessionStep ==
  BaseInv /\ CleanInv /\ [Next /\ Clean']_vars => [Session!Next]_(Session!vars)
<1> SUFFICES ASSUME BaseInv, CleanInv, [Next /\ Clean']_vars
             PROVE  Session!Next \/ UNCHANGED Seen
  BY SessionWords DEF Seen, Session!vars, Alive, Top, Caller, Exiting, Reply
<1>1. CASE UNCHANGED vars
  BY <1>1, SwitchUnseen, TerminalInPid
<1>2. CASE Next /\ Clean'
  <2>1. Orderly
    BY <1>2, CleanKept DEF CleanInv
  <2>2. CASE Tick
    BY <1>2, <2>1, <2>2, TickSeen
  <2>3. ASSUME NEW prog \in Program, Execute(prog)
        PROVE  Session!Next
    BY <1>2, <2>1, <2>3, ExecuteSeen
  <2>4. CASE Launch \/ Fault
    BY <2>1, <2>4, ComputeUnseen
  <2>5. ASSUME NEW st \in Status, Halt(st)
        PROVE  Session!Next
    BY <2>1, <2>5, HaltSeen
  <2>6. CASE RestorePaging \/ ClearShell \/ RestoreTss \/ FreePid \/ PopPid
               \/ SetValue
    BY <2>1, <2>6, HaltStepUnseen
  <2>7. CASE Jump
    BY <2>1, <2>7, JumpSeen
  <2>8. CASE Finish
    BY <2>1, <2>8, FinishSeen
  <2>9. ASSUME NEW t \in Terminal, SwitchTerminal(t)
        PROVE  UNCHANGED Seen
    BY <2>9, SwitchUnseen
  <2>10. CASE Hung
    BY <2>10, SwitchUnseen, TerminalInPid DEF Hung
  <2>11. ~ExecuteDamaged
    BY <1>2 DEF ExecuteDamaged, Clean
  <2> QED
    BY <1>2, <2>2, <2>3, <2>4, <2>5, <2>6, <2>7, <2>8, <2>9, <2>10, <2>11
    DEF Next, HaltMove
<1> QED
  BY <1>1, <1>2

(* In the runs without a hazard execute and halt keep the promise of       *)
(* Sessions: each terminal is a stack of processes, each caller hears the  *)
(* status of the process it executed, and the scheduler is not seen.       *)
THEOREM KernelImplementsSessions ==
  Init /\ [][Next /\ Clean']_vars => ImplementsSessions
<1>1. [Next /\ Clean']_vars => [Next]_vars
  OBVIOUS
<1>2. Init => Session!Init
  BY SessionInit
<1>3. BaseInv /\ CleanInv /\ [Next /\ Clean']_vars => [Session!Next]_(Session!vars)
  BY SessionStep
<1> QED
  BY <1>1, <1>2, <1>3, BaseInvariant, CleanInvariant, PTL
  DEF Spec, ImplementsSessions, Session!Spec

(* In particular the runs that the model checker explores.                 *)
THEOREM HazardFreeImplements == HazardFreeSpec => ImplementsSessions
<1>1. [Next /\ Clean' /\ OwnStatus']_vars => [Next /\ Clean']_vars
  OBVIOUS
<1> QED
  BY <1>1, KernelImplementsSessions, PTL DEF HazardFreeSpec

=============================================================================
