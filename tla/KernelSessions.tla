--------------------------- MODULE KernelSessions ---------------------------
(***************************************************************************)
(* Kernel implements Sessions as long as none of the hazards happens.      *)
(***************************************************************************)
EXTENDS Kernel

(* The process that a terminal shows to be running: a process that halts   *)
(* keeps its place until its caller has the processor.                     *)
OnTop(t) == IF run # NONE /\ t = terminal_process_index THEN run
                                                        ELSE pid_arr[t]

Session ==
  INSTANCE Sessions WITH
    alive   <- {p \in Pid : Live(p)},
    top     <- [t \in Terminal |-> OnTop(t)],
    caller  <- [p \in Pid |-> IF Live(p) /\ p >= NTerm THEN prev_ESP[p]
                                                       ELSE NONE],
    exiting <- [p \in Pid |-> IF pc[p] \in HaltSteps THEN status[p] ELSE NONE],
    reply   <- [p \in Pid |-> IF pc[p] = "finish" THEN halt_value ELSE NONE]

(* A bound: the programs of each terminal pass a status of their own to    *)
(* halt, so that what one returns is never taken for what another does.    *)
OwnStatus ==
  \A p \in Pid : pc[p] \in HaltSteps => status[p] = 1 + (home[p] % 2)

(* The runs in which no hazard happens. *)
HazardFreeSpec ==
  Init /\ [][Next /\ Clean' /\ OwnStatus']_vars /\ WF_vars(Tick)

ImplementsSessions == Session!Spec
=============================================================================
