------------------------------ MODULE Sessions ------------------------------
(***************************************************************************)
(* What execute and halt promise.  Every terminal is a session: a stack of *)
(* processes of which only the top one computes.  The others wait, each    *)
(* for the process above it, and receive the status with which that        *)
(* process exits.  There is no scheduler, page directory or kernel stack   *)
(* here: a process runs in its own memory by definition.                   *)
(***************************************************************************)
EXTENDS Integers

CONSTANTS NTerm, NPid, Status

NONE == -1
Terminal == 0 .. NTerm - 1
Pid == 0 .. NPid - 1

VARIABLES alive,     \* the pids in use
          top,       \* the process on top of each terminal
          caller,    \* the process that executed another one
          exiting,   \* the status of a process that has called halt
          reply      \* the status that execute is about to return

vars == <<alive, top, caller, exiting, reply>>

Init ==
  /\ alive = {}
  /\ top = [t \in Terminal |-> NONE]
  /\ caller = [p \in Pid |-> NONE]
  /\ exiting = [p \in Pid |-> NONE]
  /\ reply = [p \in Pid |-> NONE]

(* p computes: it is on top of t and in no execute or halt. *)
Active(t, p) == top[t] = p /\ p # NONE /\ exiting[p] = NONE /\ reply[p] = NONE

(* The first shell of a terminal has the terminal's number for a pid. *)
Boot(t) ==
  /\ top[t] = NONE
  /\ alive' = alive \cup {t}
  /\ top' = [top EXCEPT ![t] = t]
  /\ UNCHANGED <<caller, exiting, reply>>

Run(t, p) ==
  /\ p >= NTerm
  /\ p \notin alive
  /\ Active(t, top[t])
  /\ alive' = alive \cup {p}
  /\ top' = [top EXCEPT ![t] = p]
  /\ caller' = [caller EXCEPT ![p] = top[t]]
  /\ UNCHANGED <<exiting, reply>>

Exit(t, st) ==
  /\ Active(t, top[t])
  /\ top[t] >= NTerm
  /\ exiting' = [exiting EXCEPT ![top[t]] = st]
  /\ UNCHANGED <<alive, top, caller, reply>>

(* The process on top of t leaves, and its caller gets its status. *)
Leave(t) ==
  LET p == top[t] IN
    /\ p # NONE
    /\ exiting[p] # NONE
    /\ alive' = alive \ {p}
    /\ top' = [top EXCEPT ![t] = caller[p]]
    /\ caller' = [caller EXCEPT ![p] = NONE]
    /\ exiting' = [exiting EXCEPT ![p] = NONE]
    /\ reply' = [reply EXCEPT ![caller[p]] = exiting[p]]

Return(p) ==
  /\ reply[p] # NONE
  /\ reply' = [reply EXCEPT ![p] = NONE]
  /\ UNCHANGED <<alive, top, caller, exiting>>

Next ==
  \/ \E t \in Terminal : Boot(t) \/ Leave(t)
  \/ \E t \in Terminal, p \in Pid : Run(t, p)
  \/ \E t \in Terminal, st \in Status : Exit(t, st)
  \/ \E p \in Pid : Return(p)

Spec == Init /\ [][Next]_vars

=============================================================================
