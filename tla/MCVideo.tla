------------------------------- MODULE MCVideo -------------------------------
(***************************************************************************)
(* Video for TLC: what a comment says of the page after a switch.          *)
(***************************************************************************)
EXTENDS Video

(* switch_terminal: "if the current scheduled process's terminal is        *)
(* different than the one we switched to, change the video memory paging   *)
(* to the scheduled process's terminal buffer" (terminal.c:218).           *)
SwitchRemaps ==
  [][cur_terminal' # cur_terminal /\ run # cur_terminal' =>
       pte' = TERM(run)]_vars
=============================================================================
