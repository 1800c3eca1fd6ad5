--------------------------- MODULE MCTerminalLine ---------------------------
(***************************************************************************)
(* TerminalLine for TLC: what a comment says of the size of a read.        *)
(***************************************************************************)
EXTENDS TerminalLine

(* read copies at most nbytes, the "# of bytes to be written"              *)
(* (terminal.c:49).                                                        *)
ReadWithinBuffer == pc = "reset_buf" /\ clean => i < nbytes
=============================================================================
