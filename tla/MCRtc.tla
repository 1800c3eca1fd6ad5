-------------------------------- MODULE MCRtc --------------------------------
(***************************************************************************)
(* Rtc for TLC: the frequencies, and what a comment says of reads.         *)
(***************************************************************************)
EXTENDS Rtc

(* The powers of two that write accepts, their neighbours, and values it   *)
(* refuses at both ends.                                                   *)
EdgeFrequencies == UNION {2 ^ k - 1 .. 2 ^ k + 1 : k \in {0, 1, 5, 9, 10}}

(* rtc_read "blocks until the next RTC interrupt occurs" (rtc.c:65): once  *)
(* an interrupt has come since the read began, the loop sees it.           *)
NextInterruptWakes == \A p \in Polling : p \in since => rtc_interrupt = 1
=============================================================================
