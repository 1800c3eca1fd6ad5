--------------------------------- MODULE Rtc ---------------------------------
(***************************************************************************)
(* The RTC driver of rtc.c and the processes that use it.  Its variables   *)
(* are global and there is one clock: nothing is kept for each process.    *)
(*                                                                         *)
(* System calls run with interrupts enabled, so that a process may lose    *)
(* the processor between any two steps below.  rtc_change_rate runs under  *)
(* cli(), rtc_handler through an interrupt gate: each is one step.         *)
(***************************************************************************)
EXTENDS Integers

CONSTANTS Process,     \* the processes that use the RTC
          Frequency    \* the values they pass to write

ASSUME FrequencyAssumption == Frequency \subseteq Nat

MAX_FREQ == 1024

VARIABLES
  rtc_interrupt,   \* set by the handler, cleared by rtc_read
  rate,            \* bits 0 to 3 of register A
  irqf,            \* register C, not read since the last period elapsed
  pending,         \* the interrupt controller has an edge of IRQ 8 to deliver
  pc,              \* "user", "change_rate" or, in rtc_read's loop, "polling"
  opened,          \* who holds an rtc descriptor
  new_rate,        \* the argument of a pending rtc_change_rate
  asked,           \* the last frequency a process asked for, 0 for none
  since,           \* readers with a handled interrupt since their reset
  disturbed        \* readers that saw another reset since their own

hardware == <<rate, irqf, pending>>
ghosts == <<asked, since, disturbed>>
vars == <<rtc_interrupt, hardware, pc, opened, new_rate, ghosts>>

(* The number of times rtc_write's loop halves d before it reaches zero. *)
halvings[d \in Nat] == IF d < 1 THEN 0 ELSE 1 + halvings[d \div 2]

RateOfOneMore(f) == halvings[32768 \div f] + 1
RateOf(f) == halvings[32768 \div f]

(* The data sheet's rates 3 to 15; rate 0 turns the interrupt off. *)
HardwareFrequency(r) == IF r = 0 THEN 0 ELSE 32768 \div (2 ^ (r - 1))

Init ==
  /\ rtc_interrupt = 0
  /\ rate = 6
  /\ irqf = FALSE
  /\ pending = FALSE
  /\ pc = [p \in Process |-> "user"]
  /\ opened = {}
  /\ new_rate = [p \in Process |-> 0]
  /\ asked = [p \in Process |-> 0]
  /\ since = {}
  /\ disturbed = {}

-----------------------------------------------------------------------------
(* A period elapses.  The line rises, unless it is still up because nobody *)
(* has read register C, and only a rising edge interrupts.                 *)
Elapse ==
  /\ rate # 0
  /\ ~irqf
  /\ irqf' = TRUE
  /\ pending' = TRUE
  /\ UNCHANGED <<rtc_interrupt, rate, pc, opened, new_rate, ghosts>>

Polling == {p \in Process : pc[p] = "polling"}

HandlerKeepsC ==
  /\ pending
  /\ pending' = FALSE
  /\ rtc_interrupt' = 1
  /\ since' = since \cup Polling
  /\ UNCHANGED <<rate, irqf, pc, opened, new_rate, asked, disturbed>>

(* rtc_handler reads register C, which lowers the line. *)
Handler ==
  /\ pending
  /\ pending' = FALSE
  /\ irqf' = FALSE
  /\ rtc_interrupt' = 1
  /\ since' = since \cup Polling
  /\ UNCHANGED <<rate, pc, opened, new_rate, asked, disturbed>>

-----------------------------------------------------------------------------
(* The driver's system calls *)

(* rtc_frequency is written here and in Write, and never read. *)
Open(p) ==
  /\ pc[p] = "user"
  /\ opened' = opened \cup {p}
  /\ asked' = [asked EXCEPT ![p] = 2]
  /\ new_rate' = [new_rate EXCEPT ![p] = 15]
  /\ pc' = [pc EXCEPT ![p] = "change_rate"]
  /\ UNCHANGED <<rtc_interrupt, hardware, since, disturbed>>

(* A frequency out of bounds is refused, and nothing changes. *)
Write(p, f) ==
  /\ pc[p] = "user"
  /\ p \in opened
  /\ f > 0
  /\ f <= MAX_FREQ
  /\ asked' = [asked EXCEPT ![p] = f]
  /\ new_rate' = [new_rate EXCEPT ![p] = RateOf(f)]
  /\ pc' = [pc EXCEPT ![p] = "change_rate"]
  /\ UNCHANGED <<rtc_interrupt, hardware, opened, since, disturbed>>

ChangeRate(p) ==
  /\ pc[p] = "change_rate"
  /\ rate' = new_rate[p] % 16
  /\ pc' = [pc EXCEPT ![p] = "user"]
  /\ UNCHANGED <<rtc_interrupt, irqf, pending, opened, new_rate, ghosts>>

ReadKeepsFlag(p) ==
  /\ pc[p] = "user"
  /\ p \in opened
  /\ pc' = [pc EXCEPT ![p] = "polling"]
  /\ since' = since \ {p}
  /\ disturbed' = (disturbed \cup Polling) \ {p}
  /\ UNCHANGED <<rtc_interrupt, hardware, opened, new_rate, asked>>

Read(p) ==
  /\ pc[p] = "user"
  /\ p \in opened
  /\ rtc_interrupt' = 0
  /\ pc' = [pc EXCEPT ![p] = "polling"]
  /\ since' = since \ {p}
  /\ disturbed' = (disturbed \cup Polling) \ {p}
  /\ UNCHANGED <<hardware, opened, new_rate, asked>>

(* The loop of rtc_read finds the flag set. *)
Poll(p) ==
  /\ pc[p] = "polling"
  /\ rtc_interrupt = 1
  /\ pc' = [pc EXCEPT ![p] = "user"]
  /\ UNCHANGED <<rtc_interrupt, hardware, opened, new_rate, ghosts>>

CloseClearsFlag(p) ==
  /\ pc[p] = "user"
  /\ p \in opened
  /\ opened' = opened \ {p}
  /\ asked' = [asked EXCEPT ![p] = 0]
  /\ rtc_interrupt' = 0
  /\ UNCHANGED <<hardware, pc, new_rate, since, disturbed>>

(* rtc_close resets rtc_counter and rtc_frequency, which no system call    *)
(* reads: the clock and the flag stay as they are.                         *)
Close(p) ==
  /\ pc[p] = "user"
  /\ p \in opened
  /\ opened' = opened \ {p}
  /\ asked' = [asked EXCEPT ![p] = 0]
  /\ UNCHANGED <<rtc_interrupt, hardware, pc, new_rate, since, disturbed>>

Use(p) == \/ Open(p) \/ ChangeRate(p) \/ Read(p) \/ Poll(p) \/ Close(p)
          \/ \E f \in Frequency : Write(p, f)

Next == Elapse \/ Handler \/ \E p \in Process : Use(p)

Spec == Init /\ [][Next]_vars

(* A running clock ticks, interrupts are taken, and every process that     *)
(* polls gets the processor again and again.                               *)
FairSpec == /\ Spec
            /\ WF_vars(Elapse)
            /\ WF_vars(Handler)
            /\ \A p \in Process : WF_vars(Poll(p)) /\ WF_vars(ChangeRate(p))

-----------------------------------------------------------------------------
(* Properties *)

TypeOK ==
  /\ rtc_interrupt \in {0, 1}
  /\ rate \in 0 .. 15
  /\ irqf \in BOOLEAN
  /\ pending \in BOOLEAN
  /\ pc \in [Process -> {"user", "change_rate", "polling"}]
  /\ opened \in SUBSET Process
  /\ new_rate \in [Process -> 0 .. 16]
  /\ asked \in [Process -> 0 .. MAX_FREQ]
  /\ since \in SUBSET Process
  /\ disturbed \in SUBSET Process

(* rtc_read never returns before an interrupt has been handled that came   *)
(* after the read began, whatever other processes do to the flag.          *)
NoEarlyReturn ==
  [][\A p \in Process : p \in Polling /\ p \notin Polling' => p \in since]_vars

(* As long as no other process starts a read, an interrupt is not lost: a  *)
(* reader that has had one finds the flag set, also if it was preempted.   *)
UndisturbedKeepsFlag ==
  \A p \in Polling : p \in since /\ p \notin disturbed => rtc_interrupt = 1

(* A reader returns, if the clock stays on and the other processes do not  *)
(* read any more.                                                          *)
UndisturbedReadReturns ==
  \A p \in Process :
    <>[](rate # 0 /\ Polling \subseteq {p}) => []<>(p \notin Polling)

(* Whoever asks for one of the powers of two that the header of rtc_write  *)
(* allows gets exactly that frequency from the clock, the loop that counts *)
(* the rate and its cut to four bits included; 1 is not among them.        *)
RateServesFrequency ==
  \A p \in Process : \A k \in 1 .. 10 :
    pc[p] = "change_rate" /\ asked[p] = 2 ^ k =>
      HardwareFrequency(new_rate[p] % 16) = 2 ^ k
=============================================================================
