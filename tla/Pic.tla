--------------------------------- MODULE Pic ---------------------------------
(***************************************************************************)
(* The interrupt controllers as i8259.c sets them up, the path of an       *)
(* interrupt through the IDT, the handlers' acknowledgements, the boot     *)
(* that enables all this, and the context switch inside pit_handler, which *)
(* leaves one thread's interrupt to be ended by another.                   *)
(*                                                                         *)
(* A thread is seen as the instructions ahead of it that concern           *)
(* interrupts: a handler comes before what it interrupts, a thread without *)
(* any is in user mode or idle.  What the handlers do to their devices is  *)
(* in the other modules, which terminal is scheduled in Kernel.            *)
(***************************************************************************)
EXTENDS Integers, Sequences, FiniteSets

CONSTANTS Thread,   \* one for each terminal
          Boot,     \* entry, which no terminal runs
          Depth     \* a bound: how far interrupts nest

ASSUME PicAssumption == Boot \notin Thread

PIT == 0
KEYBOARD == 1
CASCADE == 2
RTC == 8
MOUSE == 12
Device == {PIT, KEYBOARD, RTC, MOUSE}
Lines == Device \cup {CASCADE}

VARIABLES
  imr, irr, isr,   \* the lines that are masked, ask, and are in service
  enabled,         \* the processor's interrupt flag
  run,             \* the thread it runs
  started,         \* the terminals that have their shell
  todo             \* the instructions ahead of each thread

controller == <<imr, irr, isr>>
vars == <<controller, enabled, run, started, todo>>

-----------------------------------------------------------------------------
(* The IDT: the slave's vectors follow the master's, so that a line has    *)
(* the vector 32 + its number.                                             *)

Vector(q) == IF q < 8 THEN 32 + q ELSE 40 + (q - 8)

InterruptGate(v) == ~(v < 32 \/ v = 128)

(* A handler with its linkage.  keyboard_handler leaves with interrupts    *)
(* enabled, up to the linkage's popfl.                                     *)
idt(v) ==
  LET return == <<<<"popfl">>, <<"iret">>>> IN
  CASE v = 32 -> <<<<"schedule">>, <<"eoi", PIT>>>> \o return
    [] v = 33 -> <<<<"cli">>, <<"eoi", KEYBOARD>>, <<"sti">>>> \o return
    [] v = 40 -> <<<<"eoi", RTC>>>> \o return
    [] v = 44 -> <<<<"eoi", MOUSE>>>> \o return

(* entry: rtc_change_rate inside rtc_init is the first to enable           *)
(* interrupts, before the other devices are set up.                        *)
entry ==
  <<<<"i8259_init">>,
    <<"cli">>, <<"sti">>, <<"enable_irq", RTC>>,     \* rtc_init
    <<"enable_irq", KEYBOARD>>,                      \* terminal_init
    <<"enable_irq", MOUSE>>,                         \* mouse_init
    <<"sti">>,
    <<"cli">>, <<"sti">>, <<"enable_irq", PIT>>>>    \* pit_init

Init ==
  /\ imr = {}
  /\ irr = {}
  /\ isr = {}
  /\ enabled = FALSE
  /\ run = Boot
  /\ started = {}
  /\ todo = [t \in Thread \cup {Boot} |-> IF t = Boot THEN entry ELSE <<>>]

-----------------------------------------------------------------------------
(* The hardware.  The lines in use have the order of their priorities, and *)
(* one in service blocks itself and the lesser ones; a line of the slave   *)
(* comes with the master's cascade.                                        *)

Chain(q) == {q} \cup (IF q >= 8 THEN {CASCADE} ELSE {})

(* The handlers that are under way on the running thread. *)
Nesting == Cardinality({k \in DOMAIN todo[run] : todo[run][k] = <<"iret">>})

Raise(q) ==
  /\ q \notin irr
  /\ Nesting < Depth
  /\ irr' = irr \cup {q}
  /\ UNCHANGED <<imr, isr, enabled, run, started, todo>>

Passes(q) == Chain(q) \cap imr = {} /\ \A s \in isr : q < s

Interrupt(q) ==
  /\ enabled
  /\ q \in irr /\ Passes(q)
  /\ \A r \in irr : r < q => ~Passes(r)
  /\ irr' = irr \ {q}
  /\ isr' = isr \cup Chain(q)
  /\ enabled' = ~InterruptGate(Vector(q))
  /\ todo' = [todo EXCEPT ![run] = idt(Vector(q)) \o @]
  /\ UNCHANGED <<imr, run, started>>

-----------------------------------------------------------------------------
(* Instructions *)

Fetch(op) == todo[run] # <<>> /\ Head(todo[run])[1] = op
Operand == Head(todo[run])[2]
Advance == todo' = [todo EXCEPT ![run] = Tail(@)]

(* cli, sti, and the flags the linkage has pushed or the processor: no     *)
(* handler begins with interrupts enabled, and none interrupts code that   *)
(* has them disabled.                                                      *)
SetFlag ==
  /\ \/ (Fetch("cli") \/ Fetch("popfl")) /\ enabled' = FALSE
     \/ (Fetch("sti") \/ Fetch("iret")) /\ enabled' = TRUE
  /\ Advance
  /\ UNCHANGED <<controller, run, started>>

(* Mutant of i8259_init: the slave's line stays masked. *)
InitWithoutCascade ==
  /\ Fetch("i8259_init")
  /\ imr' = Lines
  /\ Advance
  /\ UNCHANGED <<irr, isr, enabled, run, started>>

(* It masks all lines and enables the one of the slave. *)
i8259_init ==
  /\ Fetch("i8259_init")
  /\ imr' = Lines \ {CASCADE}
  /\ Advance
  /\ UNCHANGED <<irr, isr, enabled, run, started>>

enable_irq ==
  /\ Fetch("enable_irq")
  /\ imr' = imr \ {Operand}
  /\ Advance
  /\ UNCHANGED <<irr, isr, enabled, run, started>>

(* A line of the slave is acknowledged to both controllers. *)
send_eoi ==
  /\ Fetch("eoi")
  /\ isr' = isr \ Chain(Operand)
  /\ Advance
  /\ UNCHANGED <<imr, irr, enabled, run, started>>

(* pit_handler finds nobody else to run. *)
Alone ==
  /\ Fetch("schedule")
  /\ started = Thread
  /\ Advance
  /\ UNCHANGED <<controller, enabled, run, started>>

(* schedule takes the other's stack and returns into its pit_handler. *)
Switch(t) ==
  /\ Fetch("schedule")
  /\ t # run /\ t \in started
  /\ run' = t
  /\ Advance
  /\ UNCHANGED <<controller, enabled, started>>

(* Mutant of StartShell: no acknowledgement before the shell. *)
StartShellUnended(t) ==
  /\ Fetch("schedule")
  /\ t \notin started
  /\ started' = started \cup {t}
  /\ run' = t
  /\ enabled' = TRUE
  /\ Advance
  /\ UNCHANGED controller

(* It starts a shell, whose user code no handler has interrupted: the      *)
(* timer is acknowledged here, and execute enters the shell by an iret.    *)
StartShell(t) ==
  /\ Fetch("schedule")
  /\ t \notin started
  /\ started' = started \cup {t}
  /\ run' = t
  /\ isr' = isr \ Chain(PIT)
  /\ enabled' = TRUE
  /\ Advance
  /\ UNCHANGED <<imr, irr>>

(* terminal_write and rtc_change_rate, execute up to its iret. *)
SystemCall ==
  /\ todo[run] = <<>>
  /\ run # Boot
  /\ todo' = [todo EXCEPT ![run] = <<<<"cli">>, <<"sti">>>>]
  /\ UNCHANGED <<controller, enabled, run, started>>

Instruction ==
  \/ SetFlag \/ i8259_init \/ enable_irq \/ send_eoi
  \/ Alone
  \/ \E t \in Thread : Switch(t) \/ StartShell(t)

Next == Instruction \/ SystemCall \/ \E q \in Device : Raise(q) \/ Interrupt(q)

Spec == Init /\ [][Next]_vars

(* The processor goes on, takes an interrupt that it may take before its   *)
(* next instruction, and the devices, the fastest of which asks 1024 times *)
(* a second, leave time for what their handlers interrupt, be it a handler *)
(* itself.                                                                 *)
FairSpec ==
  /\ Spec
  /\ WF_vars(Instruction)
  /\ \A n \in 0 .. Depth : SF_vars(Nesting = n /\ Instruction)
  /\ \A q \in Device : SF_vars(Interrupt(q))

-----------------------------------------------------------------------------
(* Properties *)

Owed(t) ==
  {q \in Device : \E k \in DOMAIN todo[t] : todo[t][k] = <<"eoi", q>>}

(* The controllers hold in service what the running thread still has to    *)
(* end, although what it ends may be an interrupt of another thread; and   *)
(* nothing is in service whenever interrupts are enabled, so that nobody   *)
(* runs with a line blocked.                                               *)
ServiceMatches ==
  /\ isr = UNION {Chain(q) : q \in Owed(run)}
  /\ enabled => isr = {}

(* A request waits only while more urgent ones come again and again; the   *)
(* timer never waits for good.                                             *)
RequestsServed ==
  \A q \in Device : <>[](q \in irr) => []<>(\E r \in irr : r < q)
=============================================================================
