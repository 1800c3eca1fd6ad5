------------------------------ MODULE PicProofs ------------------------------
(***************************************************************************)
(* Theorems about Pic, for any number of terminals and any nesting of      *)
(* interrupts.                                                             *)
(***************************************************************************)
EXTENDS Pic, SequenceTheorems, TLAPS

-----------------------------------------------------------------------------
(* The inductive invariant.                                                *)

Instr == {<<op>> : op \in {"i8259_init", "cli", "sti", "popfl", "iret", "schedule"}}
           \cup {<<op, q>> : op \in {"eoi", "enable_irq"}, q \in Device}

(* What can be ahead of a thread: one line at most has still to be ended,  *)
(* before interrupts are enabled again, and pit_handler begins with the    *)
(* scheduler and ends the timer right after it.                            *)
Tidy(s) ==
  /\ s \in Seq(Instr)
  /\ \A j, k \in 1 .. Len(s) : s[j][1] = "eoi" /\ s[k][1] = "eoi" => j = k
  /\ \A j, k \in 1 .. Len(s) :
       s[j][1] \in {"sti", "iret"} /\ s[k][1] = "eoi" => k < j
  /\ \A k \in 1 .. Len(s) :
       s[k][1] = "schedule" => k = 1 /\ Len(s) >= 2 /\ s[2] = <<"eoi", PIT>>

Owes(s) == {q \in Device : \E k \in 1 .. Len(s) : s[k] = <<"eoi", q>>}

(* A thread that the scheduler has left still has to end a timer           *)
(* interrupt: that of the thread that the scheduler has taken instead.     *)
PicInv ==
  /\ run \in started \cup {Boot}
  /\ started \subseteq Thread
  /\ todo \in [Thread \cup {Boot} -> Seq(Instr)]
  /\ \A t \in Thread \cup {Boot} : Tidy(todo[t])
  /\ isr = UNION {Chain(q) : q \in Owes(todo[run])}
  /\ enabled \in BOOLEAN
  /\ enabled => Owes(todo[run]) = {}
  /\ \A t \in started \ {run} : Owes(todo[t]) = {PIT}
  /\ \A t \in Thread \ started : todo[t] = <<>>

LEMMA LineNumbers ==
  /\ PIT = 0 /\ KEYBOARD = 1 /\ CASCADE = 2 /\ RTC = 8 /\ MOUSE = 12
  /\ Device = {0, 1, 8, 12}
BY DEF PIT, KEYBOARD, CASCADE, RTC, MOUSE, Device

(* Only <<"eoi", q>> ends a line.                                          *)
LEMMA EoiInstr ==
  ASSUME NEW e \in Instr, e[1] = "eoi"
  PROVE  e[2] \in Device /\ e = <<"eoi", e[2]>>
BY DEF Instr

LEMMA OneOwed ==
  ASSUME NEW s, Tidy(s), NEW k \in 1 .. Len(s), NEW q \in Device,
         s[k] = <<"eoi", q>>
  PROVE  Owes(s) = {q}
BY DEF Tidy, Owes

LEMMA NoneOwed ==
  ASSUME NEW s, Tidy(s), Owes(s) = {}
  PROVE  \A k \in 1 .. Len(s) : s[k][1] \notin {"eoi", "schedule"}
<1>1. \A k \in 1 .. Len(s) : s[k] \in Instr
  BY DEF Tidy
<1>2. \A k \in 1 .. Len(s) : s[k][1] # "eoi"
  BY <1>1, EoiInstr DEF Owes
<1>3. ASSUME NEW k \in 1 .. Len(s), s[k][1] = "schedule"
      PROVE  FALSE
  <2>1. Len(s) >= 2 /\ s[2] = <<"eoi", PIT>> /\ Len(s) \in Nat
    BY <1>3, LenProperties DEF Tidy
  <2>2. 2 \in 1 .. Len(s)
    BY <2>1, SMT
  <2> QED
    BY <1>2, <2>1, <2>2
<1> QED
  BY <1>2, <1>3

(* A thread goes on with its next instruction.                             *)
LEMMA TailTidy ==
  ASSUME NEW s, Tidy(s), s # <<>>
  PROVE  /\ Tidy(Tail(s))
         /\ Head(s) \in Instr
         /\ Head(s)[1] # "eoi" => Owes(Tail(s)) = Owes(s)
         /\ Head(s)[1] = "eoi" => Owes(Tail(s)) = {} /\ Owes(s) = {Head(s)[2]}
         /\ Head(s)[1] = "schedule" => Owes(s) = {PIT}
         /\ Head(s)[1] \in {"sti", "iret"} => Owes(s) = {}
<1>1. /\ s \in Seq(Instr) /\ Len(s) \in Nat /\ Len(s) >= 1
      /\ Tail(s) \in Seq(Instr) /\ Head(s) = s[1] /\ Head(s) \in Instr
      /\ Len(Tail(s)) = Len(s) - 1
      /\ \A k \in 1 .. Len(Tail(s)) : k + 1 \in 1 .. Len(s) /\ Tail(s)[k] = s[k + 1]
  <2>1. s \in Seq(Instr)
    BY DEF Tidy
  <2> QED
    BY <2>1, HeadTailProperties, LenProperties, EmptySeq, ElementOfSeq, SMT
<1>2. Tidy(Tail(s))
  <2>1. \A j, k \in 1 .. Len(Tail(s)) :
          Tail(s)[j][1] = "eoi" /\ Tail(s)[k][1] = "eoi" => j = k
    <3> SUFFICES ASSUME NEW j \in 1 .. Len(Tail(s)), NEW k \in 1 .. Len(Tail(s)),
                        Tail(s)[j][1] = "eoi", Tail(s)[k][1] = "eoi"
                 PROVE  j = k
      OBVIOUS
    <3>1. j + 1 = k + 1
      BY <1>1 DEF Tidy
    <3> QED
      BY <3>1, <1>1
  <2>2. \A j, k \in 1 .. Len(Tail(s)) :
          Tail(s)[j][1] \in {"sti", "iret"} /\ Tail(s)[k][1] = "eoi" => k < j
    <3> SUFFICES ASSUME NEW j \in 1 .. Len(Tail(s)), NEW k \in 1 .. Len(Tail(s)),
                        Tail(s)[j][1] \in {"sti", "iret"}, Tail(s)[k][1] = "eoi"
                 PROVE  k < j
      OBVIOUS
    <3>1. k + 1 < j + 1
      BY <1>1 DEF Tidy
    <3> QED
      BY <3>1, <1>1
  <2>3. \A k \in 1 .. Len(Tail(s)) : Tail(s)[k][1] # "schedule"
    <3> SUFFICES ASSUME NEW k \in 1 .. Len(Tail(s)), Tail(s)[k][1] = "schedule"
                 PROVE  FALSE
      OBVIOUS
    <3>1. k + 1 = 1
      BY <1>1 DEF Tidy
    <3> QED
      BY <3>1, <1>1
  <2> QED
    BY <1>1, <2>1, <2>2, <2>3 DEF Tidy
<1>3. ASSUME Head(s)[1] # "eoi"
      PROVE  Owes(Tail(s)) = Owes(s)
  <2>1. ASSUME NEW q \in Device, NEW k \in 1 .. Len(s), s[k] = <<"eoi", q>>
        PROVE  k - 1 \in 1 .. Len(Tail(s)) /\ Tail(s)[k - 1] = <<"eoi", q>>
    <3>1. k # 1
      BY <1>1, <1>3, <2>1
    <3>2. k - 1 \in 1 .. Len(Tail(s)) /\ (k - 1) + 1 = k
      BY <1>1, <3>1
    <3> QED
      BY <1>1, <2>1, <3>2
  <2> QED
    BY <1>1, <2>1 DEF Owes
<1>4. ASSUME Head(s)[1] = "eoi"
      PROVE  Owes(Tail(s)) = {} /\ Owes(s) = {Head(s)[2]}
  <2>1. s[1] = <<"eoi", s[1][2]>> /\ s[1][2] \in Device /\ 1 \in 1 .. Len(s)
    BY <1>1, <1>4, EoiInstr
  <2>2. Owes(s) = {s[1][2]}
    BY <2>1, OneOwed
  <2>3. ASSUME NEW k \in 1 .. Len(Tail(s)), NEW q \in Device, Tail(s)[k] = <<"eoi", q>>
        PROVE  FALSE
    <3>1. k + 1 = 1
      BY <1>1, <2>1, <2>3 DEF Tidy
    <3> QED
      BY <3>1, <1>1
  <2> QED
    BY <1>1, <2>2, <2>3 DEF Owes
<1>5. ASSUME Head(s)[1] = "schedule"
      PROVE  Owes(s) = {PIT}
  <2>1. 1 \in 1 .. Len(s) /\ s[2] = <<"eoi", PIT>> /\ Len(s) >= 2
    BY <1>1, <1>5 DEF Tidy
  <2>2. 2 \in 1 .. Len(s) /\ PIT \in Device
    BY <1>1, <2>1, LineNumbers
  <2> QED
    BY <2>1, <2>2, OneOwed
<1>6. ASSUME Head(s)[1] \in {"sti", "iret"}
      PROVE  Owes(s) = {}
  <2> SUFFICES ASSUME NEW k \in 1 .. Len(s), s[k][1] = "eoi"
               PROVE  FALSE
    BY DEF Owes
  <2>1. k < 1
    BY <1>1, <1>6 DEF Tidy
  <2> QED
    BY <2>1, <1>1
<1> QED
  BY <1>1, <1>2, <1>3, <1>4, <1>5, <1>6

LEMMA TwoMore ==
  ASSUME NEW S, NEW s \in Seq(S), NEW c \in S, NEW d \in S, NEW r \in Seq(S),
         Len(r) = Len(s) + 2,
         \A k \in 1 .. Len(s) : r[k] = s[k],
         r[Len(s) + 1] = c, r[Len(s) + 2] = d
  PROVE  s \o <<c, d>> = r
<1> DEFINE both == s \o <<c, d>>
<1>1. <<c, d>> \in Seq(S) /\ Len(<<c, d>>) = 2 /\ Len(s) \in Nat
  BY LenProperties
<1>2. /\ both \in Seq(S) /\ Len(both) = Len(r)
      /\ \A k \in 1 .. Len(s) + 2 :
           both[k] = IF k <= Len(s) THEN s[k] ELSE <<c, d>>[k - Len(s)]
  BY <1>1, ConcatProperties
<1> HIDE DEF both
<1>3. \A k \in 1 .. Len(s) + 2 : both[k] = r[k]
  <2> TAKE k \in 1 .. Len(s) + 2
  <2>1. CASE k <= Len(s)
    BY <1>1, <1>2, <2>1
  <2>2. CASE k = Len(s) + 1
    <3>1. both[k] = <<c, d>>[1]
      BY <1>1, <1>2, <2>2
    <3> QED
      BY <2>2, <3>1
  <2>3. CASE k = Len(s) + 2
    <3>1. both[k] = <<c, d>>[2]
      BY <1>1, <1>2, <2>3
    <3> QED
      BY <2>3, <3>1
  <2> QED
    BY <1>1, <2>1, <2>2, <2>3
<1> QED
  BY <1>2, <1>3, SeqEqual DEF both

(* The handlers, as the IDT finds them.                                    *)
LEMMA Handlers ==
  /\ idt(Vector(PIT)) =
       <<<<"schedule">>, <<"eoi", PIT>>, <<"popfl">>, <<"iret">>>>
  /\ idt(Vector(KEYBOARD)) =
       <<<<"cli">>, <<"eoi", KEYBOARD>>, <<"sti">>, <<"popfl">>, <<"iret">>>>
  /\ idt(Vector(RTC)) = <<<<"eoi", RTC>>, <<"popfl">>, <<"iret">>>>
  /\ idt(Vector(MOUSE)) = <<<<"eoi", MOUSE>>, <<"popfl">>, <<"iret">>>>
<1>1. /\ Vector(PIT) = 32 /\ Vector(KEYBOARD) = 33
      /\ Vector(RTC) = 40 /\ Vector(MOUSE) = 44
  BY LineNumbers, SMT DEF Vector
<1>2. /\ idt(32) = <<<<"schedule">>, <<"eoi", PIT>>>> \o <<<<"popfl">>, <<"iret">>>>
      /\ idt(33) = <<<<"cli">>, <<"eoi", KEYBOARD>>, <<"sti">>>>
                     \o <<<<"popfl">>, <<"iret">>>>
      /\ idt(40) = <<<<"eoi", RTC>>>> \o <<<<"popfl">>, <<"iret">>>>
      /\ idt(44) = <<<<"eoi", MOUSE>>>> \o <<<<"popfl">>, <<"iret">>>>
  BY SMT DEF idt
<1>3. <<"popfl">> \in Instr /\ <<"iret">> \in Instr
  BY DEF Instr
<1>4. ASSUME NEW s \in Seq(Instr), NEW r \in Seq(Instr), Len(r) = Len(s) + 2,
             \A k \in 1 .. Len(s) : r[k] = s[k],
             r[Len(s) + 1] = <<"popfl">>, r[Len(s) + 2] = <<"iret">>
      PROVE  s \o <<<<"popfl">>, <<"iret">>>> = r
  BY <1>3, <1>4, TwoMore, Zenon
<1>5. idt(32) = <<<<"schedule">>, <<"eoi", PIT>>, <<"popfl">>, <<"iret">>>>
  BY <1>2, <1>4 DEF Instr, Device
<1>6. idt(33) = <<<<"cli">>, <<"eoi", KEYBOARD>>, <<"sti">>, <<"popfl">>, <<"iret">>>>
  BY <1>2, <1>4 DEF Instr, Device
<1>7. idt(40) = <<<<"eoi", RTC>>, <<"popfl">>, <<"iret">>>>
  <2> DEFINE s == <<<<"eoi", RTC>>>>
  <2> DEFINE r == <<<<"eoi", RTC>>, <<"popfl">>, <<"iret">>>>
  <2>1. s \in Seq(Instr) /\ r \in Seq(Instr)
    BY DEF Instr, Device
  <2>2. Len(s) = 1 /\ Len(r) = 3 /\ r[1] = s[1] /\ r[2] = <<"popfl">> /\ r[3] = <<"iret">>
    OBVIOUS
  <2> HIDE DEF s, r
  <2>3. /\ Len(r) = Len(s) + 2 /\ \A k \in 1 .. Len(s) : r[k] = s[k]
        /\ r[Len(s) + 1] = <<"popfl">> /\ r[Len(s) + 2] = <<"iret">>
    BY <2>2
  <2>4. s \o <<<<"popfl">>, <<"iret">>>> = r
    BY <1>4, <2>1, <2>3
  <2> QED
    BY <1>2, <2>4, Zenon DEF s, r
<1>8. idt(44) = <<<<"eoi", MOUSE>>, <<"popfl">>, <<"iret">>>>
  BY <1>2, <1>4 DEF Instr, Device
<1> QED
  BY <1>1, <1>5, <1>6, <1>7, <1>8

(* Every handler is tidy in itself.                                        *)
LEMMA HandlerTidy ==
  ASSUME NEW q \in Device
  PROVE  /\ Tidy(idt(Vector(q)))
         /\ \E k \in 1 .. Len(idt(Vector(q))) : idt(Vector(q))[k] = <<"eoi", q>>
<1>1. CASE q = PIT
  BY <1>1, Handlers, LineNumbers DEF Tidy, Instr
<1>2. CASE q = KEYBOARD
  BY <1>2, Handlers, LineNumbers DEF Tidy, Instr
<1>3. CASE q = RTC
  BY <1>3, Handlers, LineNumbers DEF Tidy, Instr
<1>4. CASE q = MOUSE
  BY <1>4, Handlers, LineNumbers DEF Tidy, Instr
<1> QED
  BY <1>1, <1>2, <1>3, <1>4 DEF Device

(* A handler comes before what it interrupts.                              *)
LEMMA InterruptTidy ==
  ASSUME NEW q \in Device, NEW s, Tidy(s), Owes(s) = {}
  PROVE  /\ Tidy(idt(Vector(q)) \o s)
         /\ Owes(idt(Vector(q)) \o s) = {q}
<1> DEFINE h == idt(Vector(q))
<1> DEFINE b == h \o s
<1>1. Tidy(h) /\ \E k \in 1 .. Len(h) : h[k] = <<"eoi", q>>
  BY HandlerTidy
<1>2. \A k \in 1 .. Len(s) : s[k][1] \notin {"eoi", "schedule"}
  BY NoneOwed
<1> HIDE DEF h
<1>3. h \in Seq(Instr) /\ s \in Seq(Instr) /\ Len(h) \in Nat /\ Len(s) \in Nat
  BY <1>1, LenProperties DEF Tidy
<1>4. /\ b \in Seq(Instr) /\ Len(b) = Len(h) + Len(s)
      /\ \A k \in 1 .. Len(h) + Len(s) : b[k] = IF k <= Len(h) THEN h[k]
                                                               ELSE s[k - Len(h)]
  BY <1>3, ConcatProperties
<1> HIDE DEF b
<1>5. \A k \in 1 .. Len(b) : \/ k \in 1 .. Len(h) /\ b[k] = h[k]
                             \/ /\ k > Len(h)
                                /\ b[k][1] \notin {"eoi", "schedule"}
  <2> TAKE k \in 1 .. Len(b)
  <2>1. CASE k <= Len(h)
    BY <1>3, <1>4, <2>1
  <2>2. CASE k > Len(h)
    <3>1. k - Len(h) \in 1 .. Len(s) /\ b[k] = s[k - Len(h)]
      BY <1>3, <1>4, <2>2
    <3> QED
      BY <1>2, <2>2, <3>1
  <2> QED
    BY <1>3, <2>1, <2>2
<1>6. Tidy(b)
  <2>1. \A j, k \in 1 .. Len(b) : b[j][1] = "eoi" /\ b[k][1] = "eoi" => j = k
    BY <1>1, <1>5 DEF Tidy
  <2>2. \A j, k \in 1 .. Len(b) :
          b[j][1] \in {"sti", "iret"} /\ b[k][1] = "eoi" => k < j
    <3> SUFFICES ASSUME NEW j \in 1 .. Len(b), NEW k \in 1 .. Len(b),
                        b[j][1] \in {"sti", "iret"}, b[k][1] = "eoi"
                 PROVE  k < j
      OBVIOUS
    <3>1. k \in 1 .. Len(h) /\ b[k] = h[k]
      BY <1>5
    <3>2. CASE j > Len(h)
      BY <3>1, <3>2, <1>3, <1>4
    <3>3. CASE j \in 1 .. Len(h) /\ b[j] = h[j]
      BY <3>1, <3>3, <1>1 DEF Tidy
    <3> QED
      BY <1>5, <3>2, <3>3
  <2>3. ASSUME NEW k \in 1 .. Len(b), b[k][1] = "schedule"
        PROVE  k = 1 /\ Len(b) >= 2 /\ b[2] = <<"eoi", PIT>>
    <3>1. k \in 1 .. Len(h) /\ h[k][1] = "schedule"
      BY <1>5, <2>3
    <3>2. k = 1 /\ Len(h) >= 2 /\ h[2] = <<"eoi", PIT>>
      BY <1>1, <3>1 DEF Tidy
    <3> QED
      BY <3>2, <1>3, <1>4
  <2> QED
    BY <1>4, <2>1, <2>2, <2>3 DEF Tidy
<1>7. Owes(b) = {q}
  <2>1. PICK k \in 1 .. Len(h) : h[k] = <<"eoi", q>>
    BY <1>1
  <2>2. k \in 1 .. Len(b) /\ b[k] = <<"eoi", q>>
    BY <1>3, <1>4, <2>1
  <2> QED
    BY <1>6, <2>2, OneOwed
<1> QED
  BY <1>6, <1>7 DEF b, h

LEMMA EntryTidy == Tidy(entry) /\ Owes(entry) = {}
BY LineNumbers DEF entry, Tidy, Owes, Instr

LEMMA IdleTidy == Tidy(<<>>) /\ Owes(<<>>) = {}
BY DEF Tidy, Owes

LEMMA SystemCallTidy ==
  Tidy(<<<<"cli">>, <<"sti">>>>) /\ Owes(<<<<"cli">>, <<"sti">>>>) = {}
BY DEF Tidy, Owes, Instr

-----------------------------------------------------------------------------
LEMMA PicInit == Init => PicInv
<1> SUFFICES ASSUME Init
             PROVE  PicInv
  OBVIOUS
<1> USE DEF Init
<1>1. \A t \in Thread \cup {Boot} : Tidy(todo[t]) /\ Owes(todo[t]) = {}
  BY EntryTidy, IdleTidy
<1>2. todo \in [Thread \cup {Boot} -> Seq(Instr)]
  BY EntryTidy, IdleTidy DEF Tidy
<1>3. \A t \in Thread \ started : todo[t] = <<>>
  BY PicAssumption
<1> QED
  BY <1>1, <1>2, <1>3 DEF PicInv

LEMMA OneChain == \A q : UNION {Chain(p) : p \in {q}} = Chain(q)
OBVIOUS

(* The running thread goes on; what it owes is what it owed, or nothing.   *)
LEMMA AdvanceFacts ==
  ASSUME PicInv, todo[run] # <<>>, Advance
  PROVE  /\ run \in Thread \cup {Boot}
         /\ todo' \in [Thread \cup {Boot} -> Seq(Instr)]
         /\ \A t \in Thread \cup {Boot} : Tidy(todo'[t])
         /\ \A t \in Thread \cup {Boot} : t # run => todo'[t] = todo[t]
         /\ Head(todo[run])[1] # "eoi" => Owes(todo'[run]) = Owes(todo[run])
         /\ Head(todo[run])[1] = "eoi" => /\ Owes(todo'[run]) = {}
                                          /\ Owes(todo[run]) = {Operand}
         /\ Head(todo[run])[1] = "schedule" => Owes(todo[run]) = {PIT}
         /\ Head(todo[run])[1] \in {"sti", "iret"} => Owes(todo[run]) = {}
<1>1. run \in Thread \cup {Boot} /\ Tidy(todo[run])
  BY DEF PicInv
<1>2. todo' = [todo EXCEPT ![run] = Tail(todo[run])]
  BY DEF Advance
<1>3. /\ Tidy(Tail(todo[run]))
      /\ Head(todo[run])[1] # "eoi" => Owes(Tail(todo[run])) = Owes(todo[run])
      /\ Head(todo[run])[1] = "eoi" =>
           Owes(Tail(todo[run])) = {} /\ Owes(todo[run]) = {Head(todo[run])[2]}
      /\ Head(todo[run])[1] = "schedule" => Owes(todo[run]) = {PIT}
      /\ Head(todo[run])[1] \in {"sti", "iret"} => Owes(todo[run]) = {}
  BY <1>1, TailTidy
<1>4. /\ todo'[run] = Tail(todo[run])
      /\ \A t \in Thread \cup {Boot} : t # run => todo'[t] = todo[t]
  BY <1>1, <1>2 DEF PicInv
<1>5. todo' \in [Thread \cup {Boot} -> Seq(Instr)]
  BY <1>2, <1>3 DEF PicInv, Tidy
<1> QED
  BY <1>1, <1>3, <1>4, <1>5 DEF PicInv, Operand

LEMMA PicStep == PicInv /\ [Next]_vars => PicInv'
<1> SUFFICES ASSUME PicInv, [Next]_vars
             PROVE  PicInv'
  OBVIOUS
<1>t. /\ run \in Thread \cup {Boot} /\ run \in started \cup {Boot}
      /\ started \subseteq Thread /\ Boot \notin started
      /\ todo \in [Thread \cup {Boot} -> Seq(Instr)]
  BY PicAssumption DEF PicInv
<1>1. CASE SetFlag
  <2>1. todo[run] # <<>> /\ Advance /\ UNCHANGED <<isr, run, started>>
    BY <1>1 DEF SetFlag, Fetch, controller
  <2>2. \/ Head(todo[run])[1] \in {"cli", "popfl"} /\ enabled' = FALSE
        \/ Head(todo[run])[1] \in {"sti", "iret"} /\ enabled' = TRUE
    BY <1>1 DEF SetFlag, Fetch
  <2> QED
    BY <1>t, <2>1, <2>2, AdvanceFacts DEF PicInv
<1>2. CASE i8259_init \/ enable_irq
  <2>1. /\ todo[run] # <<>> /\ Advance /\ UNCHANGED <<isr, enabled, run, started>>
        /\ Head(todo[run])[1] # "eoi"
    BY <1>2 DEF i8259_init, enable_irq, Fetch
  <2> QED
    BY <1>t, <2>1, AdvanceFacts DEF PicInv
<1>3. CASE send_eoi
  <2>1. /\ todo[run] # <<>> /\ Advance /\ UNCHANGED <<enabled, run, started>>
        /\ Head(todo[run])[1] = "eoi"
        /\ isr' = isr \ Chain(Operand)
    BY <1>3 DEF send_eoi, Fetch
  <2>2. Owes(todo'[run]) = {} /\ Owes(todo[run]) = {Operand}
    BY <2>1, AdvanceFacts
  <2>3. isr' = {}
    BY <2>1, <2>2, OneChain DEF PicInv
  <2> QED
    BY <1>t, <2>1, <2>2, <2>3, AdvanceFacts DEF PicInv
<1>4. CASE Alone
  <2>1. /\ todo[run] # <<>> /\ Advance /\ UNCHANGED <<isr, enabled, run, started>>
        /\ Head(todo[run])[1] # "eoi"
    BY <1>4 DEF Alone, Fetch, controller
  <2> QED
    BY <1>t, <2>1, AdvanceFacts DEF PicInv
<1>5. ASSUME NEW t \in Thread, Switch(t)
      PROVE  PicInv'
  <2>1. /\ todo[run] # <<>> /\ Advance /\ UNCHANGED <<isr, enabled, started>>
        /\ Head(todo[run])[1] = "schedule"
        /\ t # run /\ t \in started /\ run' = t
    BY <1>5 DEF Switch, Fetch, controller
  <2>2. /\ Owes(todo[run]) = {PIT} /\ Owes(todo'[run]) = {PIT}
        /\ todo'[t] = todo[t] /\ Owes(todo[t]) = {PIT}
    BY <1>t, <2>1, AdvanceFacts DEF PicInv
  <2>3. isr' = UNION {Chain(q) : q \in Owes(todo'[t])}
    BY <2>1, <2>2 DEF PicInv
  <2>4. enabled = FALSE
    BY <2>2 DEF PicInv
  <2>5. \A u \in started \ {t} : Owes(todo'[u]) = {PIT}
    BY <1>t, <2>1, <2>2, AdvanceFacts DEF PicInv
  <2>6. \A u \in Thread \ started : todo'[u] = <<>>
    BY <1>t, <2>1, AdvanceFacts DEF PicInv
  <2> QED
    BY <1>t, <2>1, <2>3, <2>4, <2>5, <2>6, AdvanceFacts DEF PicInv
<1>6. ASSUME NEW t \in Thread, StartShell(t)
      PROVE  PicInv'
  <2>1. /\ todo[run] # <<>> /\ Advance
        /\ Head(todo[run])[1] = "schedule"
        /\ t \notin started /\ started' = started \cup {t} /\ run' = t
        /\ isr' = isr \ Chain(PIT) /\ enabled' = TRUE
    BY <1>6 DEF StartShell, Fetch
  <2>2. t # run
    BY <1>t, <2>1, PicAssumption
  <2>3. /\ Owes(todo[run]) = {PIT} /\ Owes(todo'[run]) = {PIT}
        /\ todo'[t] = <<>> /\ Owes(todo'[t]) = {}
    BY <1>t, <2>1, <2>2, AdvanceFacts, IdleTidy DEF PicInv
  <2>4. isr' = {}
    BY <2>1, <2>3 DEF PicInv
  <2>5. \A u \in started' \ {t} : Owes(todo'[u]) = {PIT}
    BY <1>t, <2>1, <2>3, AdvanceFacts DEF PicInv
  <2>6. \A u \in Thread \ started' : todo'[u] = <<>>
    BY <1>t, <2>1, AdvanceFacts DEF PicInv
  <2> QED
    BY <1>t, <2>1, <2>3, <2>4, <2>5, <2>6, AdvanceFacts DEF PicInv
<1>7. CASE SystemCall
  <2>1. /\ todo[run] = <<>> /\ run # Boot
        /\ todo' = [todo EXCEPT ![run] = <<<<"cli">>, <<"sti">>>>]
        /\ UNCHANGED <<isr, enabled, run, started>>
    BY <1>7 DEF SystemCall, controller
  <2>2. run \in started
    BY <1>t, <2>1
  <2>3. /\ todo'[run] = <<<<"cli">>, <<"sti">>>>
        /\ \A t \in Thread \cup {Boot} : t # run => todo'[t] = todo[t]
    BY <1>t, <2>1
  <2>4. Owes(todo'[run]) = Owes(todo[run]) /\ Tidy(todo'[run])
    BY <2>1, <2>3, IdleTidy, SystemCallTidy
  <2>5. todo' \in [Thread \cup {Boot} -> Seq(Instr)]
    BY <1>t, <2>1, SystemCallTidy DEF Tidy
  <2> QED
    BY <1>t, <2>1, <2>2, <2>3, <2>4, <2>5 DEF PicInv
<1>8. ASSUME NEW q \in Device, Interrupt(q)
      PROVE  PicInv'
  <2>1. /\ enabled /\ isr' = isr \cup Chain(q)
        /\ enabled' = ~InterruptGate(Vector(q))
        /\ todo' = [todo EXCEPT ![run] = idt(Vector(q)) \o todo[run]]
        /\ UNCHANGED <<run, started>>
    BY <1>8 DEF Interrupt
  <2>2. Owes(todo[run]) = {} /\ Tidy(todo[run]) /\ isr = {}
    BY <1>t, <2>1 DEF PicInv
  <2>3. Tidy(idt(Vector(q)) \o todo[run]) /\ Owes(idt(Vector(q)) \o todo[run]) = {q}
    BY <2>2, InterruptTidy
  <2>4. /\ Tidy(todo'[run]) /\ Owes(todo'[run]) = {q}
        /\ \A t \in Thread \cup {Boot} : t # run => todo'[t] = todo[t]
    BY <1>t, <2>1, <2>3
  <2>5. todo' \in [Thread \cup {Boot} -> Seq(Instr)]
    BY <1>t, <2>1, <2>3 DEF Tidy
  <2>6. enabled' = FALSE
    <3>1. Vector(q) \in {32, 33, 40, 44}
      BY LineNumbers, SMT DEF Vector
    <3>2. InterruptGate(Vector(q))
      BY <3>1, SMT DEF InterruptGate
    <3> QED
      BY <2>1, <3>2
  <2>7. run # Boot => run \notin Thread \ started
    BY <1>t
  <2>8. \A t \in Thread \ started : todo'[t] = <<>>
    BY <1>t, <2>4, PicAssumption DEF PicInv
  <2>9. isr' = UNION {Chain(p) : p \in Owes(todo'[run])}
    BY <2>1, <2>2, <2>4, OneChain
  <2> QED
    BY <1>t, <2>1, <2>2, <2>4, <2>5, <2>6, <2>8, <2>9 DEF PicInv
<1>9. CASE (\E q \in Device : Raise(q)) \/ UNCHANGED vars
  <2>1. UNCHANGED <<isr, enabled, run, started, todo>>
    BY <1>9 DEF Raise, vars, controller
  <2> QED
    BY <2>1 DEF PicInv
<1> QED
  BY <1>1, <1>2, <1>3, <1>4, <1>5, <1>6, <1>7, <1>8, <1>9 DEF Next, Instruction

(* Every run keeps what is ahead of each thread in order.                  *)
THEOREM PicInvariant == Spec => []PicInv
<1> QED
  BY PicInit, PicStep, PTL DEF Spec

(* The controllers have in service exactly the line that the running       *)
(* thread has still to end, also when the scheduler has handed it the      *)
(* interrupt of another thread; and none while interrupts are enabled.     *)
THEOREM ServiceAlwaysMatches == Spec => []ServiceMatches
<1>1. PicInv => ServiceMatches
  <2> SUFFICES ASSUME PicInv
               PROVE  ServiceMatches
    OBVIOUS
  <2>1. Owed(run) = Owes(todo[run])
    BY LenProperties DEF PicInv, Owed, Owes, Tidy
  <2> QED
    BY <2>1 DEF PicInv, ServiceMatches
<1> QED
  BY <1>1, PicInvariant, PTL

=============================================================================
