------------------------------ MODULE RtcProofs ------------------------------
(***************************************************************************)
(* Theorems about Rtc, for any set of processes and of frequencies.        *)
(***************************************************************************)
EXTENDS Rtc, WellFoundedInduction, TLAPS

-----------------------------------------------------------------------------
(* The flag is set by the handler only, which every reader then knows of,  *)
(* and a reader that begins clears it.                                     *)
FlagIsNews == rtc_interrupt = 1 => Polling \subseteq since

ReadersOK == /\ rtc_interrupt \in {0, 1}
             /\ pc \in [Process -> {"user", "change_rate", "polling"}]

FlagInv == ReadersOK /\ FlagIsNews /\ UndisturbedKeepsFlag

LEMMA FlagInit == Init => FlagInv
BY DEF Init, FlagInv, ReadersOK, FlagIsNews, UndisturbedKeepsFlag, Polling

LEMMA FlagStep == FlagInv /\ [Next]_vars => FlagInv'
<1> SUFFICES ASSUME FlagInv, [Next]_vars
             PROVE  FlagInv'
  OBVIOUS
<1> USE DEF FlagInv, ReadersOK
<1>1. CASE Elapse
  BY <1>1 DEF Elapse, ghosts, FlagIsNews, UndisturbedKeepsFlag, Polling
<1>2. CASE Handler
  BY <1>2 DEF Handler, FlagIsNews, UndisturbedKeepsFlag, Polling
<1>3. ASSUME NEW p \in Process, Read(p)
      PROVE  FlagInv'
  <2>1. ReadersOK' /\ rtc_interrupt' = 0
    BY <1>3 DEF Read
  <2>2. \A q \in Polling' : q \in disturbed' \/ q \notin since'
    BY <1>3 DEF Read, Polling
  <2> QED
    BY <2>1, <2>2 DEF FlagIsNews, UndisturbedKeepsFlag
<1>4. ASSUME NEW p \in Process, Poll(p)
      PROVE  FlagInv'
  <2>1. ReadersOK' /\ UNCHANGED <<rtc_interrupt, since, disturbed>>
    BY <1>4 DEF Poll, ghosts
  <2>2. Polling' \subseteq Polling
    BY <1>4 DEF Poll, Polling
  <2> QED
    BY <2>1, <2>2 DEF FlagIsNews, UndisturbedKeepsFlag
(* The calls that neither begin nor end a read. *)
<1>5. ASSUME NEW p \in Process,
             Open(p) \/ ChangeRate(p) \/ Close(p) \/ \E f \in Frequency : Write(p, f)
      PROVE  FlagInv'
  <2>1. UNCHANGED <<rtc_interrupt, since, disturbed>>
    BY <1>5 DEF Open, ChangeRate, Close, Write, ghosts
  <2>2. ReadersOK' /\ Polling' \subseteq Polling
    BY <1>5 DEF Open, ChangeRate, Close, Write, Polling
  <2> QED
    BY <2>1, <2>2 DEF FlagIsNews, UndisturbedKeepsFlag
<1>6. CASE UNCHANGED vars
  BY <1>6 DEF vars, ghosts, FlagIsNews, UndisturbedKeepsFlag, Polling
<1> QED
  BY <1>1, <1>2, <1>3, <1>4, <1>5, <1>6 DEF Next, Use

(* Every run satisfies the invariant. *)
THEOREM FlagInvariant == Spec => []FlagInv
<1> QED
  BY FlagInit, FlagStep, PTL DEF Spec

(* However many processes read, and whenever they are preempted, a reader  *)
(* that had an interrupt finds the flag set unless another read began.     *)
THEOREM UndisturbedReader == Spec => []UndisturbedKeepsFlag
<1>1. FlagInv => UndisturbedKeepsFlag
  BY DEF FlagInv
<1> QED
  BY <1>1, FlagInvariant, PTL

(* However many processes share the flag, rtc_read returns only after an   *)
(* interrupt that was handled since it began.                              *)
THEOREM NoReadReturnsEarly == Spec => NoEarlyReturn
<1>1. FlagInv /\ [Next]_vars =>
        [\A p \in Process : p \in Polling /\ p \notin Polling' => p \in since]_vars
  <2> SUFFICES ASSUME FlagInv, [Next]_vars,
                      NEW p \in Process, p \in Polling, p \notin Polling'
               PROVE  p \in since
    OBVIOUS
  <2>1. CASE \E q \in Process : Poll(q)
    <3>1. PICK q \in Process : Poll(q)
      BY <2>1
    <3>2. rtc_interrupt = 1
      BY <3>1 DEF Poll
    <3> QED
      BY <3>2 DEF FlagInv, FlagIsNews
  <2>2. CASE ~\E q \in Process : Poll(q)
    <3>1. \A q \in Process : pc[q] = "polling" => pc'[q] = "polling"
      BY <2>2 DEF Next, Use, Elapse, Handler, Open, Write, ChangeRate, Read,
                  Close, vars, FlagInv, ReadersOK
    <3> QED
      BY <3>1 DEF Polling
  <2> QED
    BY <2>1, <2>2
<1> QED
  BY <1>1, FlagInvariant, PTL DEF Spec, NoEarlyReturn

-----------------------------------------------------------------------------
(* The loop of rtc_write.  halvings is recursive: that a function satisfies *)
(* its equation is proved from the least number up to which none does.      *)
(* A set of numbers that is not empty has a least one. *)
LEMMA Least ==
  ASSUME NEW T \in SUBSET Nat, T # {}
  PROVE  \E x \in T : \A y \in T : x <= y
<1> DEFINE R == OpToRel(<, Nat)
<1>1. IsWellFoundedOn(R, Nat)
  BY NatLessThanWellFounded
<1> HIDE DEF R
<1>2. \E x \in T : \A y \in T : ~ (<<y, x>> \in R)
  BY <1>1, WFMin
<1>3. \A x, y \in Nat : <<y, x>> \in R <=> y < x
  BY SMT DEF R, OpToRel
<1>4. PICK x \in T : \A y \in T : ~ (<<y, x>> \in R)
  BY <1>2
<1>5. \A y \in T : ~(y < x)
  BY <1>4, <1>3
<1> QED BY <1>5, SMT

(* g satisfies the equation of halvings up to n. *)
Counts(g, n) ==
  /\ g \in [0 .. n -> Nat]
  /\ \A d \in 0 .. n : g[d] = IF d < 1 THEN 0 ELSE 1 + g[d \div 2]

LEMMA Half == \A d \in Nat \ {0} : d \div 2 \in Nat /\ d \div 2 < d
BY SMT

LEMMA CountsAgree ==
  ASSUME NEW g, NEW h, NEW n \in Nat, NEW m \in Nat, Counts(g, n), Counts(h, m),
         NEW d \in Nat, d <= n, d <= m
  PROVE  g[d] = h[d]
<1> SUFFICES ASSUME g[d] # h[d]
             PROVE  FALSE
  OBVIOUS
<1> DEFINE T == {x \in Nat : x <= n /\ x <= m /\ g[x] # h[x]}
<1>1. PICK x \in T : \A y \in T : x <= y
  <2>1. T \in SUBSET Nat /\ d \in T
    OBVIOUS
  <2> QED
    BY <2>1, Least
<1>2. x # 0
  BY <1>1 DEF Counts
<1>3. x \div 2 \in Nat /\ x \div 2 < x
  BY <1>2, Half
<1>4. x \div 2 \notin T
  BY <1>1, <1>3
<1>5. g[x \div 2] = h[x \div 2]
  BY <1>3, <1>4
<1>6. g[x] = 1 + g[x \div 2] /\ h[x] = 1 + h[x \div 2]
  BY <1>2, SMT DEF Counts
<1> QED
  BY <1>5, <1>6

LEMMA CountsExist ==
  ASSUME NEW n \in Nat
  PROVE  \E g : Counts(g, n)
<1> SUFFICES ASSUME ~ \E g : Counts(g, n)
             PROVE  FALSE
  OBVIOUS
<1> DEFINE T == {x \in Nat : ~ \E g : Counts(g, x)}
<1>1. PICK x \in T : \A y \in T : x <= y
  <2>1. T \in SUBSET Nat /\ n \in T
    OBVIOUS
  <2> QED
    BY <2>1, Least
<1>2. CASE x = 0
  <2>1. Counts([d \in 0 .. 0 |-> 0], 0)
    BY SMT DEF Counts
  <2> QED
    BY <1>1, <1>2, <2>1
<1>3. CASE x # 0
  <2>1. x - 1 \in Nat /\ x - 1 \notin T
    BY <1>1, <1>3
  <2>2. PICK g : Counts(g, x - 1)
    BY <2>1
  <2>3. x \div 2 \in 0 .. x - 1 /\ \A d \in 1 .. x : d \div 2 \in 0 .. x - 1
    BY <1>1, <1>3, SMT
  <2> DEFINE h == [d \in 0 .. x |-> IF d = x THEN 1 + g[x \div 2] ELSE g[d]]
  <2>4. h \in [0 .. x -> Nat]
    BY <1>1, <2>2, <2>3, SMT DEF Counts
  <2>5. \A d \in 0 .. x - 1 : h[d] = g[d]
    BY <1>1, SMT
  <2>6. ASSUME NEW d \in 0 .. x
        PROVE  h[d] = IF d < 1 THEN 0 ELSE 1 + h[d \div 2]
    <3>1. CASE d = x
      BY <3>1, <2>3, <2>5, <1>1, <1>3, SMT
    <3>2. CASE d # x
      <4>1. d \in 0 .. x - 1 /\ h[d] = g[d] /\ g[d] = IF d < 1 THEN 0 ELSE 1 + g[d \div 2]
        BY <3>2, <2>2, <2>5, <1>1, SMT DEF Counts
      <4> HIDE DEF h
      <4> QED
        BY <4>1, <2>3, <2>5, <1>1, SMT
    <3> QED
      BY <3>1, <3>2
  <2>7. Counts(h, x)
    BY <2>4, <2>6 DEF Counts
  <2> QED
    BY <2>7, <1>1
<1> QED
  BY <1>2, <1>3

(* The equation of halvings holds. *)
LEMMA Halvings ==
  \A d \in Nat : halvings[d] = IF d < 1 THEN 0 ELSE 1 + halvings[d \div 2]
<1> DEFINE first(d) == CHOOSE g : Counts(g, d)
           h == [d \in Nat |-> first(d)[d]]
<1>1. \A d \in Nat : Counts(first(d), d)
  BY CountsExist
<1> HIDE DEF first
<1>2. ASSUME NEW d \in Nat
      PROVE  h[d] = IF d < 1 THEN 0 ELSE 1 + h[d \div 2]
  <2>1. CASE d = 0
    BY <2>1, <1>1, SMT DEF Counts
  <2>2. CASE d # 0
    <3>1. d \div 2 \in Nat /\ d \div 2 < d
      BY <2>2, Half
    <3>2. first(d)[d \div 2] = first(d \div 2)[d \div 2]
      BY <3>1, <1>1, CountsAgree, SMT
    <3>3. first(d)[d] = 1 + first(d)[d \div 2]
      <4>1. Counts(first(d), d) /\ d \in 0 .. d
        BY <1>1, SMT
      <4> QED
        BY <4>1, <2>2, SMT DEF Counts
    <3> QED
      BY <3>1, <3>2, <3>3, <2>2, SMT
  <2> QED
    BY <2>1, <2>2
<1>3. h = [d \in Nat |-> IF d < 1 THEN 0 ELSE 1 + h[d \div 2]]
  <2> HIDE DEF h
  <2>1. h = [d \in Nat |-> h[d]]
    BY DEF h
  <2> QED
    BY <2>1, <1>2
<1> HIDE DEF h
<1>4. halvings = [d \in Nat |-> IF d < 1 THEN 0 ELSE 1 + halvings[d \div 2]]
  BY <1>3 DEF halvings
<1> QED
  BY <1>4

(* Numbers of j bits, of which lo is the least, are halved j times. *)
Bits(j, lo) == \A d \in lo .. 2 * lo - 1 : halvings[d] = j

LEMMA OneBitMore ==
  ASSUME NEW j \in Nat, NEW lo \in Nat, lo > 0, Bits(j, lo),
         NEW more, more = j + 1, NEW twice, twice = 2 * lo
  PROVE  Bits(more, twice)
<1> SUFFICES ASSUME NEW d \in 2 * lo .. 4 * lo - 1
             PROVE  halvings[d] = j + 1
  BY SMT DEF Bits
<1>1. d \in Nat /\ d >= 1 /\ d \div 2 \in lo .. 2 * lo - 1
  BY SMT
<1>2. halvings[d] = 1 + halvings[d \div 2]
  BY <1>1, Halvings, SMT
<1> QED
  BY <1>1, <1>2, SMT DEF Bits

LEMMA BitsOfRates ==
  /\ Bits(6, 32) /\ Bits(7, 64) /\ Bits(8, 128) /\ Bits(9, 256) /\ Bits(10, 512)
  /\ Bits(11, 1024) /\ Bits(12, 2048) /\ Bits(13, 4096) /\ Bits(14, 8192)
  /\ Bits(15, 16384) /\ Bits(16, 32768)
<1>1. Bits(1, 1)
  <2>1. 1 \div 2 = 0 /\ halvings[0] = 0
    BY Halvings, SMT
  <2> QED
    BY <2>1, Halvings, SMT DEF Bits
<1>2. Bits(2, 2)
  BY <1>1, OneBitMore, SMT
<1>3. Bits(3, 4)
  BY <1>2, OneBitMore, SMT
<1>4. Bits(4, 8)
  BY <1>3, OneBitMore, SMT
<1>5. Bits(5, 16)
  BY <1>4, OneBitMore, SMT
<1>6. Bits(6, 32)
  BY <1>5, OneBitMore, SMT
<1>7. Bits(7, 64)
  BY <1>6, OneBitMore, SMT
<1>8. Bits(8, 128)
  BY <1>7, OneBitMore, SMT
<1>9. Bits(9, 256)
  BY <1>8, OneBitMore, SMT
<1>10. Bits(10, 512)
  BY <1>9, OneBitMore, SMT
<1>11. Bits(11, 1024)
  BY <1>10, OneBitMore, SMT
<1>12. Bits(12, 2048)
  BY <1>11, OneBitMore, SMT
<1>13. Bits(13, 4096)
  BY <1>12, OneBitMore, SMT
<1>14. Bits(14, 8192)
  BY <1>13, OneBitMore, SMT
<1>15. Bits(15, 16384)
  BY <1>14, OneBitMore, SMT
<1>16. Bits(16, 32768)
  BY <1>15, OneBitMore, SMT
<1> QED
  BY <1>6, <1>7, <1>8, <1>9, <1>10, <1>11, <1>12, <1>13, <1>14, <1>15, <1>16

(* A quotient lies between two numbers whose products surround n. *)
LEMMA QuotientBetween ==
  ASSUME NEW n \in Nat, NEW f \in Nat, f > 0, NEW a \in Nat, NEW b \in Nat,
         a * f <= n, n < b * f
  PROVE  n \div f \in a .. b - 1
<1> DEFINE d == n \div f
<1>1. d \in Nat /\ d * f <= n /\ n < (d + 1) * f
  BY SMT
<1> HIDE DEF d
<1>2. a < d + 1
  BY <1>1, SMT
<1>3. d < b
  BY <1>1, SMT
<1> QED
  BY <1>1, <1>2, <1>3, SMT DEF d

(* What rtc_write computes for the frequencies above half and up to twice  *)
(* that, when quotient is what 32768 leaves for the highest.               *)
Above(half, f) == half < f /\ f <= 2 * half

LEMMA RateOfPower ==
  ASSUME NEW f \in Nat, NEW half \in Nat, NEW quotient \in Nat, NEW r,
         half > 0, Above(half, f), quotient * (2 * half) = 32768, Bits(r, quotient)
  PROVE  RateOf(f) = r
<1>1. quotient * f <= 32768
  BY SMT DEF Above
<1>2. 32768 < (2 * quotient) * f
  BY SMT DEF Above
<1>3. 32768 \div f \in quotient .. 2 * quotient - 1
  BY <1>1, <1>2, QuotientBetween, SMT DEF Above
<1> QED
  BY <1>3 DEF RateOf, Bits

LEMMA RateOfPowerItself ==
  ASSUME NEW f \in Nat, NEW quotient \in Nat, NEW r,
         quotient > 0, 32768 \div f = quotient, Bits(r, quotient)
  PROVE  RateOf(f) = r
<1>1. quotient \in quotient .. 2 * quotient - 1
  BY SMT
<1> QED
  BY <1>1 DEF RateOf, Bits

(* Every power of two that can be asked for has a rate of its own, and the *)
(* frequencies between two of them have the rate of the higher.            *)
Power(k, f) == 2 ^ (k - 1) < f /\ f <= 2 ^ k

LEMMA RateOfFrequency ==
  ASSUME NEW k \in 1 .. 10, NEW f \in Nat, Power(k, f)
  PROVE  RateOf(f) = 16 - k /\ HardwareFrequency(16 - k) = 2 ^ k
<1>1. CASE k = 1
  <2>1. 2 ^ k = 2 /\ Above(1, f) /\ 16384 * (2 * 1) = 32768
    BY <1>1, SMT DEF Power, Above
  <2>2. Bits(15, 16384)
    BY BitsOfRates
  <2>3. RateOf(f) = 15
    BY <2>1, <2>2, RateOfPower, SMT
  <2>4. HardwareFrequency(15) = 2 /\ 16 - k = 15
    BY <1>1, SMT DEF HardwareFrequency
  <2> QED
    BY <2>1, <2>3, <2>4
<1>2. CASE k = 2
  <2>1. 2 ^ k = 4 /\ Above(2, f) /\ 8192 * (2 * 2) = 32768
    BY <1>2, SMT DEF Power, Above
  <2>2. Bits(14, 8192)
    BY BitsOfRates
  <2>3. RateOf(f) = 14
    BY <2>1, <2>2, RateOfPower, SMT
  <2>4. HardwareFrequency(14) = 4 /\ 16 - k = 14
    BY <1>2, SMT DEF HardwareFrequency
  <2> QED
    BY <2>1, <2>3, <2>4
<1>3. CASE k = 3
  <2>1. 2 ^ k = 8 /\ Above(4, f) /\ 4096 * (2 * 4) = 32768
    BY <1>3, SMT DEF Power, Above
  <2>2. Bits(13, 4096)
    BY BitsOfRates
  <2>3. RateOf(f) = 13
    BY <2>1, <2>2, RateOfPower, SMT
  <2>4. HardwareFrequency(13) = 8 /\ 16 - k = 13
    BY <1>3, SMT DEF HardwareFrequency
  <2> QED
    BY <2>1, <2>3, <2>4
<1>4. CASE k = 4
  <2>1. 2 ^ k = 16 /\ Above(8, f) /\ 2048 * (2 * 8) = 32768
    BY <1>4, SMT DEF Power, Above
  <2>2. Bits(12, 2048)
    BY BitsOfRates
  <2>3. RateOf(f) = 12
    BY <2>1, <2>2, RateOfPower, SMT
  <2>4. HardwareFrequency(12) = 16 /\ 16 - k = 12
    BY <1>4, SMT DEF HardwareFrequency
  <2> QED
    BY <2>1, <2>3, <2>4
<1>5. CASE k = 5
  <2>1. 2 ^ k = 32 /\ Above(16, f) /\ 1024 * (2 * 16) = 32768
    BY <1>5, SMT DEF Power, Above
  <2>2. Bits(11, 1024)
    BY BitsOfRates
  <2>3. RateOf(f) = 11
    BY <2>1, <2>2, RateOfPower, SMT
  <2>4. HardwareFrequency(11) = 32 /\ 16 - k = 11
    BY <1>5, SMT DEF HardwareFrequency
  <2> QED
    BY <2>1, <2>3, <2>4
<1>6. CASE k = 6
  <2>1. 2 ^ k = 64 /\ Above(32, f) /\ 512 * (2 * 32) = 32768
    BY <1>6, SMT DEF Power, Above
  <2>2. Bits(10, 512)
    BY BitsOfRates
  <2>3. RateOf(f) = 10
    BY <2>1, <2>2, RateOfPower, SMT
  <2>4. HardwareFrequency(10) = 64 /\ 16 - k = 10
    BY <1>6, SMT DEF HardwareFrequency
  <2> QED
    BY <2>1, <2>3, <2>4
<1>7. CASE k = 7
  <2>1. 2 ^ k = 128 /\ Above(64, f) /\ 256 * (2 * 64) = 32768
    BY <1>7, SMT DEF Power, Above
  <2>2. Bits(9, 256)
    BY BitsOfRates
  <2>3. RateOf(f) = 9
    BY <2>1, <2>2, RateOfPower, SMT
  <2>4. HardwareFrequency(9) = 128 /\ 16 - k = 9
    BY <1>7, SMT DEF HardwareFrequency
  <2> QED
    BY <2>1, <2>3, <2>4
<1>8. CASE k = 8
  <2>1. 2 ^ k = 256 /\ Above(128, f) /\ 128 * (2 * 128) = 32768
    BY <1>8, SMT DEF Power, Above
  <2>2. Bits(8, 128)
    BY BitsOfRates
  <2>3. RateOf(f) = 8
    BY <2>1, <2>2, RateOfPower, SMT
  <2>4. HardwareFrequency(8) = 256 /\ 16 - k = 8
    BY <1>8, SMT DEF HardwareFrequency
  <2> QED
    BY <2>1, <2>3, <2>4
<1>9. CASE k = 9
  <2>1. 2 ^ k = 512 /\ Above(256, f) /\ 64 * (2 * 256) = 32768
    BY <1>9, SMT DEF Power, Above
  <2>2. Bits(7, 64)
    BY BitsOfRates
  <2>3. RateOf(f) = 7
    BY <2>1, <2>2, RateOfPower, SMT
  <2>4. HardwareFrequency(7) = 512 /\ 16 - k = 7
    BY <1>9, SMT DEF HardwareFrequency
  <2> QED
    BY <2>1, <2>3, <2>4
<1>10. CASE k = 10
  <2>1. 2 ^ k = 1024 /\ Above(512, f) /\ 32 * (2 * 512) = 32768
    BY <1>10, SMT DEF Power, Above
  <2>2. Bits(6, 32)
    BY BitsOfRates
  <2>3. RateOf(f) = 6
    BY <2>1, <2>2, RateOfPower, SMT
  <2>4. HardwareFrequency(6) = 1024 /\ 16 - k = 6
    BY <1>10, SMT DEF HardwareFrequency
  <2> QED
    BY <2>1, <2>3, <2>4
<1> QED
  BY <1>1, <1>2, <1>3, <1>4, <1>5, <1>6, <1>7, <1>8, <1>9, <1>10, SMT

LEMMA PowerOfItself ==
  ASSUME NEW k \in 1 .. 10
  PROVE  Power(k, 2 ^ k)
<1>1. CASE k = 1
  BY <1>1, SMT DEF Power
<1>2. CASE k = 2
  BY <1>2, SMT DEF Power
<1>3. CASE k = 3
  BY <1>3, SMT DEF Power
<1>4. CASE k = 4
  BY <1>4, SMT DEF Power
<1>5. CASE k = 5
  BY <1>5, SMT DEF Power
<1>6. CASE k = 6
  BY <1>6, SMT DEF Power
<1>7. CASE k = 7
  BY <1>7, SMT DEF Power
<1>8. CASE k = 8
  BY <1>8, SMT DEF Power
<1>9. CASE k = 9
  BY <1>9, SMT DEF Power
<1>10. CASE k = 10
  BY <1>10, SMT DEF Power
<1> QED
  BY <1>1, <1>2, <1>3, <1>4, <1>5, <1>6, <1>7, <1>8, <1>9, <1>10, SMT

LEMMA PowerOfFrequency ==
  ASSUME NEW f \in 2 .. 1024
  PROVE  \E k \in 1 .. 10 : Power(k, f)
<1>1. Power(1, f) <=> 1 < f /\ f <= 2
  BY SMT DEF Power
<1>2. Power(2, f) <=> 2 < f /\ f <= 4
  BY SMT DEF Power
<1>3. Power(3, f) <=> 4 < f /\ f <= 8
  BY SMT DEF Power
<1>4. Power(4, f) <=> 8 < f /\ f <= 16
  BY SMT DEF Power
<1>5. Power(5, f) <=> 16 < f /\ f <= 32
  BY SMT DEF Power
<1>6. Power(6, f) <=> 32 < f /\ f <= 64
  BY SMT DEF Power
<1>7. Power(7, f) <=> 64 < f /\ f <= 128
  BY SMT DEF Power
<1>8. Power(8, f) <=> 128 < f /\ f <= 256
  BY SMT DEF Power
<1>9. Power(9, f) <=> 256 < f /\ f <= 512
  BY SMT DEF Power
<1>10. Power(10, f) <=> 512 < f /\ f <= 1024
  BY SMT DEF Power
<1>11. \/ (1 < f /\ f <= 2) \/ (2 < f /\ f <= 4) \/ (4 < f /\ f <= 8)
       \/ (8 < f /\ f <= 16) \/ (16 < f /\ f <= 32) \/ (32 < f /\ f <= 64)
       \/ (64 < f /\ f <= 128) \/ (128 < f /\ f <= 256) \/ (256 < f /\ f <= 512)
       \/ (512 < f /\ f <= 1024)
  BY SMT
<1> HIDE DEF Power
<1> QED
  BY <1>1, <1>2, <1>3, <1>4, <1>5, <1>6, <1>7, <1>8, <1>9, <1>10, <1>11, SMT

LEMMA RateBounded == \A f \in 1 .. MAX_FREQ : RateOf(f) \in 6 .. 16
<1> TAKE f \in 1 .. MAX_FREQ
<1>1. CASE f = 1
  <2>1. 32768 \div f = 32768
    BY <1>1, SMT
  <2>2. Bits(16, 32768)
    BY BitsOfRates
  <2>3. RateOf(f) = 16
    BY <2>1, <2>2, RateOfPowerItself, SMT
  <2> QED
    BY <2>3, SMT
<1>2. CASE f # 1
  <2>1. f \in 2 .. 1024
    BY <1>2, SMT DEF MAX_FREQ
  <2>2. PICK k \in 1 .. 10 : Power(k, f)
    BY <2>1, PowerOfFrequency
  <2>3. RateOf(f) = 16 - k
    BY <2>1, <2>2, RateOfFrequency, SMT
  <2> QED
    BY <2>3, SMT
<1> QED
  BY <1>1, <1>2

-----------------------------------------------------------------------------
(* A process that is about to change the rate has the one of its frequency. *)
RateServed(f, r) ==
  \A k \in 1 .. 10 : Power(k, f) => HardwareFrequency(r % 16) = 2 ^ k

RateOK == \A p \in Process : pc[p] = "change_rate" => RateServed(asked[p], new_rate[p])

RateInv == TypeOK /\ RateOK

LEMMA RateOfServes == \A f \in Nat : RateServed(f, RateOf(f))
<1> SUFFICES ASSUME NEW f \in Nat, NEW k \in 1 .. 10, Power(k, f)
             PROVE  HardwareFrequency(RateOf(f) % 16) = 2 ^ k
  BY DEF RateServed
<1>1. RateOf(f) = 16 - k /\ HardwareFrequency(16 - k) = 2 ^ k
  BY RateOfFrequency
<1>2. (16 - k) % 16 = 16 - k
  BY SMT
<1> QED
  BY <1>1, <1>2

(* rtc_open asks for 2 and passes the rate 15. *)
LEMMA RateOfOpen == RateServed(2, 15)
<1>1. Power(1, 2) /\ RateOf(2) = 15
  <2>1. Power(1, 2) /\ 16 - 1 = 15
    BY SMT DEF Power
  <2> QED
    BY <2>1, RateOfFrequency, SMT
<1> QED
  BY <1>1, RateOfServes, SMT

LEMMA RateInit == Init => RateInv
<1> SUFFICES ASSUME Init
             PROVE  RateInv
  OBVIOUS
<1>1. TypeOK
  <2>1. 0 \in 0 .. 16 /\ 0 \in 0 .. MAX_FREQ /\ 6 \in 0 .. 15
    BY SMT DEF MAX_FREQ
  <2> QED
    BY <2>1 DEF Init, TypeOK
<1>2. RateOK
  BY DEF Init, RateOK
<1> QED
  BY <1>1, <1>2 DEF RateInv

LEMMA RateStep == RateInv /\ [Next]_vars => RateInv'
<1> SUFFICES ASSUME RateInv, [Next]_vars
             PROVE  RateInv'
  OBVIOUS
<1> USE DEF RateInv
<1>1. CASE Elapse
  BY <1>1 DEF Elapse, ghosts, TypeOK, RateOK
<1>2. CASE Handler
  BY <1>2 DEF Handler, TypeOK, RateOK, Polling
<1>3. ASSUME NEW p \in Process, Open(p)
      PROVE  RateInv'
  <2>1. TypeOK'
    BY <1>3, SMT DEF Open, hardware, TypeOK, MAX_FREQ
  <2>2. RateOK'
    <3>1. asked'[p] = 2 /\ new_rate'[p] = 15
      BY <1>3 DEF Open, TypeOK
    <3>2. \A q \in Process \ {p} : /\ pc'[q] = pc[q] /\ asked'[q] = asked[q]
                                   /\ new_rate'[q] = new_rate[q]
      BY <1>3 DEF Open, TypeOK
    <3> QED
      BY <3>1, <3>2, RateOfOpen DEF RateOK
  <2> QED
    BY <2>1, <2>2
<1>4. ASSUME NEW p \in Process, NEW f \in Frequency, Write(p, f)
      PROVE  RateInv'
  <2>1. f \in 1 .. MAX_FREQ /\ f \in Nat
    BY <1>4, FrequencyAssumption, SMT DEF Write, MAX_FREQ
  <2>2. TypeOK'
    <3>1. RateOf(f) \in 0 .. 16 /\ f \in 0 .. MAX_FREQ
      <4>1. RateOf(f) \in 6 .. 16
        BY <2>1, RateBounded
      <4>2. MAX_FREQ \in Nat
        BY SMT DEF MAX_FREQ
      <4> QED
        BY <4>1, <4>2, <2>1, SMT
    <3> QED
      BY <1>4, <3>1 DEF Write, hardware, TypeOK
  <2>3. RateOK'
    <3>1. asked'[p] = f /\ new_rate'[p] = RateOf(f)
      BY <1>4 DEF Write, TypeOK
    <3>2. \A q \in Process \ {p} : /\ pc'[q] = pc[q] /\ asked'[q] = asked[q]
                                   /\ new_rate'[q] = new_rate[q]
      BY <1>4 DEF Write, TypeOK
    <3> QED
      BY <3>1, <3>2, <2>1, RateOfServes DEF RateOK
  <2> QED
    BY <2>2, <2>3
<1>5. ASSUME NEW p \in Process, ChangeRate(p)
      PROVE  RateInv'
  <2>1. new_rate[p] % 16 \in 0 .. 15
    BY SMT DEF TypeOK
  <2> QED
    BY <1>5, <2>1 DEF ChangeRate, ghosts, TypeOK, RateOK
<1>6. ASSUME NEW p \in Process, Read(p) \/ Poll(p)
      PROVE  RateInv'
  BY <1>6 DEF Read, Poll, hardware, ghosts, TypeOK, RateOK, Polling
<1>7. ASSUME NEW p \in Process, Close(p)
      PROVE  RateInv'
  <2>1. TypeOK'
    BY <1>7, SMT DEF Close, hardware, TypeOK, MAX_FREQ
  <2>2. \A q \in Process : pc'[q] = "change_rate" =>
          /\ pc[q] = "change_rate" /\ asked'[q] = asked[q] /\ new_rate'[q] = new_rate[q]
    BY <1>7 DEF Close, TypeOK
  <2> QED
    BY <2>1, <2>2 DEF RateOK
<1>8. CASE UNCHANGED vars
  BY <1>8 DEF vars, hardware, ghosts, TypeOK, RateOK
<1> QED
  BY <1>1, <1>2, <1>3, <1>4, <1>5, <1>6, <1>7, <1>8 DEF Next, Use

LEMMA RateInvariant == Spec => []RateInv
<1> QED
  BY RateInit, RateStep, PTL DEF Spec

(* Every variable keeps to its range: no rate needs more than four bits    *)
(* and the one that rtc_change_rate cuts to 0.                             *)
THEOREM TypeCorrect == Spec => []TypeOK
<1>1. RateInv => TypeOK
  BY DEF RateInv
<1> QED
  BY <1>1, RateInvariant, PTL

(* Whatever frequencies processes ask for, and whoever else changes the    *)
(* rate: each power of two from 2 to 1024 gets the rate of just this       *)
(* frequency from the loop of rtc_write.                                   *)
THEOREM FrequencyServed == Spec => []RateServesFrequency
<1>1. RateInv => RateServesFrequency
  <2> SUFFICES ASSUME RateInv, NEW p \in Process, NEW k \in 1 .. 10,
                      pc[p] = "change_rate", asked[p] = 2 ^ k
               PROVE  HardwareFrequency(new_rate[p] % 16) = 2 ^ k
    BY DEF RateServesFrequency
  <2>1. Power(k, asked[p])
    BY PowerOfItself
  <2> QED
    BY <2>1 DEF RateInv, RateOK, RateServed
<1> QED
  BY <1>1, RateInvariant, PTL
=============================================================================
