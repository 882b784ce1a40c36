--------------------------- MODULE WorldLoopProofs ---------------------------
(***************************************************************************)
(* Theorems about WorldLoop, for every period, every width of the integers *)
(* and every bound on work, oversleeping and settings of the clock.        *)
(***************************************************************************)
EXTENDS WorldLoop, TLAPS

\* What the time since the last reading is measured against.
Base == IF pc \in {"read", "sleep"} THEN prev_time ELSE curr_time

\* The clock shows the last reading, moved on by what has passed and been set.
ClockOK == clock = ToInt32(Base + gone + fwd - back)

\* How much time may have passed, stage by stage; a "read" comes after the sleep.
GoneOK ==
  /\ pc = "update" => gone = 0
  /\ pc \in {"decide", "sleep"} => gone <= MaxWork
  /\ pc = "read" => /\ prev_sleep_time <= gone
                    /\ gone <= MaxWork + prev_sleep_time + MaxOver

SkewOK ==
  /\ fwd <= forward /\ forward + back <= moved
  /\ backBefore + fwd + back <= moved

SleepOK ==
  /\ prev_sleep_time <= Period + 1 + MaxSkew
  /\ pc = "sleep" => prev_sleep_time <= Period + 1 + backBefore
  /\ pc \in {"update", "decide"} =>
       /\ prev_sleep_time - diff <= 1 + backBefore
       /\ diff <= MaxWork + MaxOver + prev_sleep_time + (forward - fwd)

\* The beat and the sleep that follows it end no earlier than their period does,
\* but for forward settings that were already measured.
LeadOK ==
  /\ -MaxLate <= lead
  /\ pc \in {"read", "sleep"} => lead + gone - prev_sleep_time <= forward - fwd
  /\ pc \in {"update", "decide"} =>
       lead + gone + diff - Period - prev_sleep_time <= forward - fwd

IdleOK == idle <= heart_count % PassEvery

TimeInv == TypeOK /\ ClockOK /\ GoneOK /\ SkewOK /\ SleepOK /\ LeadOK
IndInv == TimeInv /\ IdleOK

-----------------------------------------------------------------------------
(* Arithmetic.                                                             *)

\* GetTimeDiff of two readings that are e ms apart, less than half a turn, is e, or
\* one less when the later reading is the smaller number (Timer.h:14-20).
LEMMA DiffCorrect ==
  ASSUME NEW x \in Int32, NEW e \in Int, -Half < e, e < Half
  PROVE  /\ GetTimeDiff(x, ToInt32(x + e)) \in {e, e - 1}
         /\ GetTimeDiff(x, ToInt32(x + e)) \in Int32
BY PeriodAssumption DEF GetTimeDiff, ToInt32, Int32

\* The conversion gives an int32_t.
LEMMA ToInt32Type ==
  ASSUME NEW x \in Int, -3 * Half <= x, x < 3 * Half
  PROVE  ToInt32(x) \in Int32
BY PeriodAssumption DEF ToInt32, Int32

\* Conversions in a row are one conversion.
LEMMA ToInt32Add ==
  ASSUME NEW x \in Int32, NEW d \in Int, NEW t \in Int,
         -Half < d, d < Half, -Half < d + t, d + t < Half
  PROVE  ToInt32(ToInt32(x + d) + t) = ToInt32(x + d + t)
BY PeriodAssumption DEF ToInt32, Int32

\* Division with remainder, and that the remainder is unique.
LEMMA Split ==
  ASSUME NEW x \in Int
  PROVE  /\ x \div PassEvery \in Int
         /\ x % PassEvery \in 0 .. PassEvery - 1
         /\ x = (x \div PassEvery) * PassEvery + (x % PassEvery)
<1>1. x \div PassEvery \in Int
  BY PeriodAssumption
<1>2. x % PassEvery \in 0 .. PassEvery - 1
  BY PeriodAssumption
<1>3. x = (x \div PassEvery) * PassEvery + (x % PassEvery)
  BY PeriodAssumption
<1>4. QED
  BY <1>1, <1>2, <1>3

\* The remainder of a multiple and a remainder.
LEMMA Remainder ==
  ASSUME NEW q \in Int, NEW r \in 0 .. PassEvery - 1
  PROVE  (q * PassEvery + r) % PassEvery = r
BY PeriodAssumption

\* The remainder of the next number.
LEMMA NextRemainder ==
  ASSUME NEW x \in Int
  PROVE  (x + 1) % PassEvery =
           IF x % PassEvery = PassEvery - 1 THEN 0 ELSE (x % PassEvery) + 1
<1> DEFINE q == x \div PassEvery
           m == x % PassEvery
<1>1. q \in Int /\ m \in 0 .. PassEvery - 1 /\ x = q * PassEvery + m
  BY Split
<1> HIDE DEF q, m
<1>2. CASE m = PassEvery - 1
  <2>1. x + 1 = (q + 1) * PassEvery + 0
    BY <1>1, <1>2, PeriodAssumption
  <2>2. ((q + 1) * PassEvery + 0) % PassEvery = 0
    BY <1>1, Remainder, PeriodAssumption
  <2>3. QED
    BY <1>2, <2>1, <2>2 DEF m
<1>3. CASE m # PassEvery - 1
  <2>1. x + 1 = q * PassEvery + (m + 1)
    BY <1>1, PeriodAssumption
  <2>2. (q * PassEvery + (m + 1)) % PassEvery = m + 1
    BY <1>1, <1>3, Remainder, PeriodAssumption
  <2>3. QED
    BY <1>3, <2>1, <2>2 DEF m
<1>4. QED
  BY <1>2, <1>3

\* The remainder of the opposite number.
LEMMA OppositeRemainder ==
  ASSUME NEW x \in Int, x % PassEvery # 0
  PROVE  (-x) % PassEvery = PassEvery - (x % PassEvery)
<1> DEFINE q == x \div PassEvery
           m == x % PassEvery
           n == -q - 1
           r == PassEvery - m
<1>1. q \in Int /\ m \in 0 .. PassEvery - 1 /\ x = q * PassEvery + m /\ m # 0
  BY Split
<1> HIDE DEF q, m
<1>2. n \in Int /\ r \in 0 .. PassEvery - 1 /\ r = PassEvery - m
  BY <1>1, PeriodAssumption
<1>3. -x = n * PassEvery + r
  BY <1>1, PeriodAssumption
<1> HIDE DEF n, r
<1>4. (n * PassEvery + r) % PassEvery = r
  BY <1>2, Remainder
<1>5. QED
  BY <1>2, <1>3, <1>4 DEF m

-----------------------------------------------------------------------------
(* The steps.                                                              *)

\* The inductive invariant holds when the loop is entered.
LEMMA IndInvInit == Init => IndInv
<1> SUFFICES ASSUME Init PROVE IndInv
  OBVIOUS
<1>1. TimeInv
  BY PeriodAssumption
     DEF Init, TimeInv, TypeOK, Int32, ClockOK, ToInt32, Base, GoneOK, SkewOK, SleepOK,
         LeadOK
<1>2. IdleOK
  BY Split DEF Init, IdleOK
<1>3. QED
  BY <1>1, <1>2 DEF IndInv

\* Reading the clock: diff is what has passed and been set since the last reading,
\* or one ms less.
LEMMA ReadStep ==
  ASSUME TimeInv, ReadTime
  PROVE  TimeInv'
<1> DEFINE e == gone + fwd - back
<1> USE DEF TimeInv
<1>1. e \in Int /\ -Half < e /\ e < Half /\ clock = ToInt32(prev_time + e)
  <2>1. e \in Int /\ -Half < e /\ e < Half
    BY PeriodAssumption DEF ReadTime, TypeOK, GoneOK, SkewOK, SleepOK
  <2>2. prev_time + gone + fwd - back = prev_time + e
    BY PeriodAssumption DEF TypeOK, Int32
  <2>3. clock = ToInt32(prev_time + gone + fwd - back)
    BY DEF ReadTime, ClockOK, Base
  <2>4. QED
    BY <2>1, <2>2, <2>3
<1>2. diff' \in {e, e - 1} /\ diff' \in Int32
  BY <1>1, DiffCorrect DEF ReadTime, TypeOK
<1>3. TypeOK'
  BY <1>2, PeriodAssumption DEF ReadTime, TypeOK
<1>4. ClockOK'
  BY PeriodAssumption DEF ReadTime, TypeOK, ClockOK, Base, ToInt32, Int32
<1>5. GoneOK' /\ SkewOK'
  BY PeriodAssumption DEF ReadTime, TypeOK, GoneOK, SkewOK
<1>6. SleepOK'
  BY <1>2, PeriodAssumption DEF ReadTime, TypeOK, GoneOK, SkewOK, SleepOK
<1>7. LeadOK'
  BY <1>2, PeriodAssumption DEF ReadTime, TypeOK, GoneOK, SkewOK, LeadOK
<1>8. QED
  BY <1>3, <1>4, <1>5, <1>6, <1>7

\* The clock keeps pace while time passes.
LEMMA PassStep ==
  ASSUME TimeInv, NEW t \in Nat, Pass(t),
         Base' = Base, fwd' = fwd, back' = back,
         gone + t <= MaxWork + prev_sleep_time + MaxOver
  PROVE  clock' \in Int32 /\ ClockOK'
<1> DEFINE d == gone + fwd - back
<1>1. d \in Int /\ -Half < d /\ d < Half /\ -Half < d + t /\ d + t < Half
  BY PeriodAssumption DEF TimeInv, TypeOK, SkewOK, SleepOK
<1>2. Base \in Int32 /\ clock = ToInt32(Base + d)
  BY PeriodAssumption DEF TimeInv, TypeOK, ClockOK, Base, Int32
<1>3. clock' = ToInt32(Base + d + t)
  BY <1>1, <1>2, ToInt32Add DEF Pass
<1>4. Base + d + t = Base' + gone' + fwd' - back'
  BY <1>2 DEF Pass, TimeInv, TypeOK, Int32
<1>5. clock' \in Int32
  <2>1. /\ Base + d + t \in Int
        /\ -3 * Half <= Base + d + t /\ Base + d + t < 3 * Half
    BY <1>1, <1>2, PeriodAssumption DEF Int32
  <2>2. QED
    BY <1>3, <2>1, ToInt32Type
<1>6. QED
  BY <1>3, <1>4, <1>5 DEF ClockOK

\* World::Update.
LEMMA UpdateStep ==
  ASSUME IndInv, NEW w \in 0 .. MaxWork, Update(w)
  PROVE  IndInv'
<1> USE DEF IndInv, TimeInv
<1>1. clock' \in Int32 /\ ClockOK'
  <2>1. Base' = Base /\ gone + w <= MaxWork + prev_sleep_time + MaxOver
    BY PeriodAssumption DEF Update, Base, GoneOK, TypeOK
  <2>2. QED
    BY <2>1, PassStep, PeriodAssumption DEF Update
<1>2. heart_count' \in Int32
  BY PeriodAssumption, ToInt32Type DEF Update, TypeOK, Int32
<1>3. TypeOK'
  BY <1>1, <1>2, PeriodAssumption DEF Update, Pass, TypeOK
<1>4. GoneOK' /\ SkewOK' /\ SleepOK'
  BY PeriodAssumption DEF Update, Pass, TypeOK, GoneOK, SkewOK, SleepOK
<1>5. LeadOK'
  BY PeriodAssumption
     DEF Update, Pass, TypeOK, Int32, GoneOK, SkewOK, SleepOK, LeadOK
<1>6. IdleOK'
  <2>1. heart_count \in Int /\ heart_count' \in Int /\ idle \in Nat /\ Half \in Int
    BY <1>2, PeriodAssumption DEF TypeOK, Int32
  <2>2. heart_count' % PassEvery \in 0 .. PassEvery - 1
    BY <2>1, Split
  <2>3. CASE heart_count' % PassEvery = 0
    BY <2>2, <2>3 DEF Update, IsPass, IdleOK
  <2>4. CASE heart_count' % PassEvery # 0 /\ heart_count + 1 < Half
    <3>1. heart_count' = heart_count + 1
      BY <2>4, PeriodAssumption DEF Update, ToInt32, TypeOK, Int32
    <3>2. heart_count' % PassEvery = (heart_count % PassEvery) + 1
      BY <2>1, <2>4, <3>1, NextRemainder
    <3>3. QED
      BY <2>1, <2>4, <3>2, Split DEF Update, IsPass, IdleOK
  <2>5. CASE heart_count' % PassEvery # 0 /\ heart_count + 1 >= Half
    <3>1. heart_count = Half - 1 /\ heart_count' = -Half
      BY <2>5, PeriodAssumption DEF Update, ToInt32, TypeOK, Int32
    <3>2. Half % PassEvery # 0
      <4>1. ASSUME Half % PassEvery = 0 PROVE FALSE
        <5> DEFINE q == Half \div PassEvery
                   n == -q
        <5>1. q \in Int /\ Half = q * PassEvery + 0
          BY <2>1, <4>1, Split
        <5> HIDE DEF q
        <5>2. n \in Int /\ 0 \in 0 .. PassEvery - 1 /\ -Half = n * PassEvery + 0
          BY <5>1, PeriodAssumption
        <5> HIDE DEF n
        <5>3. (-Half) % PassEvery = 0
          BY <5>2, Remainder
        <5>4. QED
          BY <2>5, <3>1, <5>3
      <4>2. QED
        BY <4>1
    <3>3. (-Half) % PassEvery = PassEvery - (Half % PassEvery)
      BY <2>1, <3>2, OppositeRemainder
    <3>4. (heart_count % PassEvery) + 1 = Half % PassEvery
      <4>1. heart_count + 1 = Half
        BY <2>1, <3>1
      <4>2. QED
        BY <2>1, <3>2, <4>1, NextRemainder
    <3>5. (heart_count % PassEvery) \in 0 .. PassEvery - 1
      BY <2>1, Split
    <3>6. idle + 1 <= heart_count' % PassEvery
      BY <2>1, <3>1, <3>3, <3>4, <3>5, PassAssumption, PeriodAssumption DEF IdleOK
    <3>7. QED
      BY <2>5, <3>6 DEF Update, IsPass, IdleOK
  <2>6. heart_count + 1 < Half \/ heart_count + 1 >= Half
    BY <2>1
  <2>7. QED
    BY <2>3, <2>4, <2>5, <2>6
<1>7. QED
  BY <1>1, <1>3, <1>4, <1>5, <1>6

\* The decision how long to sleep.
LEMMA DecideStep ==
  ASSUME TimeInv, Decide
  PROVE  TimeInv'
<1> USE DEF TimeInv, clockVars
<1>1. TypeOK'
  BY PeriodAssumption DEF Decide, TypeOK, Int32, SleepOK, SkewOK
<1>2. ClockOK'
  BY DEF Decide, ClockOK, Base
<1>3. GoneOK' /\ SkewOK'
  BY PeriodAssumption DEF Decide, TypeOK, GoneOK, SkewOK
<1>4. SleepOK'
  BY PeriodAssumption DEF Decide, TypeOK, Int32, SleepOK, SkewOK
<1>5. LeadOK'
  BY PeriodAssumption DEF Decide, TypeOK, Int32, LeadOK
<1>6. QED
  BY <1>1, <1>2, <1>3, <1>4, <1>5

\* The sleep.
LEMMA SleepStep ==
  ASSUME TimeInv, NEW o \in 0 .. MaxOver, Sleep(o)
  PROVE  TimeInv'
<1> USE DEF TimeInv
<1>1. clock' \in Int32 /\ ClockOK'
  <2>1. /\ Base' = Base /\ prev_sleep_time + o \in Nat
        /\ gone + (prev_sleep_time + o) <= MaxWork + prev_sleep_time + MaxOver
    BY PeriodAssumption DEF Sleep, Base, GoneOK, TypeOK
  <2>2. QED
    BY <2>1, PassStep DEF Sleep
<1>2. TypeOK'
  BY <1>1, PeriodAssumption DEF Sleep, Pass, TypeOK
<1>3. GoneOK' /\ SkewOK' /\ SleepOK'
  BY PeriodAssumption DEF Sleep, Pass, TypeOK, GoneOK, SkewOK, SleepOK
<1>4. LeadOK'
  BY PeriodAssumption DEF Sleep, Pass, TypeOK, GoneOK, SkewOK, LeadOK
<1>5. QED
  BY <1>1, <1>2, <1>3, <1>4

\* The settings of the clock.
LEMMA SetStep ==
  ASSUME TimeInv, NEW k \in 1 .. MaxSkew, SetForward(k) \/ SetBack(k)
  PROVE  TimeInv'
<1> DEFINE d == gone + fwd - back
<1> USE DEF TimeInv
<1>1. /\ codeVars' = codeVars /\ Base' = Base
      /\ gone' = gone /\ lead' = lead /\ backBefore' = backBefore
  BY DEF SetForward, SetBack, codeVars, Base
<1>2. Base \in Int32 /\ clock = ToInt32(Base + d)
  BY PeriodAssumption DEF TypeOK, ClockOK, Base, Int32
<1>3. /\ d \in Int /\ -Half < d /\ d < Half
      /\ -Half < d + k /\ d + k < Half /\ -Half < d - k /\ d - k < Half
  BY PeriodAssumption DEF SetForward, SetBack, TypeOK, GoneOK, SkewOK, SleepOK
<1>4. /\ ToInt32(clock + k) = ToInt32(Base + d + k)
      /\ ToInt32(clock - k) = ToInt32(Base + d - k)
  BY <1>2, <1>3, PeriodAssumption DEF ToInt32, Int32
<1>5. clock' \in Int32 /\ ClockOK'
  <2>1. CASE SetForward(k)
    <3>1. Base + d + k = Base' + gone' + fwd' - back'
      BY <1>1, <1>2, <2>1 DEF SetForward, TypeOK, Int32
    <3>2. /\ Base + d + k \in Int
          /\ -3 * Half <= Base + d + k /\ Base + d + k < 3 * Half
      BY <1>2, <1>3, PeriodAssumption DEF Int32
    <3>3. clock' = ToInt32(Base + d + k)
      BY <1>4, <2>1 DEF SetForward
    <3>4. QED
      BY <3>1, <3>2, <3>3, ToInt32Type DEF ClockOK
  <2>2. CASE SetBack(k)
    <3>1. Base + d - k = Base' + gone' + fwd' - back'
      BY <1>1, <1>2, <2>2 DEF SetBack, TypeOK, Int32
    <3>2. /\ Base + d - k \in Int
          /\ -3 * Half <= Base + d - k /\ Base + d - k < 3 * Half
      BY <1>2, <1>3, PeriodAssumption DEF Int32
    <3>3. clock' = ToInt32(Base + d - k)
      BY <1>4, <2>2 DEF SetBack
    <3>4. QED
      BY <3>1, <3>2, <3>3, ToInt32Type DEF ClockOK
  <2>3. QED
    BY <2>1, <2>2
<1>6. TypeOK'
  BY <1>1, <1>5, PeriodAssumption DEF SetForward, SetBack, TypeOK, codeVars
<1>7. GoneOK' /\ SkewOK'
  BY <1>1 DEF SetForward, SetBack, TypeOK, GoneOK, SkewOK, codeVars
<1>8. SleepOK' /\ LeadOK'
  BY <1>1, PeriodAssumption
     DEF SetForward, SetBack, TypeOK, Int32, SleepOK, LeadOK, codeVars
<1>9. QED
  BY <1>5, <1>6, <1>7, <1>8

\* The inductive invariant is kept by every step, action by action.
LEMMA IndInvStep == IndInv /\ [Next]_vars => IndInv'
<1> SUFFICES ASSUME IndInv, [Next]_vars PROVE IndInv'
  OBVIOUS
<1> USE DEF IndInv
<1>1. CASE ReadTime
  BY <1>1, ReadStep DEF ReadTime, IdleOK
<1>2. ASSUME NEW w \in 0 .. MaxWork, Update(w) PROVE IndInv'
  BY <1>2, UpdateStep
<1>3. CASE Decide
  BY <1>3, DecideStep DEF Decide, IdleOK
<1>4. ASSUME NEW o \in 0 .. MaxOver, Sleep(o) PROVE IndInv'
  BY <1>4, SleepStep DEF Sleep, IdleOK
<1>5. ASSUME NEW k \in 1 .. MaxSkew, SetForward(k) \/ SetBack(k) PROVE IndInv'
  BY <1>5, SetStep DEF SetForward, SetBack, IdleOK, codeVars
<1>6. CASE UNCHANGED vars
  BY <1>6
     DEF vars, codeVars, clockVars, TimeInv, TypeOK, ClockOK, Base, GoneOK, SkewOK,
         SleepOK, LeadOK, IdleOK
<1>7. QED
  BY <1>1, <1>2, <1>3, <1>4, <1>5, <1>6 DEF Next, Loop

-----------------------------------------------------------------------------
\* In every reachable state the loop satisfies its inductive invariant.
THEOREM Invariance == Spec => []IndInv
BY IndInvInit, IndInvStep, PTL DEF Spec

\* Type correctness: no time, difference or sleep time ever leaves int32_t, so
\* that the arithmetic of Main.cpp:42-59 never overflows.
THEOREM TypeCorrect == Spec => []TypeOK
<1>1. IndInv => TypeOK
  BY DEF IndInv, TimeInv
<1>2. QED
  BY <1>1, Invariance, PTL

\* The World never runs ahead of time, across wraps of the clock and late beats.
THEOREM NeverAheadCorrect == Spec => []NeverAhead
<1>1. IndInv => NeverAhead
  BY PeriodAssumption DEF IndInv, TimeInv, TypeOK, GoneOK, LeadOK, NeverAhead
<1>2. QED
  BY <1>1, Invariance, PTL

\* The World sleeps no longer than a period and what the clock was set back by.
THEOREM SleepCorrect == Spec => []SleepBounded
<1>1. IndInv => SleepBounded
  BY DEF IndInv, TimeInv, SleepOK, SleepBounded
<1>2. QED
  BY <1>1, Invariance, PTL

\* The hosters are moved at least every PassEvery beats, across the wrap of the
\* count.
THEOREM PassesCorrect == Spec => []PassesOnTime
<1>1. IndInv => PassesOnTime
  <2> SUFFICES ASSUME IndInv PROVE PassesOnTime
    OBVIOUS
  <2>1. heart_count \in Int /\ idle \in Nat /\ idle <= heart_count % PassEvery
    BY PeriodAssumption DEF IndInv, TimeInv, TypeOK, Int32, IdleOK
  <2>2. heart_count % PassEvery \in 0 .. PassEvery - 1
    BY <2>1, Split
  <2>3. QED
    BY <2>1, <2>2, PeriodAssumption DEF PassesOnTime
<1>2. QED
  BY <1>1, Invariance, PTL
=============================================================================
