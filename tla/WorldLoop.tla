------------------------------ MODULE WorldLoop ------------------------------
(***************************************************************************)
(* WorldUpdateLoop, World::Update and the time functions of Timer.h.       *)
(*                                                                         *)
(* GetTime() is the low 32 bits, signed, of the milliseconds the system    *)
(* clock has moved since the first call; sleep_for does not depend on the  *)
(* system clock.  The system clock may be set forwards or backwards at any *)
(* time.  Half stands for 2^31, so that both the clock and the beat count  *)
(* wrap in a run.  What passes between two statements is part of the work  *)
(* of Update or of the oversleeping.                                       *)
(*                                                                         *)
(* lead is what the loop cannot see: how many milliseconds of beats were   *)
(* run beyond the time that has really passed.                             *)
(***************************************************************************)
EXTENDS Integers

CONSTANTS
  Period,     \* const_world_sleep, 50
  Half,       \* 2^31
  PassEvery,  \* beats per pass over the hosters, 20
  MaxWork,    \* bound: the longest Update, ms
  MaxOver,    \* bound: the longest oversleeping, ms
  MaxSkew,    \* bound: the total the system clock is set by, ms
  MaxLate     \* bound: lateness is counted up to here

ASSUME PeriodAssumption ==
  /\ Period \in Nat \ {0} /\ Half \in Nat /\ PassEvery \in Nat \ {0}
  /\ MaxWork \in Nat /\ MaxOver \in Nat /\ MaxSkew \in Nat /\ MaxLate \in Nat
  /\ 2 * MaxWork + MaxOver <= MaxLate
  \* Between two readings of the clock less than 2^31 ms (25 days) go by.
  /\ 2 * Period + MaxWork + MaxOver + 2 * MaxSkew + 2 < Half

\* 2^31 leaves 8 when it is divided by 20.
ASSUME PassAssumption == 2 * (Half % PassEvery) <= PassEvery

VARIABLES
  pc,               \* the next statement of the loop: "read", "update", "decide", "sleep"
  clock,            \* what GetTime() returns now
  prev_time, curr_time, diff, prev_sleep_time,
  heart_count,      \* the low 32 bits of _heart_count, which are all that is used
  idle,             \* beats since the hosters were moved
  gone,             \* time really passed since the last reading
  fwd, back,        \* what the clock was set by since the last reading
  backBefore,       \* back, for the interval that diff measures
  forward,          \* the sum of all forward settings
  moved,            \* the sum of all settings
  lead

codeVars  == <<pc, prev_time, curr_time, diff, prev_sleep_time, heart_count, idle>>
clockVars == <<clock, gone, fwd, back, backBefore, forward, moved, lead>>
vars == <<codeVars, clockVars>>

Int32 == -Half .. Half - 1

\* Conversion to int32_t of a number less than 2^32 away from its range.
ToInt32(x) == IF x >= Half THEN x - 2 * Half
              ELSE IF x < -Half THEN x + 2 * Half ELSE x

Init ==
  /\ pc = "read" /\ clock = 0
  /\ prev_time = 0 /\ curr_time = 0 /\ diff = 0 /\ prev_sleep_time = 0
  /\ heart_count = 0 /\ idle = 0
  /\ gone = 0 /\ fwd = 0 /\ back = 0 /\ backBefore = 0
  /\ forward = 0 /\ moved = 0 /\ lead = 0

\* Time passes.
Pass(t) ==
  /\ clock' = ToInt32(clock + t)
  /\ gone' = gone + t
  /\ lead' = IF lead - t < -MaxLate THEN -MaxLate ELSE lead - t

-----------------------------------------------------------------------------
\* Mutant: the wrap is not handled.
PlainDiff(old_time, new_time) == new_time - old_time

\* The first case is computed in uint32_t (0xFFFFFFFF is one short of a full
\* turn) and converted to int32_t.
GetTimeDiff(old_time, new_time) ==
  IF old_time > new_time THEN ToInt32((2 * Half - 1 - old_time) + new_time)
                         ELSE ToInt32(new_time - old_time)

\* curr_time = GetTime(), and the time since the last beat.
ReadTime ==
  /\ pc = "read" /\ pc' = "update"
  /\ curr_time' = clock
  /\ diff' = GetTimeDiff(prev_time, clock)
  /\ gone' = 0 /\ fwd' = 0 /\ back' = 0 /\ backBefore' = back
  /\ lead' = lead + Period
  /\ UNCHANGED <<prev_time, prev_sleep_time, heart_count, idle, clock, forward,
                 moved>>

\* Mutant: only a positive count moves the hosters.
PositivePass(count) == count > 0 /\ count % PassEvery = 0

\* The test of Hoster::Update on the int32_t it is given.
IsPass(count) == count % PassEvery = 0

\* World::Update, which takes w.
Update(w) ==
  /\ pc = "update" /\ pc' = "decide"
  /\ heart_count' = ToInt32(heart_count + 1)
  /\ idle' = IF IsPass(heart_count') THEN 0 ELSE idle + 1
  /\ Pass(w)
  /\ UNCHANGED <<prev_time, curr_time, diff, prev_sleep_time, fwd, back, backBefore,
                 forward, moved>>

\* Mutant: a late beat does not clear the sleep time of the one before.
DecideNoReset ==
  LET due == Period + prev_sleep_time IN
  /\ pc = "decide"
  /\ prev_time' = curr_time
  /\ IF diff <= due THEN prev_sleep_time' = due - diff /\ pc' = "sleep"
                    ELSE UNCHANGED prev_sleep_time /\ pc' = "read"
  /\ diff' = 0
  /\ UNCHANGED <<curr_time, heart_count, idle, clockVars>>

\* Mutant: the time slept before is not added.
DecideForgets ==
  /\ pc = "decide"
  /\ prev_time' = curr_time
  /\ IF diff <= Period THEN prev_sleep_time' = Period - diff /\ pc' = "sleep"
                       ELSE prev_sleep_time' = 0 /\ pc' = "read"
  /\ diff' = 0
  /\ UNCHANGED <<curr_time, heart_count, idle, clockVars>>

\* The rest of the body, up to sleep_for.
Decide ==
  LET due == Period + prev_sleep_time IN
  /\ pc = "decide"
  /\ prev_time' = curr_time
  /\ IF diff <= due THEN prev_sleep_time' = due - diff /\ pc' = "sleep"
                    ELSE prev_sleep_time' = 0 /\ pc' = "read"
  /\ diff' = 0
  /\ UNCHANGED <<curr_time, heart_count, idle, clockVars>>

\* sleep_for, which may take longer by o.
Sleep(o) ==
  /\ pc = "sleep" /\ pc' = "read"
  /\ Pass(prev_sleep_time + o)
  /\ backBefore' = 0
  /\ UNCHANGED <<prev_time, curr_time, diff, prev_sleep_time, heart_count, idle, fwd,
                 back, forward, moved>>

\* Somebody sets the system clock.
SetForward(k) ==
  /\ moved + k <= MaxSkew
  /\ clock' = ToInt32(clock + k)
  /\ fwd' = fwd + k /\ forward' = forward + k /\ moved' = moved + k
  /\ UNCHANGED <<codeVars, gone, back, backBefore, lead>>

SetBack(k) ==
  /\ moved + k <= MaxSkew
  /\ clock' = ToInt32(clock - k)
  /\ back' = back + k /\ moved' = moved + k
  /\ UNCHANGED <<codeVars, gone, fwd, backBefore, forward, lead>>

-----------------------------------------------------------------------------
Loop == \/ ReadTime \/ Decide
        \/ \E w \in 0 .. MaxWork : Update(w)
        \/ \E o \in 0 .. MaxOver : Sleep(o)

Next == Loop \/ \E k \in 1 .. MaxSkew : SetForward(k) \/ SetBack(k)

Spec == Init /\ [][Next]_vars

-----------------------------------------------------------------------------
\* Every variable keeps its type: no reading, difference or sleep time leaves
\* int32_t, also not when the clock wraps or is set (Main.cpp:38-59).
TypeOK ==
  /\ pc \in {"read", "update", "decide", "sleep"}
  /\ clock \in Int32 /\ prev_time \in Int32 /\ curr_time \in Int32 /\ diff \in Int32
  /\ prev_sleep_time \in 0 .. Half - 1 - Period
  /\ heart_count \in Int32
  /\ idle \in Nat /\ gone \in Nat /\ fwd \in Nat /\ back \in Nat
  /\ backBefore \in Nat /\ forward \in Nat /\ moved \in 0 .. MaxSkew
  /\ lead \in Int

\* The World never runs ahead of time ("the period is 50 ms", World.cpp:45): when
\* beat n + 1 starts, n periods have passed since the first, however the beats
\* before it were late or overslept, and also where the clock wraps; only setting
\* the clock forwards can win time, and no more than it was set by.
NeverAhead == pc = "read" => lead <= forward

\* The loop never sleeps longer than a period, one ms more at a wrap of the clock,
\* and as much longer as the clock was set back during this very beat: a sleep
\* time is never carried from a beat that did not sleep (Main.cpp:50-60).
SleepBounded == pc = "sleep" => prev_sleep_time <= Period + 1 + backBefore

\* "1S" (Hoster.cpp:88): the hosters are never left standing for more than
\* PassEvery beats, not even where the 64 bit count is cut to int32_t and wraps.
PassesOnTime == idle < PassEvery
=============================================================================
