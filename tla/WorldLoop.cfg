\* A clock and a beat count of 32 values, beats that are late, oversleeping, and a
\* system clock that is set.
SPECIFICATION Spec
CONSTANTS
  Period = 2  Half = 16  PassEvery = 5
  MaxWork = 2  MaxOver = 1  MaxSkew = 2  MaxLate = 5
INVARIANTS TypeOK NeverAhead SleepBounded PassesOnTime
