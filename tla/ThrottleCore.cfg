\* useThrottle(value, interval) as TableFromResourceClass uses it.
CONSTANTS
  Interval = 2
  MaxTime = 8
  MaxValues = 4
SPECIFICATION Spec
PROPERTY EventuallyFresh
PROPERTY NeverStale
INVARIANT FirstDataImmediate
\* The clock is bounded by MaxTime; at its end the component is idle.
CHECK_DEADLOCK FALSE
