------------------------------ MODULE Throttle ------------------------------
(***************************************************************************)
(* useThrottle(value, interval) (ResourceTable.tsx) as used by            *)
(* TableFromResourceClass: a React hook that passes the list it is given  *)
(* on to the table at most about once per interval.                       *)
(*                                                                         *)
(* Time is a discrete clock (one tick is a fixed slice of an interval).   *)
(* Each new `value` is a new version number; a render schedules the       *)
(* passive effect, which runs later (RunEffect), first running the        *)
(* previous effect's cleanup (clearTimeout).  A pending window.setTimeout *)
(* fires exactly when the clock reaches its deadline (Fire).              *)
(***************************************************************************)
EXTENDS Naturals

CONSTANTS
  Interval,    \* the `interval` argument, in ticks
  MaxTime,     \* bound on the clock
  MaxValues    \* bound on the number of distinct values the source produces

ASSUME Interval \in Nat \ {0} /\ MaxTime \in Nat /\ MaxValues \in Nat

NoTimer == [at |-> 0, val |-> 0, eff |-> 0, set |-> FALSE]

VARIABLES
  now,             \* Date.now()
  value,           \* the hook's `value` argument (a version number)
  effectPending,   \* a render with a new value whose effect has not run
  throttledValue,  \* useState: what the table shows
  lastEffected,    \* useRef
  numEffected,     \* useRef
  timer,           \* the pending setTimeout: deadline, captured value and `now`
  mounted,         \* is the component mounted?
  lastEmit,        \* history: time of the last setThrottledValue
  emitCount        \* history: number of setThrottledValue calls

vars == <<now, value, effectPending, throttledValue, lastEffected, numEffected,
          timer, mounted, lastEmit, emitCount>>

\* Mount: useState(value), lastEffected = Date.now() + interval,
\* numEffected = 0; the first effect is pending.
Init ==
  /\ now = 0
  /\ value = 0
  /\ effectPending = TRUE
  /\ throttledValue = 0
  /\ lastEffected = Interval
  /\ numEffected = 0
  /\ timer = NoTimer
  /\ mounted = TRUE
  /\ lastEmit = 0
  /\ emitCount = 0

SetThrottledValue(v) ==
  /\ throttledValue' = v
  /\ lastEmit' = now
  /\ emitCount' = emitCount + 1

\* The source hands the hook a new list (a re-render with a new `value`).
\* Values stop early enough that every timer they set can still fire.
NewValue ==
  /\ mounted
  /\ value < MaxValues
  /\ now + Interval < MaxTime
  /\ value' = value + 1
  /\ effectPending' = TRUE
  /\ UNCHANGED <<now, throttledValue, lastEffected, numEffected, timer,
                 mounted, lastEmit, emitCount>>

\* Mutant: the cleanup is only returned from the deferred branch, and the
\* immediate branch also forgets to clear an older timer.
RunEffectNoClearOnEmit ==
  /\ mounted /\ effectPending
  /\ effectPending' = FALSE
  /\ IF now >= lastEffected + Interval \/ numEffected < 2
       THEN /\ numEffected' = numEffected + 1
            /\ lastEffected' = now
            /\ SetThrottledValue(value)
            /\ UNCHANGED timer
       ELSE /\ timer' = [at |-> now + Interval, val |-> value, eff |-> now, set |-> TRUE]
            /\ UNCHANGED <<numEffected, lastEffected, throttledValue, lastEmit, emitCount>>
  /\ UNCHANGED <<now, value, mounted>>

\* Mutant: a classic throttle that keeps an already scheduled timer.
RunEffectKeepTimer ==
  /\ mounted /\ effectPending
  /\ effectPending' = FALSE
  /\ IF now >= lastEffected + Interval \/ numEffected < 2
       THEN /\ numEffected' = numEffected + 1
            /\ lastEffected' = now
            /\ SetThrottledValue(value)
            /\ timer' = NoTimer
       ELSE /\ timer' = IF timer.set THEN timer
                        ELSE [at |-> now + Interval, val |-> value, eff |-> now, set |-> TRUE]
            /\ UNCHANGED <<numEffected, lastEffected, throttledValue, lastEmit, emitCount>>
  /\ UNCHANGED <<now, value, mounted>>

\* Mutant: only the loading value bypasses the throttle (numEffected < 1).
RunEffectOneUnthrottled ==
  /\ mounted /\ effectPending
  /\ effectPending' = FALSE
  /\ IF now >= lastEffected + Interval \/ numEffected < 1
       THEN /\ numEffected' = numEffected + 1
            /\ lastEffected' = now
            /\ SetThrottledValue(value)
            /\ timer' = NoTimer
       ELSE /\ timer' = [at |-> now + Interval, val |-> value, eff |-> now, set |-> TRUE]
            /\ UNCHANGED <<numEffected, lastEffected, throttledValue, lastEmit, emitCount>>
  /\ UNCHANGED <<now, value, mounted>>

\* The effect for [value, interval]: the previous cleanup clears its timer,
\* then either emit now or defer by a full interval from now.
RunEffect ==
  /\ mounted /\ effectPending
  /\ effectPending' = FALSE
  /\ IF now >= lastEffected + Interval \/ numEffected < 2
       THEN /\ numEffected' = numEffected + 1
            /\ lastEffected' = now
            /\ SetThrottledValue(value)
            /\ timer' = NoTimer
       ELSE /\ timer' = [at |-> now + Interval, val |-> value, eff |-> now, set |-> TRUE]
            /\ UNCHANGED <<numEffected, lastEffected, throttledValue, lastEmit, emitCount>>
  /\ UNCHANGED <<now, value, mounted>>

\* The setTimeout callback: `lastEffected.current = now` is the `now` of
\* the effect that set the timer, not the time the callback runs.
Fire ==
  /\ timer.set
  /\ now = timer.at
  /\ lastEffected' = timer.eff
  /\ SetThrottledValue(timer.val)
  /\ timer' = NoTimer
  /\ UNCHANGED <<now, value, effectPending, numEffected, mounted>>

\* The table unmounts: React runs the last cleanup (clearTimeout).
Unmount ==
  /\ mounted
  /\ mounted' = FALSE
  /\ effectPending' = FALSE
  /\ timer' = NoTimer
  /\ UNCHANGED <<now, value, throttledValue, lastEffected, numEffected,
                 lastEmit, emitCount>>

\* The clock advances; a due timer fires first and a pending passive effect
\* runs within the same tick.
Tick ==
  /\ now < MaxTime
  /\ ~(timer.set /\ timer.at = now)
  /\ ~(mounted /\ effectPending)
  /\ now' = now + 1
  /\ UNCHANGED <<value, effectPending, throttledValue, lastEffected, numEffected,
                 timer, mounted, lastEmit, emitCount>>

Next == NewValue \/ RunEffect \/ Fire \/ Unmount \/ Tick

\* React runs passive effects, timers fire, and time passes.
Fairness == WF_vars(RunEffect) /\ WF_vars(Fire) /\ WF_vars(Tick)

Spec == Init /\ [][Next]_vars /\ Fairness

(***************************************************************************)
(* Properties.                                                             *)
(***************************************************************************)

\* Once the source stops changing, the table eventually shows its latest
\* list (no value is held back forever by a superseded timer).
EventuallyFresh == <>[](mounted => throttledValue = value)

\* The table never goes back to an older list than it already showed: a
\* deferred emission never lands after a newer immediate one.
NeverStale == [][throttledValue' >= throttledValue]_throttledValue

\* The comment above numEffected: neither the loading value nor the first
\* real data is held back by the throttle.  Until two values have been
\* emitted, the table shows the current value as soon as its effect has
\* run, although mount sets lastEffected a full interval in the future.
FirstDataImmediate ==
  mounted /\ ~effectPending /\ emitCount < 2 => throttledValue = value

\* Spec 4.3: after the first two emissions, two emissions are at least
\* `interval` apart.
MinSpacing == [][emitCount' > emitCount /\ emitCount >= 2 => now - lastEmit >= Interval]_vars
=============================================================================
