------------------------------ MODULE AgentTimer ------------------------------
(***************************************************************************)
(* The agent's timer (crates/agent/src/scheduler.rs, `run`): it sleeps     *)
(* until the next minute any root is due, an hour at most, and hands the   *)
(* roots that are due then to the runner.                                  *)
(*                                                                         *)
(* The wall clock is read; sleeps are measured by the monotonic one, which *)
(* stands still while the machine is suspended.  So a suspension is, like  *)
(* a correction, a step of the wall clock against the other, and it comes  *)
(* at the start of a sleep or at its end.                                  *)
(***************************************************************************)
EXTENDS Schedule, FiniteSets

CONSTANTS
  Scheduled,  \* the roots with a schedule
  DueIn(_, _, _),  \* the minutes of a span a schedule names, by the calendar
  Lates,     \* by how much a sleep may overrun
  ClockSteps,
  MaxSteps, MaxLate  \* how many of each

ASSUME TimerAssumption == IsFiniteSet(Scheduled) /\ Lates \subseteq Nat /\ ClockSteps \subseteq Int

VARIABLES
  schedule,  \* of each root
  started,   \* when the timer started
  clock,     \* the wall clock, in the configuration's zone
  at,        \* Top, Asleep, Awake, Stopped
  fireAt, due, wait,
  fired,     \* history: how often a root was handed over for a minute
  passed,    \* history: spans of the clock that a firing found behind it
  shown,     \* history: for how long the clock has shown fireAt
  late,      \* history: by how much the last sleep overran
  steps, setBack, overruns

sleeping == <<fireAt, due, wait>>
told == <<fired, passed, shown, late, steps, setBack, overruns>>
timer == <<schedule, started, clock, at, sleeping, told>>

MaxSleep == 3600
NotYet == -1

(***************************************************************************)
(* The loop.                                                               *)
(***************************************************************************)
NextOf(r, from) == NextAfter(schedule[r], from)
Soonest(from) == LET all == {NextOf(r, from) : r \in Scheduled} \ {Never}
                 IN IF all = {} THEN Never ELSE Min(all)

\* Mutant: sleep until it is time.
SleepUntil(until, from) == until - from

SleepFor(until, from) == Min({until - from, MaxSleep})

\* next_due
Plan ==
  /\ at = "Top"
  /\ fireAt' = Soonest(clock)
  /\ IF fireAt' = Never
     THEN at' = "Stopped" /\ UNCHANGED <<due, wait>>
     ELSE /\ at' = "Asleep"
          /\ due' = {r \in Scheduled : NextOf(r, clock) = fireAt'}
          /\ wait' = SleepFor(fireAt', clock)
  /\ shown' = NotYet
  /\ UNCHANGED <<schedule, started, clock, fired, passed, late, steps, setBack, overruns>>

\* `while` seconds go by, and the clock has shown fireAt for `for` at most.
Shows(while, for) ==
  shown' = IF clock' < fireAt THEN NotYet ELSE IF shown = NotYet THEN for ELSE shown + while

Sleep(more) ==
  /\ at = "Asleep" /\ at' = "Awake"
  /\ clock' = clock + wait + more /\ late' = more
  /\ overruns' = overruns + (IF more > 0 THEN 1 ELSE 0) /\ overruns' <= MaxLate
  /\ Shows(wait + more, clock' - fireAt)
  /\ UNCHANGED <<schedule, started, sleeping, fired, passed, steps, setBack>>

\* now_unix takes a clock before 1970 to be at its beginning.
StepClock(by) ==
  /\ at \in {"Asleep", "Awake"} /\ steps < MaxSteps /\ steps' = steps + 1
  /\ clock + by >= 0 /\ clock' = clock + by /\ setBack' = (setBack \/ by < 0)
  /\ Shows(0, 0)
  /\ UNCHANGED <<schedule, started, at, sleeping, fired, passed, late, overruns>>

\* The hour is over, or the clock was set back.
Early ==
  /\ at = "Awake" /\ clock < fireAt /\ at' = "Top"
  /\ UNCHANGED <<schedule, started, clock, sleeping, told>>

Times(r, minute) == Cardinality({f \in fired : f.root = r /\ f.minute = minute})

FireDue ==
  /\ at = "Awake" /\ clock >= fireAt /\ at' = "Top"
  /\ fired' = fired \cup {[root |-> r, minute |-> fireAt, time |-> Times(r, fireAt)] : r \in due}
  /\ passed' = passed \cup {<<fireAt, clock>>}
  /\ UNCHANGED <<schedule, started, clock, sleeping, shown, late, steps, setBack, overruns>>

TimerInit ==
  /\ clock = started /\ at = "Top"
  /\ fireAt = Never /\ due = {} /\ wait = 0
  /\ fired = {} /\ passed = {} /\ shown = NotYet /\ late = 0
  /\ steps = 0 /\ setBack = FALSE /\ overruns = 0

TimerNext ==
  \/ Plan \/ Early \/ FireDue
  \/ \E more \in Lates : Sleep(more)
  \/ \E by \in ClockSteps : StepClock(by)

TimerSpec ==
  /\ started \in Nat /\ schedule \in [Scheduled -> {Parsed(x) : x \in Expressions}]
  /\ TimerInit /\ [][TimerNext]_timer

(***************************************************************************)
(* Properties.                                                             *)
(***************************************************************************)
\* Every minute a root is due is handed to the runner, whatever the calendar
\* makes of its expression, except those that went by between the minute another
\* root was due and the moment the timer woke for it.
MissedOnlyWhilePassed ==
  at = "Top" =>
    \A r \in Scheduled : \A m \in DueIn(schedule[r], started, clock) :
      Times(r, m) > 0 \/ \E p \in passed : p[1] < m /\ m <= p[2]

\* Never for a minute it is not due, and never twice for one unless the clock
\* was set back.
OnlyDueAndOnce ==
  \A f \in fired :
    /\ f.minute \in DueIn(schedule[f.root], f.minute - Minute, f.minute)
    /\ f.time > 0 => setBack

\* A root is handed over for the minutes its schedule names, and for no other.
FiresAsDue == MissedOnlyWhilePassed /\ OnlyDueAndOnce

\* However the clock is stepped, within the hour of showing a root's minute it
\* is handed over (MAX_SLEEP, scheduler.rs:14), and what the sleep overruns.
WithinTheHour ==
  [][FireDue => shown <= MaxSleep + late]_timer
=============================================================================
