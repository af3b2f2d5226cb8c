---------------------------- MODULE MCAgentClocks ----------------------------
(* The timer and the rate limit share nothing but the process, so a behaviour *)
(* is of the one or of the other.                                             *)
EXTENDS AgentTimer, RateLimit, Calendar, TLC

VARIABLE side

N(n) == {[range |-> "number", from |-> n, step |-> 1]}
Every(n) == {[range |-> "star", step |-> n]}
Span(a, b, n) == {[range |-> "span", from |-> a, to |-> b, step |-> n]}
From(a, n) == {[range |-> "number", from |-> a, step |-> n]}

\* 2024-02-28 was a Wednesday, 2023-02-28 a Tuesday and 2023-12-31 a Sunday.
Spans ==
  {[first |-> 19781, date |-> [year |-> 2024, month |-> 2, day |-> 28, weekday |-> 3]],
   [first |-> 19416, date |-> [year |-> 2023, month |-> 2, day |-> 28, weekday |-> 2]],
   [first |-> 19722, date |-> [year |-> 2023, month |-> 12, day |-> 31, weekday |-> 0]]}
DaysOf == 2

Dates == UNION {{<<span.first + n, DatesFrom(span.date)[n]>> : n \in 0 .. DaysOf} : span \in Spans}
DateOf(day) == (CHOOSE d \in Dates : d[1] = day)[2]

Chosen ==
  {[minute |-> N(0), hour |-> N(3), day |-> Star, month |-> Star, weekday |-> Star],
   [minute |-> From(50, 5), hour |-> N(23), day |-> N(29) \cup N(1), month |-> Star, weekday |-> Star],
   [minute |-> N(1), hour |-> Every(12), day |-> N(1), month |-> Every(1), weekday |-> N(7)],
   [minute |-> N(30), hour |-> N(2) \cup N(3), day |-> Star, month |-> Span(1, 3, 1) \cup N(12), weekday |-> Span(2, 6, 2)]}

ASSUME ChosenAssumption == Chosen \subseteq Expressions

\* All the minutes of the spans that an expression names, once and for all.
NamedBy ==
  [x \in Chosen |->
    {t \in UNION {{d[1] * Day + n * Minute : n \in 0 .. 1439} : d \in Dates} : Naming(x, DateOf(t \div Day), t)}]

CalendarDue(s, after, until) ==
  {t \in NamedBy[CHOOSE x \in Chosen : Parsed(x) = s] : after < t /\ t <= until}

Setups ==
  {span.first * Day + 3 * Hour + 1 : span \in Spans} \X [Scheduled -> {Parsed(x) : x \in Chosen}]

Init ==
  /\ side \in {"timer", "limit"}
  /\ \E s \in IF side = "timer" THEN Setups ELSE {CHOOSE s \in Setups : TRUE} :
       started = s[1] /\ schedule = s[2]
  /\ TimerInit /\ LimitInit

\* As far as the calendar goes.
Within == \E span \in Spans : clock >= span.first * Day /\ clock < (span.first + DaysOf) * Day

Next ==
  \/ side = "timer" /\ TimerNext /\ UNCHANGED <<side, limit>>
  \/ side = "limit" /\ LimitNext /\ UNCHANGED <<side, timer>>

Spec == Init /\ [][Next]_<<side, timer, limit>>

Stepped == {-90, 7200}
Symmetry == {Swap \in Permutations(Scheduled \cup Clients \cup Requests) :
               \A s \in {Scheduled, Clients, Requests} : {Swap[x] : x \in s} = s}
=============================================================================
