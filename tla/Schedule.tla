------------------------------- MODULE Schedule -------------------------------
(***************************************************************************)
(* When a root is due (crates/agent/src/cron.rs, `Schedule`): the five     *)
(* fields of a cron expression as the sets of what they name, and the next *)
(* minute that matches.  Times are seconds, days are counted from          *)
(* 1970-01-01, in the clock of the configuration.                          *)
(***************************************************************************)
EXTENDS Integers, FiniteSetsExt

Minute == 60
Hour == 3600
Day == 86400
SearchLimitDays == 4 * 366
Never == -1

(***************************************************************************)
(* parse_field: an entry is a star, a number or a range, with a step or    *)
(* without.  A field that is a star alone is told from a list of one.      *)
(***************************************************************************)
\* The code has u32: from 2^32 - 59 on, a step overflows as it is added.
MaxStep == 2147483647
Steps == {n \in Nat \ {0} : n <= MaxStep}

Star == {[range |-> "all", step |-> 1]}

Entries(low, high) ==
  [range : {"star"}, step : Steps]
  \cup [range : {"number"}, from : low .. high, step : Steps]
  \cup {e \in [range : {"span"}, from : low .. high, to : low .. high, step : Steps] : e.from <= e.to}

Fields(low, high) == {Star} \cup ((SUBSET Entries(low, high)) \ {{}})

Expressions ==
  [minute : Fields(0, 59), hour : Fields(0, 23), day : Fields(1, 31), month : Fields(1, 12), weekday : Fields(0, 7)]

EntryRange(e, low, high) ==
  IF e.range \in {"all", "star"} THEN <<low, high>>
  ELSE IF e.range = "number" THEN <<e.from, IF e.step > 1 THEN high ELSE e.from>>
  ELSE <<e.from, e.to>>

Named(e, low, high) ==
  LET r == EntryRange(e, low, high)
  IN {n \in r[1] .. r[2] : (n - r[1]) % e.step = 0}

Field(entries, low, high) == UNION {Named(e, low, high) : e \in entries}

\* Sunday is 0 and 7.
WeekdayField(entries) ==
  LET f == Field(entries, 0, 7) IN IF 7 \in f THEN (f \ {7}) \cup {0} ELSE f

Parsed(x) ==
  [minutes  |-> Field(x.minute, 0, 59),
   hours    |-> Field(x.hour, 0, 23),
   days     |-> Field(x.day, 1, 31),
   months   |-> Field(x.month, 1, 12),
   weekdays |-> WeekdayField(x.weekday),
   byDay     |-> x.day # Star,
   byWeekday |-> x.weekday # Star]

(***************************************************************************)
(* The calendar.                                                           *)
(***************************************************************************)
CivilFromDays(days) ==
  LET z   == days + 719468
      doe == z % 146097
      yoe == (doe - doe \div 1460 + doe \div 36524 - doe \div 146096) \div 365
      doy == doe - (365 * yoe + yoe \div 4 - yoe \div 100)
      mp  == (5 * doy + 2) \div 153
  IN [day   |-> doy - (153 * mp + 2) \div 5 + 1,
      month |-> IF mp < 10 THEN mp + 3 ELSE mp - 9]

Weekday(days) == (days + 4) % 7

(***************************************************************************)
(* The next minute that matches.                                           *)
(***************************************************************************)

\* When the day of the month and of the week are both restricted, either does.
MatchesDay(s, days) ==
  LET date  == CivilFromDays(days)
      byDay == date.day \in s.days
      byWeekday == Weekday(days) \in s.weekdays
  IN /\ date.month \in s.months
     /\ CASE s.byDay /\ s.byWeekday -> byDay \/ byWeekday
          [] s.byDay /\ ~s.byWeekday -> byDay
          [] ~s.byDay /\ s.byWeekday -> byWeekday
          [] OTHER -> TRUE

\* first_time_of_day_from; Never when the day has no more.
FirstTimeFrom(s, from) ==
  LET times == {t \in {h * Hour + m * Minute : h \in s.hours, m \in s.minutes} : t >= from}
  IN IF times = {} THEN Never ELSE Min(times)

\* Mutant: the minute that is running matches too.
ThisMinute(after) == (after \div Minute) * Minute

NextMinute(after) == (after \div Minute + 1) * Minute

FirstOn(s, start, offset) ==
  FirstTimeFrom(s, IF offset = 0 THEN start % Day ELSE 0)

Hits(s, start, offset) ==
  MatchesDay(s, start \div Day + offset) /\ FirstOn(s, start, offset) # Never

IsFirst(s, start, offset) ==
  Hits(s, start, offset) /\ \A o \in 0 .. offset - 1 : ~Hits(s, start, o)

\* next_after; Never when nothing matches within the days it searches.
NextAfter(s, after) ==
  LET start  == NextMinute(after)
      within == 0 .. SearchLimitDays - 1
      offset == CHOOSE o \in within : IsFirst(s, start, o)
  IN IF \E o \in within : Hits(s, start, o)
     THEN (start \div Day + offset) * Day + FirstOn(s, start, offset)
     ELSE Never
=============================================================================
