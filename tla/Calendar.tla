------------------------------- MODULE Calendar -------------------------------
(***************************************************************************)
(* What a cron expression says by the calendar, to compare module Schedule *)
(* with: dates follow each other, as people count them, from a known one,  *)
(* and an expression names the minutes that the comments of cron.rs say it *)
(* does, after Vixie cron.                                                 *)
(***************************************************************************)
EXTENDS Schedule

IsLeap(year) == year % 4 = 0 /\ (year % 100 # 0 \/ year % 400 = 0)

LastOf(year, month) ==
  IF month = 2 THEN IF IsLeap(year) THEN 29 ELSE 28
  ELSE IF month \in {4, 6, 9, 11} THEN 30 ELSE 31

Tomorrow(d) ==
  [year    |-> IF d.month = 12 /\ d.day = 31 THEN d.year + 1 ELSE d.year,
   month   |-> IF d.day < LastOf(d.year, d.month) THEN d.month ELSE (d.month % 12) + 1,
   day     |-> IF d.day < LastOf(d.year, d.month) THEN d.day + 1 ELSE 1,
   weekday |-> (d.weekday + 1) % 7]

\* The dates from a known one on, by the number of days after it.
DatesFrom(date) ==
  LET c[n \in Nat] == IF n = 0 THEN date ELSE Tomorrow(c[n - 1])
  IN c

\* 1970-01-01 was a Thursday.
Gregorian == DatesFrom([year |-> 1970, month |-> 1, day |-> 1, weekday |-> 4])

Restricted(entries) == entries # {[range |-> "all", step |-> 1]}

Says(e, n, low) ==
  CASE e.range = "all"    -> TRUE
    [] e.range = "star"   -> (n - low) % e.step = 0
    [] e.range = "number" -> IF e.step = 1 THEN n = e.from ELSE n >= e.from /\ (n - e.from) % e.step = 0
    [] e.range = "span"   -> n >= e.from /\ n <= e.to /\ (n - e.from) % e.step = 0
Stands(entries, n, low) == \E e \in entries : Says(e, n, low)

\* What an expression says of a date: if it restricts both the day of the month
\* and the day of the week, that either is as it says.
SaysOf(x, date) ==
  LET ofMonth == Stands(x.day, date.day, 1)
      ofWeek  == \E n \in {date.weekday, date.weekday + 7} \cap 0 .. 7 : Stands(x.weekday, n, 0)
  IN /\ Stands(x.month, date.month, 1)
     /\ IF Restricted(x.day) /\ Restricted(x.weekday) THEN ofMonth \/ ofWeek ELSE ofMonth /\ ofWeek

\* What it says of a second.
Naming(x, date, time) ==
  /\ time % Minute = 0
  /\ Stands(x.hour, (time % Day) \div Hour, 0) /\ Stands(x.minute, (time % Hour) \div Minute, 0)
  /\ SaysOf(x, date)
=============================================================================
