SPECIFICATION Spec
CONSTANTS
  Scheduled = {r1, r2}
  DueIn <- CalendarDue
  Lates = {0, 59, 7200}
  ClockSteps <- Stepped
  MaxSteps = 1
  MaxLate = 1
  Clients = {a, b}
  Requests = {q1, q2}
  Token = 3
  Burst = 4
  Second = 2
  MaxTracked = 1
  MaxInstant = 6
SYMMETRY Symmetry
CONSTRAINT Within
INVARIANTS
  FiresAsDue
  WithinTheRate
PROPERTIES
  WithinTheHour
  ComingBackHelps
CHECK_DEADLOCK FALSE
