SPECIFICATION Spec
CONSTANTS
  Roots = {r1, r2}
  Configured = {r1}
  Paths = {p1, p2}
  Tasks = {t1, t2}
  Scrapes = {c1, c2}
  Threads = {h1, h2}
INVARIANTS
  RunnerSound
PROPERTIES
  AcceptedIsScanned
  Resolves
