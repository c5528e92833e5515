SPECIFICATION StaySpec
CONSTANTS
  NrPages = 6
  Reserved = {5, 6}
  Lp = {l1, l2, l3, l4, l5, l6}
  St = {s1, s2}
  Inst = {i1, i2}
  Freer = {f1, f2}
  Caller = {c1}
  Orders = {0, 2}
  NrCpus = 2
  SpanFree = FALSE
  None = None
VIEW View
INVARIANTS
  QueryExact
  LpPoolNeverEmpty
PROPERTY
  TrackerSpec
