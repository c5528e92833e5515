SPECIFICATION StaySpec
CONSTANTS
  NrPages = 6
  Reserved = {5, 6}
  Lp = {l1, l2, l3, l4, l5, l6}
  St = {s1}
  Inst = {i1}
  Freer = {f1}
  Caller = {c1}
  Orders = {0, 1, 2}
  NrCpus = 1
  SpanFree = TRUE
  None = None
VIEW View
INVARIANTS
  CursorInBlock
  RecordsAccounted
PROPERTY
  TrackerSpec
