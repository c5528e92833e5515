SPECIFICATION StaySpec
CONSTANTS
  NrPages = 5
  Reserved = {5}
  Lp = {l1, l2, l3, l4, l5}
  St = {s1}
  Inst = {i1}
  Freer = {f1}
  Caller = {c1}
  Orders = {0, 1, 2}
  NrCpus = 2
  SpanFree = TRUE
  None = None
VIEW View
INVARIANT
  CursorInBlock
