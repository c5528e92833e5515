SPECIFICATION ColdSpec
CONSTANTS
  NrPages = 4
  Reserved = {4}
  Lp = {l1, l2, l3, l4}
  St = {s1}
  Inst = {i1}
  Freer = {f1}
  Caller = {c1}
  Orders = {0, 1}
  NrCpus = 1
  SpanFree = FALSE
  None = None
INVARIANT
  QueryExact
