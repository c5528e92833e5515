SPECIFICATION FairSpec
CONSTANTS
  NrPages = 3
  Reserved = {3}
  Lp = {l1, l2, l3}
  St = {s1}
  Inst = {i1}
  Freer = {f1, f2}
  Caller = {c1}
  Orders = {0, 1}
  NrCpus = 2
  SpanFree = FALSE
  None = None
INVARIANTS
  TypeOK
  NoGhost
  StPoolNeverEmpty
  IndInv
PROPERTIES
  HandlersEnd
