SPECIFICATION Spec
CONSTANTS
  Node = {n1, n2, n3}
  task_head = task_head
  Task = {t1, t2}
  Page = {p1, p2}
  AnonPages = {p1}
  MaxVmas = 2
  MaxCalls = 2
  None = None
INVARIANTS
  RmapInv
  AllRelated
  ListEnds
SYMMETRY Perms
\* The calls are bounded, and nothing is followed past a fault.
CHECK_DEADLOCK FALSE
