SPECIFICATION MCSpec
CONSTANTS
  init = init
  c1 = c1
  c2 = c2
  t1 = t1
  m1 = m1
  m2 = m2
  m3 = m3
  Task = {init, c1, c2, t1}
  Caller = {c1, c2}
  Swapper = init
  Mm = {m1, m2, m3}
  Maps = {m2, m3}
  First <- MCFirst
  Succ <- MCSucc
  None = None
  PTRS_PER_PGD = 4
  PTRS_PER_PUD = 3
  PTRS_PER_PMD = 2
  PTRS_PER_PTE = 2
  PAGE_SIZE = 2
  Pgds <- PgdChoices
  Paddrs <- PaddrChoices
INVARIANTS
  MmInv
  AllSeen
  CountedStays
  ReportTrue
  TablesInv
PROPERTY
  CallEnds
\* Tasks are not forked without end, and a lost caller is not followed.
CHECK_DEADLOCK FALSE
