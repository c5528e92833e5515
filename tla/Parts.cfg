SPECIFICATION Spec
CONSTANTS
  Lp = {l1, l2, l3, l4}
  NrPages = 4
  None = None
  NrLp = 3
  User = {u1, u2, u3}
  Order = Order
  NULL = NULL
  ModA = ModA
  ModB = ModB
  NoModule = NoModule
  MaxDepth = 6
  Stacks <- MCStacks
  ModuleOf <- MCModuleOf
  LOG_PAGE_TRACE_LEVEL = 4
  KPROBES_SKIP_NUM = 1
  LOG_MODULE_MAX_NUM = 2
  Cpu = {1, 2}
  BITS_PER_LONG = 3
  Trees <- MCTrees
  Stabs <- MCStabs
  NoNode = NoNode
  totalram_pages = 4
  Valid = {0, 2, 4, 6}
  IntBits = 3
  MaxOwner = 2
  MaxSize = 5
  PageSize = 1
INVARIANTS
  TreeInv
  FreeListInv
  CaptureInv
  NoCircle
  VmasExact
  IterMatchesPath
  SeqInv
PROPERTIES
  PoolSpec
  WalksEnd
\* A trace, a walk and a listing end, and a processor that spins for itself stops
\* the others too.
CHECK_DEADLOCK FALSE
