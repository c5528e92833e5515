------------------------------- MODULE LogPage -------------------------------
(***************************************************************************)
(* The page-allocation tracker of mem_leak/kerspace/huawei_log_page.c.     *)
(*                                                                         *)
(* A return probe on __alloc_pages_nodemask takes a log record (struct     *)
(* log_page_struct) from a pool when the call begins, stores the caller's  *)
(* trace in it, and links it into a red-black tree when the call returns.  *)
(* Two entry probes, on __free_pages_ok and free_hot_cold_page, shrink,    *)
(* split or erase the records of the pages being freed before the kernel   *)
(* frees them.  print_page answers a query by searching the tree.          *)
(*                                                                         *)
(* A step is the longest stretch of a handler that no other handler can    *)
(* interfere with: one critical section of lp_pool_lock or st_pool_lock,   *)
(* or one iteration of the free loop under lp_lock.  Pages are numbers,    *)
(* as pointers into the memory map are, and 0 is the null pointer.         *)
(***************************************************************************)
EXTENDS Integers, FiniteSets

CONSTANTS
  NrPages,   \* what get_nr_pages() counts: all valid page frames
  Reserved,  \* the frames that hold lp_pool itself: taken before any probe
             \* is planted, given back only after the last one is removed
  Lp,        \* the log records of lp_pool
  St,        \* the stack-trace buffers of st_pool
  Inst,      \* the kretprobe instances (MAXACTIVE of them)
  Freer,     \* the kernel contexts that free pages
  Caller,    \* the call traces that can be told apart
  Orders,    \* the orders of the page blocks the kernel allocates and frees
  NrCpus,    \* how many handlers can run at a time
  SpanFree,  \* whether one free may cover several allocations (the comment's
             \* special case 3, huawei_log_page.c:520)
  None

\* The frames that get_nr_pages counts, over all nodes and zones; how it counts
\* them is left out.
Page == 1..NrPages
Null == 0
Probe == {"alloc_pages_nodemask", "free_pages_ok", "free_hot_cold_page"}
FreeProbe == Probe \ {"alloc_pages_nodemask"}

ASSUME PageAssumption ==
  /\ NrPages \in Nat \ {0}
  /\ Reserved \subseteq Page
  /\ Orders \subseteq Nat
  /\ \A k \in Orders \cup {0} : 2^k \in Nat \ {0}

ASSUME PoolAssumption ==
  /\ IsFiniteSet(Lp) /\ Cardinality(Lp) = NrPages
  /\ IsFiniteSet(Inst) /\ IsFiniteSet(St)
  /\ Cardinality(Inst) <= Cardinality(St)
  /\ Cardinality(Inst) <= Cardinality(Reserved)

ASSUME NoneAssumption ==
  /\ None \notin Lp \cup St \cup Inst \cup Freer \cup Caller
  /\ None \notin [page : Page, order : Orders, by : Caller \cup {None}]
  /\ None \notin [start : Nat, end : Nat, entries : Caller \cup {None}]

ASSUME EnvironmentAssumption ==
  /\ NrCpus \in Nat \ {0}
  /\ SpanFree \in BOOLEAN

VARIABLES
  phase,   \* how far huawei_log_page_init or _exit has come
  probes,  \* the probes that are planted
  lpFree,  \* the records on the free list of lp_pool
  stFree,  \* the buffers on the free list of st_pool
  rec,     \* the contents of every record
  tree,    \* the records linked into lp_root
  lpLock,  \* the holder of lp_lock across steps, or None
  inst,    \* per kretprobe instance: its allocation and its handlers' locals
  freer,   \* per freeing context: its free and its handler's locals
  busy,    \* (kernel) the pages that are not in the buddy allocator
  owner    \* (kernel) per page, the allocation that gave it to its owner

modVars    == <<phase, probes>>
poolVars   == <<lpFree, stFree>>
kernelVars == <<busy, owner>>
vars == <<phase, probes, lpFree, stFree, rec, tree, lpLock, inst, freer,
          busy, owner>>

-----------------------------------------------------------------------------
(* Blocks, records and searches.                                           *)

\* The pages of a block, and the address after its last page.
End(p, k)  == p + 2^k
Span(p, k) == p .. (End(p, k) - 1)

\* The blocks the buddy allocator deals in: aligned to their own size.
IsBlock(p, k) == Span(p, k) \subseteq Page /\ (p - 1) % 2^k = 0

Allocation == [page : Page, order : Orders, by : Caller \cup {None}]

Blank == [order |-> 0, start_page |-> Null, end_page |-> Null, entries |-> None]

Idle == [pc |-> "idle", order |-> 0, caller |-> None, lp |-> None,
         st |-> None, page |-> Null]
Done == [pc |-> "idle", page |-> Null, order |-> 0, start |-> Null,
         lp |-> None]

Extent(l) == rec[l].start_page .. (rec[l].end_page - 1)

\* Mutant: the end of an extent belongs to it.
find_lpClosed(p) ==
  {l \in tree : rec[l].start_page <= p /\ p <= rec[l].end_page}

\* The records a search of the tree for page p can end at; find_lp returns
\* NULL when there is none.
find_lp(p) == {l \in tree : rec[l].start_page <= p /\ p < rec[l].end_page}

Tracked == UNION {Extent(l) : l \in tree}

\* A probe handler runs with preemption off: it needs a processor to itself
\* until its last step.
InHandler == {i \in Inst : inst[i].pc \in {"trace", "unwind", "insert"}}
InFree    == {f \in Freer : freer[f].pc \in {"loop", "reload"}}
CpuFree   == Cardinality(InHandler) + Cardinality(InFree) < NrCpus

-----------------------------------------------------------------------------
(* The return probe on __alloc_pages_nodemask.                             *)

\* The entry handler takes a record from the pool and notes the order.  An
\* empty free list is a null dereference in __alloc_lp: LpPoolNeverEmpty.
EntryAllocLp(i, k, c) ==
  /\ "alloc_pages_nodemask" \in probes
  /\ inst[i].pc = "idle"
  /\ CpuFree
  /\ \E l \in lpFree :
       /\ lpFree' = lpFree \ {l}
       /\ rec' = [rec EXCEPT ![l] = [Blank EXCEPT !.order = k]]
       /\ inst' = [inst EXCEPT ![i] = [Idle EXCEPT !.pc = "trace",
                                       !.order = k, !.caller = c, !.lp = l]]
  /\ UNCHANGED <<modVars, stFree, tree, lpLock, freer, kernelVars>>

\* get_lp_call_stack takes a trace buffer: StPoolNeverEmpty.
EntryAllocSt(i) ==
  /\ inst[i].pc = "trace"
  /\ \E s \in stFree :
       /\ stFree' = stFree \ {s}
       /\ inst' = [inst EXCEPT ![i] = [@ EXCEPT !.pc = "unwind", !.st = s]]
  /\ UNCHANGED <<modVars, lpFree, rec, tree, lpLock, freer, kernelVars>>

\* Mutant: free_st is forgotten.
EntryTraceKeepsSt(i) ==
  /\ inst[i].pc = "unwind"
  /\ rec' = [rec EXCEPT ![inst[i].lp] =
                           [@ EXCEPT !.entries = inst[i].caller]]
  /\ inst' = [inst EXCEPT ![i] = [@ EXCEPT !.pc = "called", !.st = None]]
  /\ UNCHANGED <<modVars, poolVars, tree, lpLock, freer, kernelVars>>

\* It stores the trace in the record and returns the buffer; the entry
\* handler leaves the record in the instance's data, and the call proceeds.
EntryTrace(i) ==
  /\ inst[i].pc = "unwind"
  /\ rec' = [rec EXCEPT ![inst[i].lp] =
                           [@ EXCEPT !.entries = inst[i].caller]]
  /\ stFree' = stFree \cup {inst[i].st}
  /\ inst' = [inst EXCEPT ![i] = [@ EXCEPT !.pc = "called", !.st = None]]
  /\ UNCHANGED <<modVars, lpFree, tree, lpLock, freer, kernelVars>>

\* The kernel's allocator finds a block, or returns NULL.
KernelAlloc(i, p) ==
  /\ inst[i].pc = "called"
  /\ IsBlock(p, inst[i].order)
  /\ Span(p, inst[i].order) \cap busy = {}
  /\ busy' = busy \cup Span(p, inst[i].order)
  /\ inst' = [inst EXCEPT ![i] = [@ EXCEPT !.pc = "returned", !.page = p]]
  /\ UNCHANGED <<modVars, poolVars, rec, tree, lpLock, freer, owner>>

KernelAllocFails(i) ==
  /\ inst[i].pc = "called"
  /\ inst' = [inst EXCEPT ![i] = [@ EXCEPT !.pc = "returned"]]
  /\ UNCHANGED <<modVars, poolVars, rec, tree, lpLock, freer, kernelVars>>

\* Mutant: a failed allocation keeps its record.
RetFreeLpLeaks(i) ==
  /\ inst[i].pc = "returned"
  /\ inst[i].page = Null
  /\ CpuFree
  /\ inst' = [inst EXCEPT ![i] = Idle]
  /\ UNCHANGED <<modVars, poolVars, rec, tree, lpLock, freer, kernelVars>>

\* The return handler gives the record back when the call returned NULL.
\* From here on nothing reads the record before alloc_lp clears it again, so
\* it is cleared here.
RetFreeLp(i) ==
  /\ inst[i].pc = "returned"
  /\ inst[i].page = Null
  /\ CpuFree
  /\ lpFree' = lpFree \cup {inst[i].lp}
  /\ rec' = [rec EXCEPT ![inst[i].lp] = Blank]
  /\ inst' = [inst EXCEPT ![i] = Idle]
  /\ UNCHANGED <<modVars, stFree, tree, lpLock, freer, kernelVars>>

\* Mutant: the NULL return value is not told apart.
RetSetExtentNull(i) ==
  /\ inst[i].pc = "returned"
  /\ CpuFree
  /\ rec' = [rec EXCEPT ![inst[i].lp] =
       [@ EXCEPT !.start_page = inst[i].page,
                 !.end_page = End(inst[i].page, rec[inst[i].lp].order)]]
  /\ inst' = [inst EXCEPT ![i] = [@ EXCEPT !.pc = "insert"]]
  /\ UNCHANGED <<modVars, poolVars, tree, lpLock, freer, kernelVars>>

\* log_page_alloc_with_lp fills in the extent from the order saved in the
\* record, before it takes lp_lock ...
RetSetExtent(i) ==
  /\ inst[i].pc = "returned"
  /\ inst[i].page # Null
  /\ CpuFree
  /\ rec' = [rec EXCEPT ![inst[i].lp] =
       [@ EXCEPT !.start_page = inst[i].page,
                 !.end_page = End(inst[i].page, rec[inst[i].lp].order)]]
  /\ inst' = [inst EXCEPT ![i] = [@ EXCEPT !.pc = "insert"]]
  /\ UNCHANGED <<modVars, poolVars, tree, lpLock, freer, kernelVars>>

\* ... and links the record under the lock.  The caller gets its pages.
RetInsert(i) ==
  /\ inst[i].pc = "insert"
  /\ lpLock = None
  /\ tree' = tree \cup {inst[i].lp}
  /\ owner' = [q \in Page |->
       IF q \in Span(inst[i].page, inst[i].order)
       THEN [page |-> inst[i].page, order |-> inst[i].order,
             by |-> inst[i].caller]
       ELSE owner[q]]
  /\ inst' = [inst EXCEPT ![i] = Idle]
  /\ UNCHANGED <<modVars, poolVars, rec, lpLock, freer, busy>>

\* An allocation no instance follows: the probe is not planted, or all
\* MAXACTIVE instances are in use and kretprobe counts a miss.
AllocUntraced(p, k) ==
  /\ "alloc_pages_nodemask" \in probes => \A i \in Inst : inst[i].pc # "idle"
  /\ IsBlock(p, k)
  /\ Span(p, k) \cap busy = {}
  /\ busy' = busy \cup Span(p, k)
  /\ owner' = [q \in Page |->
       IF q \in Span(p, k)
       THEN [page |-> p, order |-> k, by |-> None]
       ELSE owner[q]]
  /\ UNCHANGED <<modVars, poolVars, rec, tree, lpLock, inst, freer>>

-----------------------------------------------------------------------------
(* The probes on the freeing functions: do_log_page_free.                  *)

\* A block that its owners may give back with one call: whole or part of one
\* allocation, or, where the kernel does that, of several.
Freeable(p, k) ==
  /\ IsBlock(p, k)
  /\ \A q \in Span(p, k) : owner[q] # None
  /\ SpanFree \/ \A q \in Span(p, k) : owner[q] = owner[p]

\* __free_pages frees single pages through free_hot_cold_page and larger blocks
\* through __free_pages_ok.
FreedThrough(k) == IF k = 0 THEN "free_hot_cold_page" ELSE "free_pages_ok"

GiveUp(p, k) == owner' = [q \in Page |->
                            IF q \in Span(p, k) THEN None ELSE owner[q]]

\* The probe's handler has the lock and the loop starts at the first page.
\* (jfree_hot_cold_page takes the kernel's flag "cold" for the order: 0, the
\* order of the page, here; LogPageCold has the frees whose flag is 1.)
FreeEnter(f, p, k, fn) ==
  /\ freer[f].pc = "idle"
  /\ Freeable(p, k)
  /\ fn = FreedThrough(k)
  /\ fn \in probes
  /\ CpuFree
  /\ lpLock = None
  /\ lpLock' = f
  /\ freer' = [freer EXCEPT ![f] =
       [pc |-> "loop", page |-> p, order |-> k, start |-> p, lp |-> None]]
  /\ GiveUp(p, k)
  /\ UNCHANGED <<modVars, poolVars, rec, tree, inst, busy>>

\* The probe on the function that frees this block is not planted.
FreeUnprobed(f, p, k, fn) ==
  /\ freer[f].pc = "idle"
  /\ Freeable(p, k)
  /\ fn = FreedThrough(k)
  /\ fn \notin probes
  /\ freer' = [freer EXCEPT ![f] =
       [pc |-> "release", page |-> p, order |-> k, start |-> p, lp |-> None]]
  /\ GiveUp(p, k)
  /\ UNCHANGED <<modVars, poolVars, rec, tree, lpLock, inst, busy>>

FreeEnd(f) == End(freer[f].page, freer[f].order)

\* Mutant: the break tests for a cursor past the end.
CheckBreakLate(f, s) ==
  /\ freer' = [freer EXCEPT ![f] =
       [@ EXCEPT !.pc = IF s > FreeEnd(f) THEN "release" ELSE "loop",
                 !.start = s, !.lp = None]]
  /\ lpLock' = IF s > FreeEnd(f) THEN None ELSE lpLock

\* check_break: leave the loop and drop the lock when the cursor, now at s,
\* has reached the end of the block.
CheckBreak(f, s) ==
  IF s = FreeEnd(f)
  THEN /\ freer' = [freer EXCEPT ![f] = [@ EXCEPT !.pc = "release",
                                           !.start = s, !.lp = None]]
       /\ lpLock' = None
  ELSE /\ freer' = [freer EXCEPT ![f] = [@ EXCEPT !.pc = "loop",
                                           !.start = s, !.lp = None]]
       /\ UNCHANGED lpLock

\* Mutant: the cursor does not move.
FreeUntrackedStays(f) ==
  /\ freer[f].pc = "loop"
  /\ find_lp(freer[f].start) = {}
  /\ CheckBreak(f, freer[f].start)
  /\ UNCHANGED <<modVars, poolVars, rec, tree, inst, kernelVars>>

\* Case 1: no record holds the page.  A cursor that has run past the block
\* never meets its end again; it is followed to the last page.
FreeUntracked(f) ==
  /\ freer[f].pc = "loop"
  /\ freer[f].start <= NrPages
  /\ find_lp(freer[f].start) = {}
  /\ CheckBreak(f, freer[f].start + 1)
  /\ UNCHANGED <<modVars, poolVars, rec, tree, inst, kernelVars>>

\* Case 2.1: the block is the head of a record.
FreeHead(f) ==
  /\ freer[f].pc = "loop"
  /\ \E l \in find_lp(freer[f].start) :
       /\ freer[f].start = rec[l].start_page
       /\ FreeEnd(f) < rec[l].end_page
       /\ rec' = [rec EXCEPT ![l] = [@ EXCEPT !.start_page = FreeEnd(f)]]
  /\ CheckBreak(f, FreeEnd(f))
  /\ UNCHANGED <<modVars, poolVars, tree, inst, kernelVars>>

\* Case 2.2: the block is a whole record.
FreeWhole(f) ==
  /\ freer[f].pc = "loop"
  /\ \E l \in find_lp(freer[f].start) :
       /\ freer[f].start = rec[l].start_page
       /\ FreeEnd(f) = rec[l].end_page
       /\ tree' = tree \ {l}
       /\ lpFree' = lpFree \cup {l}
       /\ rec' = [rec EXCEPT ![l] = Blank]
  /\ CheckBreak(f, FreeEnd(f))
  /\ UNCHANGED <<modVars, stFree, inst, kernelVars>>

\* Mutant: rb_erase is forgotten.
FreeWholeAndMoreLinked(f) ==
  /\ freer[f].pc = "loop"
  /\ \E l \in find_lp(freer[f].start) :
       /\ freer[f].start = rec[l].start_page
       /\ FreeEnd(f) > rec[l].end_page
       /\ lpFree' = lpFree \cup {l}
       /\ freer' = [freer EXCEPT ![f] = [@ EXCEPT !.pc = "reload", !.lp = l]]
  /\ UNCHANGED <<modVars, stFree, rec, tree, lpLock, inst, kernelVars>>

\* Case 2.3: the block goes on after a record.  The record is back in the
\* pool, which lp_lock does not protect, ...
FreeWholeAndMore(f) ==
  /\ freer[f].pc = "loop"
  /\ \E l \in find_lp(freer[f].start) :
       /\ freer[f].start = rec[l].start_page
       /\ FreeEnd(f) > rec[l].end_page
       /\ tree' = tree \ {l}
       /\ lpFree' = lpFree \cup {l}
       /\ freer' = [freer EXCEPT ![f] = [@ EXCEPT !.pc = "reload", !.lp = l]]
  /\ UNCHANGED <<modVars, stFree, rec, lpLock, inst, kernelVars>>

\* ... when its end is read to move the cursor on.
FreeReload(f) ==
  /\ freer[f].pc = "reload"
  /\ CheckBreak(f, rec[freer[f].lp].end_page)
  /\ UNCHANGED <<modVars, poolVars, rec, tree, inst, kernelVars>>

\* Mutant: the new record is not linked.
FreeMiddleLosesTail(f) ==
  /\ freer[f].pc = "loop"
  /\ \E l \in find_lp(freer[f].start), n \in lpFree :
       /\ freer[f].start > rec[l].start_page
       /\ FreeEnd(f) < rec[l].end_page
       /\ lpFree' = lpFree \ {n}
       /\ rec' = [rec EXCEPT ![n] = [rec[l] EXCEPT !.start_page = FreeEnd(f)],
                             ![l] = [rec[l] EXCEPT !.end_page = freer[f].start]]
  /\ CheckBreak(f, freer[f].start)
  /\ UNCHANGED <<modVars, stFree, tree, inst, kernelVars>>

\* Case 3.1: the block is the middle of a record, which is split.  The cursor
\* stays: the loop then finds each page of the block without a record.
FreeMiddle(f) ==
  /\ freer[f].pc = "loop"
  /\ \E l \in find_lp(freer[f].start), n \in lpFree :
       /\ freer[f].start > rec[l].start_page
       /\ FreeEnd(f) < rec[l].end_page
       /\ lpFree' = lpFree \ {n}
       /\ rec' = [rec EXCEPT ![n] = [rec[l] EXCEPT !.start_page = FreeEnd(f)],
                             ![l] = [rec[l] EXCEPT !.end_page = freer[f].start]]
       /\ tree' = tree \cup {n}
  /\ CheckBreak(f, freer[f].start)
  /\ UNCHANGED <<modVars, stFree, inst, kernelVars>>

\* Mutant: the record is erased.
FreeTailErases(f) ==
  /\ freer[f].pc = "loop"
  /\ \E l \in find_lp(freer[f].start) :
       /\ freer[f].start > rec[l].start_page
       /\ FreeEnd(f) = rec[l].end_page
       /\ tree' = tree \ {l}
       /\ lpFree' = lpFree \cup {l}
  /\ CheckBreak(f, FreeEnd(f))
  /\ UNCHANGED <<modVars, stFree, rec, inst, kernelVars>>

\* Case 3.2: the block is the tail of a record.
FreeTail(f) ==
  /\ freer[f].pc = "loop"
  /\ \E l \in find_lp(freer[f].start) :
       /\ freer[f].start > rec[l].start_page
       /\ FreeEnd(f) = rec[l].end_page
       /\ rec' = [rec EXCEPT ![l] = [@ EXCEPT !.end_page = freer[f].start]]
  /\ CheckBreak(f, FreeEnd(f))
  /\ UNCHANGED <<modVars, poolVars, tree, inst, kernelVars>>

\* Case 3.3: the block begins inside a record and goes on after it.
FreeTailAndMore(f) ==
  /\ freer[f].pc = "loop"
  /\ \E l \in find_lp(freer[f].start) :
       /\ freer[f].start > rec[l].start_page
       /\ FreeEnd(f) > rec[l].end_page
       /\ rec' = [rec EXCEPT ![l] = [@ EXCEPT !.end_page = freer[f].start]]
       /\ CheckBreak(f, rec[l].end_page)
  /\ UNCHANGED <<modVars, poolVars, tree, inst, kernelVars>>

\* The probed function itself: the pages return to the buddy allocator.
KernelFree(f) ==
  /\ freer[f].pc = "release"
  /\ busy' = busy \ Span(freer[f].page, freer[f].order)
  /\ freer' = [freer EXCEPT ![f] = Done]
  /\ UNCHANGED <<modVars, poolVars, rec, tree, lpLock, inst, owner>>

-----------------------------------------------------------------------------
(* Loading and unloading the module.                                       *)

\* huawei_log_page_init: init_lp_pool, which leaves nothing behind when its
\* vmalloc fails, ...
InitLpPool ==
  /\ phase = "unloaded"
  /\ phase' = "lp_pool"
  /\ lpFree' = Lp
  /\ UNCHANGED <<probes, stFree, rec, tree, lpLock, inst, freer, kernelVars>>

\* ... then init_st_pool, whose failure takes the first pool down again, ...
InitStPool ==
  /\ phase = "lp_pool"
  /\ phase' = "registering"
  /\ stFree' = St
  /\ UNCHANGED <<probes, lpFree, rec, tree, lpLock, inst, freer, kernelVars>>

InitStPoolFails ==
  /\ phase = "lp_pool"
  /\ phase' = "unloaded"
  /\ lpFree' = {}
  /\ UNCHANGED <<probes, stFree, rec, tree, lpLock, inst, freer, kernelVars>>

\* Mutant: the probe on the allocator first.
NextProbeAllocFirst ==
  IF "alloc_pages_nodemask" \notin probes THEN "alloc_pages_nodemask"
  ELSE IF "free_pages_ok" \notin probes THEN "free_pages_ok"
  ELSE "free_hot_cold_page"

\* ... then register_probes, the probes on the freeing functions first.
NextProbe ==
  IF "free_pages_ok" \notin probes THEN "free_pages_ok"
  ELSE IF "free_hot_cold_page" \notin probes THEN "free_hot_cold_page"
  ELSE "alloc_pages_nodemask"

Register ==
  /\ phase = "registering"
  /\ probes' = probes \cup {NextProbe}
  /\ phase' = IF probes' = Probe THEN "live" ELSE "registering"
  /\ UNCHANGED <<poolVars, rec, tree, lpLock, inst, freer, kernelVars>>

\* A probe that cannot be planted: those that were are removed in the order
\* in which huawei_log_page_exit removes them.
RegisterFails ==
  /\ phase = "registering"
  /\ phase' = "unloading"
  /\ UNCHANGED <<probes, poolVars, rec, tree, lpLock, inst, freer, kernelVars>>

\* huawei_log_page_exit.
Unload ==
  /\ phase = "live"
  /\ phase' = "unloading"
  /\ UNCHANGED <<probes, poolVars, rec, tree, lpLock, inst, freer, kernelVars>>

\* Unregistering disables the probe, then waits for the handlers that run.
\* The instances of calls still inside the allocator lose their return
\* handler, and with it their record.
UnregisterAlloc ==
  /\ phase = "unloading"
  /\ probes' = probes \ {"alloc_pages_nodemask"}
  /\ probes' # probes
  /\ UNCHANGED <<phase, poolVars, rec, tree, lpLock, inst, freer, kernelVars>>

CleanupInstances ==
  /\ phase = "unloading"
  /\ "alloc_pages_nodemask" \notin probes
  /\ InHandler = {}
  /\ \E i \in Inst : inst[i].pc \in {"called", "returned"}
  /\ inst' = [i \in Inst |-> IF inst[i].pc = "idle" THEN inst[i]
                             ELSE [inst[i] EXCEPT !.pc = "orphan"]]
  /\ owner' = [q \in Page |->
       IF \E i \in Inst : /\ inst[i].pc = "returned" /\ inst[i].page # Null
                          /\ q \in Span(inst[i].page, inst[i].order)
       THEN LET i == CHOOSE j \in Inst :
                       /\ inst[j].pc = "returned" /\ inst[j].page # Null
                       /\ q \in Span(inst[j].page, inst[j].order)
            IN [page |-> inst[i].page, order |-> inst[i].order, by |-> None]
       ELSE owner[q]]
  /\ UNCHANGED <<modVars, poolVars, rec, tree, lpLock, freer, busy>>

InstancesGone == \A i \in Inst : inst[i].pc \in {"idle", "orphan"}

\* Mutant: the probes on the freeing functions go first.
UnregisterFreeFirst ==
  /\ phase = "unloading"
  /\ probes \cap FreeProbe # {}
  /\ probes' = probes \ {IF "free_hot_cold_page" \in probes
                         THEN "free_hot_cold_page" ELSE "free_pages_ok"}
  /\ UNCHANGED <<phase, poolVars, rec, tree, lpLock, inst, freer, kernelVars>>

UnregisterFree ==
  /\ phase = "unloading"
  /\ "alloc_pages_nodemask" \notin probes
  /\ InstancesGone
  /\ probes # {}
  /\ probes' = probes \ {IF "free_hot_cold_page" \in probes
                         THEN "free_hot_cold_page" ELSE "free_pages_ok"}
  /\ UNCHANGED <<phase, poolVars, rec, tree, lpLock, inst, freer, kernelVars>>

\* exit_st_pool and exit_lp_pool: the records go, the tree root goes with the
\* module's data, and no allocation is traced any more.
ExitPools ==
  /\ phase = "unloading"
  /\ probes = {}
  /\ InFree = {}
  /\ phase' = "unloaded"
  /\ lpFree' = {}
  /\ stFree' = {}
  /\ tree' = {}
  /\ rec' = [l \in Lp |-> Blank]
  /\ inst' = [i \in Inst |-> Idle]
  /\ owner' = [q \in Page |-> IF owner[q] = None THEN None
                              ELSE [owner[q] EXCEPT !.by = None]]
  /\ UNCHANGED <<probes, lpLock, freer, busy>>

-----------------------------------------------------------------------------
Init ==
  /\ phase = "unloaded"
  /\ probes = {}
  /\ lpFree = {}
  /\ stFree = {}
  /\ rec = [l \in Lp |-> Blank]
  /\ tree = {}
  /\ lpLock = None
  /\ inst = [i \in Inst |-> Idle]
  /\ freer = [f \in Freer |-> Done]
  /\ busy = Reserved
  /\ owner = [q \in Page |-> None]

FreeStep(f) ==
  \/ FreeUntracked(f) \/ FreeHead(f) \/ FreeWhole(f) \/ FreeWholeAndMore(f)
  \/ FreeReload(f) \/ FreeMiddle(f) \/ FreeTail(f) \/ FreeTailAndMore(f)

AllocHandlerStep(i) ==
  \/ EntryAllocSt(i) \/ EntryTrace(i)
  \/ RetFreeLp(i) \/ RetSetExtent(i) \/ RetInsert(i)

ModuleStep ==
  \/ InitLpPool \/ InitStPool \/ InitStPoolFails \/ Register \/ RegisterFails
  \/ Unload \/ UnregisterAlloc \/ CleanupInstances \/ UnregisterFree
  \/ ExitPools

KernelStep ==
  \/ \E i \in Inst, k \in Orders, c \in Caller : EntryAllocLp(i, k, c)
  \/ \E i \in Inst, p \in Page : KernelAlloc(i, p)
  \/ \E i \in Inst : KernelAllocFails(i)
  \/ \E p \in Page, k \in Orders : AllocUntraced(p, k)
  \/ \E f \in Freer, p \in Page, k \in Orders, fn \in FreeProbe :
       FreeEnter(f, p, k, fn) \/ FreeUnprobed(f, p, k, fn)
  \/ \E f \in Freer : KernelFree(f)

Next ==
  \/ KernelStep
  \/ \E i \in Inst : AllocHandlerStep(i)
  \/ \E f \in Freer : FreeStep(f)
  \/ ModuleStep

Spec == Init /\ [][Next]_vars
-----------------------------------------------------------------------------
(* Properties.                                                             *)

Record   == [order : Orders \cup {0}, start_page : Nat, end_page : Nat,
             entries : Caller \cup {None}]
Instance == [pc : {"idle", "trace", "unwind", "called", "returned", "insert",
                   "orphan"},
             order : Orders \cup {0}, caller : Caller \cup {None},
             lp : Lp \cup {None}, st : St \cup {None}, page : Page \cup {Null}]
Free     == [pc : {"idle", "loop", "reload", "release"}, page : Page \cup {Null},
             order : Orders \cup {0}, start : Nat, lp : Lp \cup {None}]

\* Every variable has its type.
TypeOK ==
  /\ phase \in {"unloaded", "lp_pool", "registering", "live", "unloading"}
  /\ probes \subseteq Probe
  /\ lpFree \subseteq Lp
  /\ stFree \subseteq St
  /\ rec \in [Lp -> Record]
  /\ tree \subseteq Lp
  /\ lpLock \in Freer \cup {None}
  /\ inst \in [Inst -> Instance]
  /\ freer \in [Freer -> Free]
  /\ busy \subseteq Page
  /\ owner \in [Page -> Allocation \cup {None}]

\* No page is in two records of the tree, and no record of the tree is empty:
\* what log_page_insert and find_lp take for granted when they compare one
\* end of an extent only (huawei_log_page.c:257, the comment at 251).
RecordsDisjoint ==
  \A l \in tree :
    /\ Extent(l) # {}
    /\ \A m \in tree \ {l} : Extent(l) \cap Extent(m) = {}

\* The pages around q that still belong to the allocation q belongs to.
Between(a, b) == (a .. b) \cup (b .. a)
Run(q) == {r \in Page : \A x \in Between(q, r) : owner[x] = owner[q]}

\* What print_page must answer for q: the pages around q its owner still has
\* and the call trace of the allocation, nothing when nobody traced it.
Answer(q)   == {[extent |-> Extent(l), entries |-> rec[l].entries] :
                  l \in find_lp(q)}
Expected(q) ==
  IF owner[q] = None \/ owner[q] \in [page : Page, order : Orders, by : {None}]
  THEN {}
  ELSE {[extent |-> Run(q), entries |-> owner[q].by]}

\* Whenever print_page can hold lp_lock it answers every page with the block
\* its owner has and the trace it was allocated with, whatever was allocated,
\* split, partly freed or missed before (readme_liyou.txt, test_1.c).
QueryExact ==
  lpLock = None /\ FreeProbe \subseteq probes =>
    \A q \in Page : Answer(q) = Expected(q)

\* With the freeing probes planted no record holds a page that the kernel has
\* back: the order of register_probes (comment at huawei_log_page.c:919) and
\* of unregister_probes.
NoGhost == FreeProbe \subseteq probes => Tracked \subseteq busy

\* A record is in one place: the free list, the tree, or one running call.
\* A second free_lp of a record would put it in two.
HeldBy(i) == IF inst[i].lp = None THEN {} ELSE {inst[i].lp}
RecordsAccounted ==
  /\ lpFree \cap tree = {}
  /\ \A i \in Inst : HeldBy(i) \cap (lpFree \cup tree) = {}
  /\ \A i, j \in Inst : i # j => HeldBy(i) \cap HeldBy(j) = {}
  /\ phase \notin {"unloaded"} =>
       Lp = lpFree \cup tree \cup UNION {HeldBy(i) : i \in Inst}

\* A cursor in the middle of a record, whose block ends before the record
\* does: do_log_page_free is about to take a second record.
Splits(f) ==
  /\ freer[f].pc = "loop"
  /\ \E l \in find_lp(freer[f].start) :
       freer[f].start > rec[l].start_page /\ FreeEnd(f) < rec[l].end_page

\* __alloc_lp never finds lp_pool empty (the comment at
\* huawei_log_page.c:187 says why it should not).
LpPoolNeverEmpty ==
  \/ lpFree # {}
  \/ /\ "alloc_pages_nodemask" \in probes => \A i \in Inst : inst[i].pc # "idle"
     /\ \A f \in Freer : ~Splits(f)

\* __alloc_st never finds st_pool empty (huawei_log_page.c:344).
StPoolNeverEmpty == \A i \in Inst : inst[i].pc = "trace" => stFree # {}

\* The cursor of do_log_page_free stays in the block that is freed: the loop
\* meets start == end and touches no record outside the block.
CursorInBlock ==
  \A f \in Freer : freer[f].pc = "loop" =>
    freer[f].page <= freer[f].start /\ freer[f].start < FreeEnd(f)

-----------------------------------------------------------------------------
(* Liveness.  A handler runs to its end with preemption off, a waiter of     *)
(* lp_lock gets it in turn (ticket locks), the module loader's thread runs.  *)
(* Nothing is assumed of the kernel's own allocations and frees.             *)

Fairness ==
  /\ \A f \in Freer : WF_vars(FreeStep(f))
  /\ \A i \in Inst : /\ WF_vars(EntryAllocSt(i) \/ EntryTrace(i))
                     /\ SF_vars(RetInsert(i))
  /\ WF_vars(UnregisterAlloc \/ CleanupInstances \/ UnregisterFree \/ ExitPools)

FairSpec == Spec /\ Fairness

\* The handler of a free gives lp_lock back: its loop terminates.
FreeReturns == \A f \in Freer : (lpLock = f) ~> (lpLock # f)

\* rmmod and a failed insmod come to an end, whatever handlers run or spin.
UnloadEnds == (phase = "unloading") ~> (phase = "unloaded")

\* The free loop and rmmod, whatever runs beside them, come to their end: nobody
\* spins for lp_lock for ever, and no handler keeps the module from going.
HandlersEnd == FreeReturns /\ UnloadEnds

-----------------------------------------------------------------------------
(* What a query is answered changes as PageTracker promises: a page enters the *)
(* log with its allocation, leaves it after its owner has given it up and      *)
(* before anyone else gets it, and no other page's answer changes on the way.  *)
Tracker == INSTANCE PageTracker WITH
  watching <- FreeProbe \subseteq probes,
  log <- [q \in Page |->
           IF find_lp(q) = {} THEN None
           ELSE LET l == CHOOSE m \in find_lp(q) : TRUE
                IN [start |-> rec[l].start_page, end |-> rec[l].end_page,
                    entries |-> rec[l].entries]]

TrackerSpec == Tracker!Spec
=============================================================================
