# Memory-debugging modules: a TLA+ verification project

The repository holds kernel modules (Linux 2.6.3x, x86-64) that help find memory leaks and
overflows. This directory models the parts with state and concurrency in TLA+, checks
small instances with TLC, and proves with TLAPS, for every value of the constants, the safety of all of them.
`PROJECT.json` lists the runs, the theorems, the hazards each property is aimed at, and for every definition
the source lines it stands for.

## 1. The system

| Component | Source | State | Operations |
|---|---|---|---|
| Page tracker | `mem_leak/kerspace/huawei_log_page.c` | pool of log records, pool of trace buffers, red-black tree of records (extent `[start_page, end_page)` and call trace), `lp_lock`, probes | return probe on `__alloc_pages_nodemask` (entry and return handler), entry probes on `__free_pages_ok` and `free_hot_cold_page` (`do_log_page_free`), `print_page`, `print_log_page_all`, insmod, rmmod |
| Overflow detector, two zones | `mem_overflow/code/mem_overflow_check.c` | list of isolation zones, `list_lock`, scanning thread | six allocating wrappers and their aliases, the freeing ones, `check_iso`, insmod, rmmod; an unused `/proc` file |
| Overflow detector, rear zone only | `mem_overflow_del_firstiso/code/mem_overflow_check.c` | the same, one struct per block | the same |
| Page-table search | `mem_leak/userspace/huawei_user_space_mem.c` | `now_task` | `print_vaddr_of_paddr`: walk the tasks, and each address space's four levels |
| Reverse mapping | `mem_leak/rmap/rmap.c` | `task_head`, `pid_arr` | `get_process_info` by `anon_vma` list or priority tree |
| `/proc/rmap` | `mem_leak/reverse_mapping/reverse_mapping.c` | none of its own | a seq_file over page frame numbers |
| Tests | `*_test*.c`, `memcheck.c`, `8139too.c` | none | drivers of the above; `8139too.c` is the kernel's driver, patched |

The components do not call each other. Each interacts with the kernel: the tracker's handlers run inside
the page allocator's own calls on every processor; the detector's wrappers run in their
clients' threads, against one scanning thread; the searches read kernel structures other processors change.

What is hard, and what makes each component correct:

- **Page tracker.** Allocations and frees on several processors, blocks freed in parts or
  together, allocations the probe misses (MAXACTIVE), allocations made before the module came, loading and
  unloading while handlers run. Correct means: a query names exactly the block the page's
  owner still has and the trace of its allocation; pools are never empty when taken from; no record is
  lost; the free loop ends.
- **Overflow detectors.** Wrappers that fail half-way; frees that rely on the list's order to find
  the second struct; a scan that reads other people's memory. Correct means: the list holds
  the zones of the blocks in use and nothing else, a scan reads only allocated memory,
  overwritten zones are reported, once, and no others.
- **Page-table search.** The life of tasks and address spaces against the walk; one static `now_task`; the ends of four levels of
  tables. Correct means: no process that stays is skipped, counts are exact, every mapping and only mappings are printed.
- **Reverse mapping.** A shared, unlocked list whose entries are freed without being unlinked; a tree walked without its lock, by an
  iterator with four pieces of bookkeeping. Correct means: the processes of the page and no others, each vma met once.
- **`/proc/rmap`.** Widths and ends of the position; a record that is shown again at every call. Correct means: each frame within reach of the position once, whole, and an end.

## 2. Modules

| Module | What it is |
|---|---|
| `LogPage` | The page tracker. One action per critical section of a pool's lock, or per iteration of the free loop |
| `LogPageCold` | `LogPage` with the frees of page reclaim, `free_hot_cold_page(page, 1)` |
| `PageTracker` | What the tracker promises: for every page, the answer to a query. `LogPage` implements it (`TrackerSpec`) |
| `LogPageInv` | The inductive invariant of `LogPage` |
| `LogPageProofs`, `LogPageQueryProofs` | The proofs: types and records; queries, `PageTracker` and pools |
| `LpTree` | The search tree that `LogPage` takes for a set of disjoint extents, with its inductive invariant |
| `FreeList`, `Pool` | The linked free list of records; the set it implements (`PoolSpec`), which `LogPage` takes for granted; its inductive invariant |
| `CallStack` | What `get_lp_call_stack` puts into a record, with its inductive invariant |
| `IrqLock` | Tasks, interrupts and queries as users of the tracker's two locks, with their inductive invariant |
| `IsoZone` | The overflow detector with two zones, with its inductive invariant |
| `IsoZoneProofs` | The proofs about it |
| `RearZone` | The overflow detector with a rear zone only, with its inductive invariant |
| `RearZoneProofs` | The proofs about it |
| `OverflowDetector` | What a detector promises its clients. `IsoZone` and `RearZone` implement it (`DetectorSpec`) |
| `MmWalk` | `print_vaddr_of_paddr` among tasks that come and go, with its inductive invariant |
| `PageWalk` | The search of one address space's page tables |
| `UserSpaceProofs` | The proofs about these two |
| `RmapQuery` | `get_process_info`: locks, the list of entries, and their memory, with its inductive invariant |
| `RmapQueryProofs` | The proofs about it |
| `PrioTree` | Its iterator over a priority search tree, and what such a tree is |
| `PrioTreeProofs` | The proofs about it |
| `RmapSeq` | The seq_file of `/proc/rmap` under `seq_read`, with its inductive invariant |
| `PartsProofs` | The proofs about `IrqLock`, `FreeList`, `RmapSeq`, `CallStack` and `LpTree` |
| `MC*` | TLC's views, symmetries, inputs and starting states |
| `MCUserSpace`, `MCParts` | `MmWalk` with `PageWalk`, and the six modules of parts, in one run each: a behaviour is one part's, the others stay where they begin. The parts share no state, so nothing is lost by it |

### LogPage and the code

Pages are numbers, as `struct page` pointers into the memory map are; 0 is NULL. A traced
call is an element of `Inst` (a kretprobe instance) with the locals of its two handlers; a
free is an element of `Freer` with the locals of `do_log_page_free`. Their `pc` names the next step:

- `EntryAllocLp`, `EntryAllocSt`, `EntryTrace`: the entry handler (736-755), cut where it takes
  or drops `lp_pool_lock` and `st_pool_lock`; then `KernelAlloc` or `KernelAllocFails`, the kernel's part;
- `RetFreeLp`, or `RetSetExtent` and `RetInsert`: the return handler (774-798). The extent is
  written before `lp_lock` is taken, so it is a step of its own;
- `FreeEnter` takes `lp_lock`; each of `FreeUntracked` (case 1 of the code's comment), `FreeHead` (2.1),
  `FreeWhole` (2.2), `FreeWholeAndMore` and `FreeReload` (2.3), `FreeMiddle` (3.1), `FreeTail` (3.2),
  `FreeTailAndMore` (3.3) is one iteration with its `check_break`. Case 2.3 is two steps, because the record goes to a pool
  that another lock protects before its end is read. `KernelFree` is the probed function;
- `InitLpPool` ... `ExitPools`: `huawei_log_page_init` and `_exit`, with a failure at every call.

The tree is the set of linked records and `find_lp` the records of it that hold the page: for disjoint extents,
which `RecordsDisjoint` shows, there is at most one. A trace is a value that names the caller. `owner` and `busy` are the kernel's:
who has a page, and which pages the buddy allocator does not have. A page has no owner while it is on its way to one, or on its way back.
A query is a read of the state in which nobody holds `lp_lock`.

The frees are those of the kernel: aligned blocks, single pages through `free_hot_cold_page`, larger ones
through `__free_pages_ok`; a block is part of one allocation, or, where `SpanFree` holds, of
several (the comment's special case 3, line 520).

The parts `LogPage` stands on have modules of their own. `LpTree` goes down the tree as `log_page_insert` (260-279) and
`find_lp` (307-322) do, comparing one end of each record; the balancing is the kernel's and appears as rotations at any time. Its
operations are those `LogPage` performs under `lp_lock`: insert, shrink at either end in place, split, erase; `print_log_page_all` is the listing of the tree as it stands. `FreeList` has one action per access to memory of `__alloc_lp` and `__free_lp`, and the union of `next` and `order`. `CallStack` is the callback
of `dump_trace` frame by frame, then the loop that lists modules. `IrqLock` keeps of every handler and query only
the locks it takes and the order in which it takes them; a spin lock is the queue of its tickets, and an interrupt runs on top of its processor's task.

### IsoZone, RearZone and the code

Memory is an arena of cells; `filled` is the set of cells that hold an `'a'`. A block is a request (layout
and size or order) and the base of the area the kernel gave. A call of a wrapper goes through
`AllocArea` (area obtained and zones filled), `AllocInfo` (the `callerinfo` buffer), `AllocArray` (the two structs) and `Link`
(both `list_add`, under `list_lock`), or through `AllocFails`, which returns NULL and gives nothing back. A free is
`EnterFree`, `Unlink` (search and both `list_del`, under `list_lock`), `Release` (buffer and structs) and `FreeArea`.
All wrappers have this code, with three layouts; the map points each definition at one of them.
The thread is `Sleep`, `Wake`, one `CheckZone` for each struct with `list_lock` held
throughout, `EndScan`. Clients write any cell of their own areas at any time, in or out of what they asked for.

`RearZone` is the other version: one struct per block, so `AllocStruct` for `AllocArray`, one `list_add`, one `list_del`. Its search compares `mem_addr` and nothing
in it depends on the list's order, so the list is a set (`IsoZone`, where the free takes the struct before the one it found, has a sequence).

Contract of the clients, from the tests: free what a wrapper returned, once, with the matching wrapper; no write beyond
the area; interrupts do not call wrappers.

### The searches and the code

`MmWalk` cuts `print_vaddr_of_paddr` (198-231) at its reads of shared memory: `Test` and `Take` read `p->mm`, `Raise` raises the count, `WalkBegin` and
`WalkEnd` are the walk under `page_table_lock`, `Drop` lowers the count and goes on to the next task. `due` is what a call still has to look at: the tasks that have had an address space since it began. The kernel forks, execs, exits, unlinks and frees tasks between
any two of them. A caller that follows a bad pointer is lost and goes no further, but keeps the `page_table_lock` it holds, as the thread of an oops does. `PageWalk` is the walk itself: four nested loops as sets of lines printed, against `Translate`, what the processor does with an address.

`RmapQuery` has `get_process_info` (350-429) with a step per entry allocated, printed or freed. `page->mapping` is read three times: in `get_process_info`, in `Locate` for the choice of the tree or list, and under RCU in `page_lock_anon_vma_user`. A freed entry can be read or the read faults,
and `vmalloc` may hand its address out again. `PrioTree` steps through the three loops of `prio_tree_next_user` one node at a time, on trees built as the kernel builds them.

`RmapSeq` has the four seq_file operations, called by an external `seq_read` as the kernel calls them: again with a larger buffer, again from the position
where the last read stopped. A record is its number of parts, which may differ from call to call.

## 3. Runs

| Run | Question | Bounds |
|---|---|---|
| `log_page_smp` | exact answers, enough records and the refinement of `PageTracker`, with two traced calls and two frees at once | 6 pages, 2 of them reserved; orders 0 and 2; two processors; one caller |
| `log_page_load` | probes' order in insmod and rmmod, every failure, reloading; `IndInv`, no empty pool of buffers; the free loop gives the lock back and rmmod ends | 3 pages, one reserved; orders 0, 1; two freeing contexts, one instance, one caller; two processors |
| `log_page_span` | cases 2.3 and 3.3: frees of several allocations; the refinement of `PageTracker` under them | 6 pages, 2 reserved; orders 0, 1, 2; one processor |
| `log_page_race` | **violation**: case 2.3 on two processors | 5 pages, one reserved; orders 0, 1, 2 |
| `log_page_cold` | **violation**: `free_hot_cold_page(page, 1)` | 4 pages, one reserved |
| `iso_zone` | the detector with all its steps: `IsoInv`, the scan, the layouts, the memory, refinement of `OverflowDetector`; overflows are reported and rmmod ends | 5 cells, zones of one, pages of 2; two clients; a block of one byte, a page that is doubled, a page with its zones inside |
| `rear_zone` | the same of the rear-zone detector, and `RearInv` | 4 cells, zones of one, pages of 2; two clients; the same three requests |
| `user_space` | `MmWalk`: `MmInv`, nobody that stays is skipped, counts are exact and hold the address space, reports are true, calls end, fault or wait for one that did. `PageWalk`: every mapping is printed and nothing else (`TablesInv`) | 4 tasks: the list's head, a caller, a process, and one yet to be forked that may call too; 3 address spaces. Tables of 4, 3, 2 and 2 entries, empty ones too, pages of all three sizes, 5 addresses |
| `mm_race` | **violation**: page tables freed under the walk | as `user_space` |
| `rmap` | `RmapInv`, every process that stays is printed, locks are given back, the list has an end | two calls, one after the other; 3 entries, 2 tasks, a page of either kind, 2 vmas each |
| `rmap_stale` | **violation**: the second call prints the first one's processes | as `rmap` |
| `parts` | `LpTree`: a search finds the record that holds the page, the listing is whole and in order | 4 records, 4 pages |
| | `FreeList`: the linked list implements `Pool` and is never empty when taken from | 3 records, 3 contexts |
| | `CallStack`: the trace and the module list | every stack of up to 6 frames in the kernel and two modules; 4 levels, 1 skipped, 2 modules |
| | `IrqLock`: nobody waits in a circle, with one exception that is named | 2 processors, each with a task and an interrupt |
| | `PrioTree`: every vma of the page, once; bookkeeping is undone; the walk ends | indices of 3 bits; of the 8 intervals that begin at 0 all, or up to three, with some of three others; every page asked for |
| | `RmapSeq`: each frame's record once, whole and in order; the listing ends | `totalram_pages` is 4; frames 0, 2, 4 and 6 are valid, an int has 3 bits: 4 is more than an int can hold, 6 is above `totalram_pages`; reads of up to 5 parts, a first buffer of 1 |

Why these are enough: every case of `do_log_page_free` needs at most a record with a page on either side of
the block and a second record (order 2 with single pages gives them); interference needs one other handler per kind, the runs have
two of each; pools are exhausted at the sizes the code gives them (one record per page; as many buffers as instances). The detector's list
needs two blocks, one of them coming or going while the other is searched for, scanned or written over; areas are given out again at the same place and with another layout.
All behaviours within the bounds are explored, with no bound on their length, except that `RmapQuery` bounds the calls (two: what a call leaves behind is met by the next) and
`MmWalk` the tasks ever forked. `View` (in `log_page_smp`, `log_page_span` and `log_page_race`) merges states that differ only in the names of records, buffers, instances and contexts, the symmetry of
`rmap` those that differ in the names of entries and tasks; both are used with safety properties only.
The tree's cases need a node with two children and a split below it. A walk over tasks needs one task ahead that can go and one that can come. A trace's two ends need a stack that is cut at
both, and one that is not. Page tables need a first, a last and a middle entry where a level's loop bounds differ. The priority tree's one long path, on which the bits
of the radix index run out and those of the size begin, is the intervals that begin at 0; three bits give it every boundary.

Deadlock is checked except in models that really stop: nothing is done after the trace or the walk under study (`CallStack`, `PrioTree`); a read that returned 0 is
the last (`RmapSeq`); calls and forks are bounded, and nothing is followed past a fault, except that other callers may wait for the lock of one that faulted (`RmapQuery`, `MmWalk`); processors that spin for themselves stop all the others (`IrqLock`).

`Reserved` are the page frames that hold `lp_pool` itself. The comment at line 187 argues that one record per frame always suffices;
records held by calls under way make that false in general, and true because the pool's own frames need no record: `PoolAssumption`
asks that they are at least as many as the instances, and in the code they are many more (a record is hundreds of bytes for each page).

### Fairness

`LogPage`: a handler runs to its end with preemption off, a waiter of `lp_lock` gets it in turn (ticket locks, hence
strong fairness of `RetInsert`), the loader's thread runs. Nothing is assumed of the kernel's allocations and frees. `IsoZone`: the scanning thread is
scheduled and its timer expires; `kthread_stop` returns when it has ended. Nothing is assumed of clients. `RearZone`: the same.
`MmWalk`: the calling thread runs on, and its ticket for a `page_table_lock` comes up however often another caller takes the lock, which is strong fairness; nothing is assumed of the kernel around it. A caller that faulted in the walk never gives its lock up: `CallEnds` lets others wait for it (`Behind`), and says that there is no other wait without an end.
`PrioTree`: the calling thread runs on. `RmapSeq`: the reader reads until a read returns 0. `IrqLock` and `RmapQuery` assume nothing: that their waits and walks end is stated as
what every state is like (`NoCircle`, `ListEnds`).

### What the runs show

- With frees that stay within one allocation, the tracker answers every query exactly, loses no record, and its loop ends.
- With frees of several allocations this holds on one processor and **fails on two**: `log_page_race`. Line 590 frees the record, line 591 reads its end;
  another handler can take and clear it in between, and the cursor leaves the block.
- **Page reclaim corrupts the log**: `log_page_cold`. `jfree_hot_cold_page` (865) takes the flag `cold` for an order and removes
  the neighbour of the freed page.
- The detector's list is right after every sequence of calls; the scan reads allocated memory only; each overwritten zone is reported once and no other is. Its
  losses are those of failed calls (`lost` in `MemoryAccounted`), whose areas no wrapper gives back. An overflow in a block freed before the next scan is not
  reported; nor is one that writes an `'a'`. `__nget_free_pages` places its rear zone inside the pages asked for, so `AskedFits` leaves it out.
- The rear-zone detector keeps the same promises; its one struct per block makes the order of the list irrelevant.
- The tracker's tree, pools and traces are what `LogPage` takes them for. A short trace is padded with zeros: the `ULONG_MAX`
that ends a trace according to the comment at line 128 is never written.
- A query that is interrupted while it holds, or queues for, `lp_lock`, by an interrupt that allocates or frees, stops its processor for ever: `SelfLocked`. `NoCircle` shows that there is no other
circle of waiting. `print_page`'s callers have to avoid it; nothing in the code does.
- The count taken by `print_vaddr_of_paddr` comes too late: between the read of `p->mm` and `atomic_inc` the task may exit, and the walk goes through
  **freed page tables** (`mm_race`), though the comment at 217 says that it cannot. An address space whose count was raised in time does stay (`CountedStays`).
- `get_process_info` **prints the processes of earlier calls**, out of freed memory, because entries are never taken off `task_head` (`rmap_stale`). The processes asked for are all printed, too, and the list comes back to its head (`ListEnds`) as long as no freed entry has been handed out again while it was linked.
- The copied iterator over the priority tree is right on trees down to their last level; the page-table walk and `/proc/rmap` are right at their ends. `/proc/rmap` lists frame
  `totalram_pages`; where memory has holes there are frames above it, and those it never lists. Where there are more pages than an int can count, a read that begins beyond the largest int ends the
  listing, though the one before it may have gone on past that point; a position that wraps to a small int would let it go on above `totalram_pages`. `SeqInv` states all three.

Each property was also run against a plausible mistake in the code (the operators named `Mutant` in the modules, listed in `PROJECT.json`) and
found violated: it depends on the code it is about.

## 4. Proofs

### The page tracker

These theorems are of `Spec` of `LogPage`, for every value of its constants that its assumptions allow: any number of pages, records, instances, contexts, callers and processors.

| Theorem | Module | For |
|---|---|---|
| `TypeCorrect` | `LogPageProofs` | all frees |
| `RecordsAccountedCorrect` | `LogPageProofs` | all frees |
| `StPoolNeverEmptyCorrect` | `LogPageQueryProofs` | all frees |
| `IndInvCorrect` | `LogPageQueryProofs` | `Orderly` |
| `RecordsDisjointCorrect`, `NoGhostCorrect`, `CursorInBlockCorrect`, `QueryExactCorrect` | `LogPageQueryProofs` | `Orderly` |
| `LpPoolNeverEmptyCorrect` | `LogPageQueryProofs` | `Orderly` |
| `TrackerImplemented` | `LogPageQueryProofs` | `Orderly` |

`Orderly` is `~SpanFree \/ NrCpus = 1`: a free covers pages of one allocation, or no handler runs beside another. The rest, `SpanFree` on several processors, is excluded because there the theorems are false: `log_page_race` is the counterexample.

None of the properties is inductive. `IndInv` is, and has three parts:

- `ControlInv`: the lock is held by the context whose loop runs; which probes are planted in which phase, and that a call is traced only while all frees are seen; every record in one place.
- `BlockInv`: blocks being freed, blocks on their way to an owner and owned blocks are apart, and a running call's record says what the call will link. This part is about
  the kernel and the handlers' locals, not the tree.
- `RecInv`: how tree and kernel agree. A page its owner has from a traced allocation is in a record with that trace (`TrackedInv`); while frees
  are seen, the owned pages of a record are one allocation's, and a record does not stop short of a neighbour of the same allocation (`RecordInv`); a page in a record without an owner is
  about to be taken out by a running loop (`GhostInv`); a page on its way to an owner is in no record (`GrantFreshInv`); what a loop has left
  to free of one allocation is in one record or in none (`LoopInv`); a record that is read when it is back in the pool is in nobody's hands, and its pages in no other record (`ReloadInv`). `LoopInv` is what makes cases 2.3 and 3.3 impossible without `SpanFree`, and `GhostInv` what makes linking a new record safe.

With `SpanFree` the loop goes from record to record, and `GhostInv` is what carries it: a page of the block that is still in a record lies at or behind the cursor (`StillToFree`), because each case takes the record at the cursor out up to its end, records do not meet, and the cursor goes no further than that end.
Only between lines 590 and 591 is the record unprotected; then the handler is the only one on its processor (`ReloadAlone`), so none that would take a record, fill one in or start a free can run.

The proofs follow the parts: each is preserved by every action, given the parts before it (`ControlStep`, `BlockStep`, `RecStep`). Lemmas state once what
an action leaves alone and how it changes the extents of records. `QueryExact` follows from `IndInv`: `TrackedInv` finds the record, `ShapeInv` makes it the only one, and
`RecordInv` makes its extent exactly the run of pages the owner still has. TLC checks `IndInv` in `log_page_load`; `RecordsDisjoint`, which no run checks by itself, follows from it.

The pools. `BufferInv` says that each buffer is free or held by one call, so with as many buffers as instances one is left for the next call. For records
the argument is that of the code's comment (187), repaired: every linked record's first page is a page of its own, outside the pool's own frames
(`ReservedInv`: those are never given out, so never in a record); records held by running calls are at most as many as the instances, and each of these is set against one of the pool's frames.
That is an injection from the records in use into the page frames which leaves one out (`RecordLeft`), and there is a record for every frame. `PoolAssumption` is what the argument needs.

`TrackerImplemented` is `Spec => TrackerSpec`, the refinement: the variable that `PageTracker` has and `LogPage` has not is the answer to every query, a function of tree and records
(`Log`). `IndInv` makes that function simple: the record that holds a page is its answer and there is no other (`LogAnswers`). Then every action is one of
`PageTracker` or a stutter. A step of the free loop whose record ends up with a page less for each page it passes is `Forget` of those pages (`CutForgets`, `FreeStepRefines`); `RetInsert` is
the answer for the block, all of it at once, since no other record meets it (`GrantFreshInv`); a kernel step changes an owner and, since records hold no page that is given out,
no answer; what the probes see changes when the last of them is planted or the first is taken out, never in between.

### The rear-zone detector

These are of `Spec` of `RearZone`, for any memory, any sizes of zones and pages with `PageSize > Iso`, any requests and any number of clients. TLC checks `RearInv`, from which the
others follow, in `rear_zone`.

| Theorem | States |
|---|---|
| `RearTypeCorrect`, `RearInvCorrect` | the inductive invariant |
| `ZoneOfBlockCorrect` | the list holds one struct per block in use, and the search finds it |
| `ScanReadsAllocatedCorrect` | a scan reads allocated memory only |
| `AskedFitsCorrect` | the client's bytes and the zone are apart |
| `MemoryAccountedCorrect` | only failed calls lose memory |
| `MarkedIsReportedCorrect`, `ThreadGoneCorrect` | flags and thread |
| `DetectorImplemented` | `Spec => DetectorSpec`: every step is one of `OverflowDetector` or a stutter |

`RearInv` is the type invariant and four parts: `CallInv`, what each step of a call has in its hands, and that two calls never have the same block; `HeapInv`, that areas
are apart and each is a block's, a call's or lost, with structs and buffers only for areas; `ListInv`, that the list has the zones of the blocks in use and of frees that have not unlinked
yet, and no others; `ThreadInv`, that a scan looks only at what is linked. The last holds because the scan keeps `list_lock`: that no step of a
client can come between is the guard `Scanning`, and `ScanReadsAllocated` follows. The page layouts need that a block doubled has a page to spare, which is `PageSize > Iso` with `RearAssumption`'s fact about powers of two:
exponentiation is opaque to the provers.

### The two-zone detector

These are of `Spec` of `IsoZone`, for any arena, any `Iso`, any `PageSize` that is even and holds two zones, any requests and any number of clients.

| Theorem | States |
|---|---|
| `IsoInvCorrect` | the inductive invariant, with `ZonesOfBlocks`: the list has the two zones of each block in use and nothing else |
| `ScanReadsAllocatedCorrect` | a scan reads allocated memory only |
| `AskedFitsCorrect` | the client's bytes lie between the zones |
| `MemoryAccountedCorrect` | only failed calls lose memory |
| `DetectorImplemented` | `Spec => DetectorSpec` |

The invariant has the parts of `RearInv`, and one that `RearZone` does not need. The free of a block finds one struct of it and takes the other to be its neighbour, so what matters is the order of the list.
`Pairs` says it: the list is, for some order of the blocks, the two structs of the first, then the two of the second, and so on; each block once. Linking a block puts a pair in front. Unlinking one takes the pair out
and moves up those behind it, which leaves pairs at odd and even places again. Since the areas are apart (`HeapInv`), an address belongs to one block, so the struct found is the freed block's own and never
one whose neighbour is another's. The flag of a struct goes with its pair (`ListInv`), so a zone at an address that was given out again is reported anew.

### The walk over the tasks

These are of `Spec` of `MmWalk`, for any tasks, callers and address spaces, and any list to begin with that goes round once from `Swapper` (`MmAssumption`; that is what `init_task`'s list is).

| Theorem | States |
|---|---|
| `MmInvCorrect` | the inductive invariant, with `CountBalanced`: `mm_users` is never short of its users, and exact if no call was lost |
| `AllSeenCorrect` | nobody that stays is skipped |
| `CountedStaysCorrect` | what was counted in time is not torn down before the count is lowered |
| `ReportTrueCorrect` | one call at a time prints true pairs |

Two ideas carry these. A count is the number of tasks with the address space and of calls that hold it (`Count`, `Counted`): every step changes one task or one call, so cardinalities change by one
(`CountChange`), and at a count of one with a call in the middle of its walk there is no task left that could let go (`CountedStays`). And the list has an order: that of the birth of its tasks. `Ordered` says that for some numbering of the tasks ever born the list goes round
in that order, and that a task which left it still points to one that comes later, or to `Swapper`: `list_del_rcu` leaves the pointer, and it grows stale in one direction only. `Ahead` is what a call has of it: from the successor
it read before the body, by pointers of tasks on the list or off it, no task that is due is passed over. A fork is at the tail, a new highest number, and passes nobody. `AllSeen` follows when the call is back at itself.

### The search for a page's processes

These are of `Spec` of `RmapQuery`, for any entries, tasks and pages, and any bounds on vmas and calls.

| Theorem | States |
|---|---|
| `RmapInvCorrect` | the inductive invariant, with `LockBalanced`: the `anon_vma` is locked while its vmas are collected and at no other time |
| `AllRelatedCorrect` | every process that stays is printed |
| `ListEndsCorrect` | `task_head` leads back to itself until a linked entry's address is handed out again |

A call's own entries come first on the list, in the reverse of the order they were added (`Collecting`), whatever the call finds behind them: entries of earlier calls, freed and never unlinked, in a circle even. They are live, so `vmalloc` cannot give out one of them twice, and
they hold, with the vmas that are left, every process that stays. Under the lock the vmas change by exits only, which `stay` follows; the tree of a file is not locked, hence `moved`. While the list is printed, the call is at one of these entries with the later ones printed, or it has printed them all
(`Printing`); so it is not back at `task_head` before. `ListEnds` says that no set of entries without the head is closed under `next` and entered from the head, which is the same as that following `next` leads back, and needs no recursion.

### The priority tree

`VmasExactCorrect` and `IterMatchesPathCorrect` are of `PrioSpec`, for any width of a long, any pages below its end and any set of trees that are priority search trees. What that means is `IsPrioTree`, the assumption on `Trees`: what the kernel's insertion and removal keep,
and all that the module's copy of the iterator may rely on. `MCPrioTree` builds its trees as `lib/prio_tree.c` does, and TLC evaluates the assumption on each of them. `PowersOfTwo` is the other assumption, since exponentiation is opaque to the provers; `NextPower` and `PowersGrow` are what follows from it for the widths in use.

`PrioInd` is the inductive invariant. One half is `OnPath`: the iterator's four fields are a function of the node it is at (`IterFor`). `Floor` is the least radix index a node's subtree may have; `value` is `Floor`, and a child's is that of its parent, plus `mask` on the right (`FloorOfChild`). The two turns of the scheme are
where care is needed: at the level where the radix bits run out `mask` goes to 0 and begins again at the top of a long (`MaskDown`), and on the way up the bit of `value` is cleared only above that level (`MaskUp`, `GoesUp`).

The other half says what has been found. `Below` is the subtree of a node, again as a least closed set, and `After` what comes later in the walk: the right sides of those of its ancestors whose left side it is on. `Todo` puts them together for each of the three loops, and the vmas found are those of the nodes that map the page and are not in `Todo`
(`Whole`; `Partly` while a node's own list is read). Each loop's step is then an equation between `Todo` before and after (`TodoLeft`, `TodoRight`, `AfterChild`), and the tests that pass over a subtree must pass over none that maps the page: on the left for `heap` alone (`NoneLeft`), since heap indices fall on the way down (`BelowOrder`), on the
right also because every radix index there is at least its `Floor` (`NoneRight`). The first loop has one subtlety more: it goes left without looking back, so nodes that map the page could be left behind on the right. `NoneRightOf` says that they are not: a left
child that ends late enough and still does not overlap begins after the page, and whatever is on the right begins no earlier than the left child does.

### The page tables

`TablesInvCorrect`, `TablesSpec => []TablesInv`, is of `PageWalk`: for any page size, any number of entries at each level (an even one at the highest, of which user space is the lower half)
and any tables in `Pgd`, whose entries are absent, pages or tables as each level allows. `TablesExact` says that the lines printed are the user pages that the processor maps to the address, each once.

`Exact` is that property for a table of one level, seen from the address its first entry covers, and the proof goes up the levels. An entry's lines are exact if it is absent (`NoLines`), a page (`PageLine`) or a table whose own lines
are (`EntryLines`); and the lines of a table are those of its entries, one after the other, because the entries' address ranges are apart and each is as long as the table below it (`JoinLines`). What is left is arithmetic: the processor takes an address to pieces by
division and remainder, the walk puts it together by addition, and `Digits` says that the two are inverse, with the facts about division proved from `DivMod` since Z3 knows them for literal divisors only. `TranslateIs` reads `Translate` the same way, level by level.

### The parts

These are in `PartsProofs`, each of the specification of one part, for any constants its assumption allows.

| Theorem | States | For any |
|---|---|---|
| `NoCircleCorrect` | whoever waits for a lock waits, in the end, for someone who can go on, unless a query was interrupted by a handler that wants its lock | processors |
| `FreeListInvCorrect` | the free records are linked once each, down to NULL; only the lock's holder is inside; `alloc_lp` finds a record | records, and no more contexts than records |
| `PoolImplemented` | `ListSpec => PoolSpec`: the linked list is the set `LogPage` takes it for | the same |
| `SeqInvCorrect` | a reader of `/proc/rmap` gets frames' records once, whole, in order and without a gap; at the end all up to `totalram_pages` that an int can hold; none above `totalram_pages` unless positions wrap | number of pages, valid frames below or above it, width of int, sizes of reads, records and buffer |
| `CaptureInvCorrect` | a linked record has its caller's trace and the modules on it, in their order | stacks, levels, frames skipped, number of modules |
| `TreeInvCorrect` | a search of the tree finds the record that holds the page, and nothing else; the listing is every record once, in order | records, pages |

*Locks.* `LockInv` says that the queue of a lock is the contexts at the places where one waits for it or holds it, once each (`QueueOf`), and that whoever is past the wait is its queue's head. The rest is about one state: a set of contexts that wait for each other
has nobody who waits for `lp_pool_lock` (its holder is a handler, which runs and waits for nothing), so those of the set that run wait for `lp_lock`, and its head is in the set. The head does not run, or it would wait for nothing; so an interrupt is on top of it and waits for `lp_lock` as well, and that is `SelfLocked`.

*The free list.* What is reached along `next` is the least set that is closed under it (`Chain`); the invariant names it by a stack of records (`OneStack`): a record that has been put on the list and is not on the stack is held by one context. A push or a pop changes the stack at its top (`PushList`, `PopList`), whatever the field that
`next` shares with `order` holds in a record that is off the list, and `ReachesStack` makes `Chain` that stack. `OneLeft` is the pigeonhole that keeps `alloc_lp` from an empty list: each of the other contexts has at most one record.

*The listing.* `Progress` relates the reader's text and the buffer to `index`: together they are a listing of the frames below it (`Lists`). Each of `seq_read`'s steps adds a record, drops a partial one or copies a part, and `ListsFirst` cuts a listing in two. Nothing is assumed of
how `totalram_pages`, the valid frames and the width of an int compare. Where the listing ends is then what the code makes of it: `handler_seq_next` compares the whole position, so a position past the end is one above `totalram_pages`; `handler_seq_start` compares its low bits
as an int, so it may also say no from `IntLimit` on (`IntPosition`). If positions do not wrap (`NoWrap`), neither lets the listing go on above `totalram_pages` (`NotPast`, `NextPosition`).

*The trace.* `Dumping` says that the entries so far are the frames so far, without the probe's own and without those past the last level; `Listing` that the modules so far are those of the entries so far. `ModulesExact` counts the turns of a stack, the entries whose module is not
that of the last entry that had one; a turn more adds one module unless the list is full.

*The tree.* `TreeShape` is the inductive part: what is below a record on its left lies before it, on its right behind it (`Below`, a least set closed under the two pointers), no two records meet, and all are below the root. The proofs use another form of it:
`SearchTree` has the set of nodes below each as a function `B` with `B[n]` the node and what is below its children, and an order in place of the extents. `TreeOfShape` and `ShapeOfTree` go from one to the other. `TreeRotate`, `TreeErase` and `TreeInsert` say how `B` changes; `Mirror` turns
left into right, so one lemma serves both rotations. `TreeInduction` takes a set of nodes that has every node whose children it has, and shows that it has all: the subtree with the fewest nodes of the others would be a contradiction. With it, a node has one parent and one side (`OnePlace`), hence the counts of `LpTreeTypeOK`.
The walks are recursive functions. `TreeRecursion` gives a function with the values that a step asks for, so the CHOOSE in the meaning of each definition has something to choose, and `TreeInduction` says what it computes: `PlaceFound` (the empty place where `log_page_insert` ends is the record's place in the order, though one end is compared at each node),
`FindFound` and `OrderSorted`. Shrinking a record keeps every pair in order (`SameOrder`), and that is why `do_log_page_free` may move the ends of linked records in place.

### How far induction goes

An induction over naturals is taken over a set: `Least` gives a set of naturals its least element, from the library's `WFMin`, and `Induction` follows. That avoids theorems with an operator as a parameter, and serves for `ReachesStack` and its like. Reachability is stated as a least closed set, or as the absence of a closed set that avoids the
end (`ListEnds`, `NoCircle`), so that nothing has to be unfolded. Over trees the same is done with sets of nodes (`TreeInduction`, `Below` of the priority tree). A recursive function in a LET is its CHOOSE, which `find_lp`, `Place` and `InOrder` are proved about; operators declared RECURSIVE are used by TLC's inputs only.

### Model-checked only

- The liveness properties `HandlersEnd`, `OverflowReported`, `ExitEnds`, `CallEnds` and `WalksEnd`: out of the prover's reach.

## 5. Not modelled

- `do_log_page_alloc` and its callers (472-489, 656-672 of `huawei_log_page.c`): called from nowhere.
- The detectors' `/proc` files (727-827 and 610-711), which nothing creates; `dma_handle_temp`, the bus address of the DMA wrapper, which is read before the allocation is known to
  have succeeded and freed on no path; clients that break their contract; wrappers called from interrupts (the deadlock has the shape that `IrqLock` shows for the tracker).
- Page tables that change under `PageWalk`: what is read of a table being freed is undefined. A caller of `print_vaddr_of_paddr` that is not its group's leader is on no list the walk goes round; `Caller` has leaders only.
- Callers of `get_process_info` at the same time: `task_head` has no lock, and with two of them every property of the list fails at once. `pid_arr` (284-317 of `rmap.c`) is set and never read.
- In `RmapSeq` the mappings of a page are a number: its walks have the hazards of `rmap.c`, which `RmapQuery` has.
- The lines of text printed, everywhere.
- How `get_nr_pages` (66-94 of `huawei_log_page.c`) counts frames: `NrPages` is what it returns, and the pool has one record per frame. The loop starts each zone where the one before it ended, which is right where no gap lies between the zones of a node.
- Hazards without a property, where the code does what is feared and no more can be said: the listing of an empty tree (702 of `huawei_log_page.c`), the losses of failed calls (81 of `mem_overflow_check.c`), the zones inside the pages asked for (496), the unused address space nobody
  tears down (226 of `huawei_user_space_mem.c`), `now_task` with two callers (222), the lock of a caller that faulted (186), the unlocked tree, exited owners and the second read of the mapping (402, 367 and 391 of `rmap.c`). `PROJECT.json` has a note for each; the
  properties nearby say that nothing else goes wrong, and leave out the calls that these befall.
- The tests and the patched network driver: they have no state of their own.

## 6. What is left

Every safety property a passing run checks is a theorem, for all values of the constants its module allows (for the tracker, as far as the code keeps it: the assumptions in section 4); the liveness properties stay with TLC. What would say more about the code is
more model: page tables that change under the walk, two callers of the reverse mapping at the same time, and the mappings of a page in `RmapSeq`, each with its reason in section 5.
