------------------------------ MODULE LogPageInv ------------------------------
(***************************************************************************)
(* Why LogPage answers queries exactly: the inductive invariant behind     *)
(* RecordsAccounted, RecordsDisjoint, NoGhost, CursorInBlock and           *)
(* QueryExact, for systems in which a free covers pages of one allocation  *)
(* or handlers have one processor.                                         *)
(***************************************************************************)
EXTENDS LogPage

\* The steps of a call the return probe follows, and those at which it may
\* already have its block.
Running  == {"trace", "unwind", "called", "returned", "insert"}
Granted  == {"returned", "insert"}
Pending(i) == inst[i].pc \in Granted /\ inst[i].page # Null

Watching == FreeProbe \subseteq probes

\* A record can still be taken from the pool, or linked, by a traced call.
AllocActive ==
  \/ "alloc_pages_nodemask" \in probes
  \/ \E i \in Inst : inst[i].pc \in Running

In(q, l)       == rec[l].start_page <= q /\ q < rec[l].end_page
Blk(q, p, k)   == p <= q /\ q < End(p, k)
InFreed(q, f)  == Blk(q, freer[f].page, freer[f].order)
InGrant(q, i)  == Blk(q, inst[i].page, inst[i].order)
ToFree(q, f)   == freer[f].start <= q /\ q < FreeEnd(f)

-----------------------------------------------------------------------------
(* What does not depend on the pages.                                        *)

\* The lock is held by the one context whose loop runs.
LockInv == \A f \in Freer : freer[f].pc \in {"loop", "reload"} <=> lpLock = f

\* Before the pools are there nothing runs; the allocator's probe comes after
\* the others and goes before them; no record before it.
PhaseInv ==
  /\ phase \in {"unloaded", "lp_pool"} =>
       probes = {} /\ \A f \in Freer : freer[f].pc \notin {"loop", "reload"}
  /\ phase \in {"unloaded", "lp_pool", "registering"} =>
       /\ "alloc_pages_nodemask" \notin probes
       /\ tree = {}
       /\ \A i \in Inst : inst[i].pc = "idle"
  /\ phase = "live" => probes = Probe
  /\ AllocActive => Watching

\* An idle instance holds no record.
IdleInv == \A i \in Inst : inst[i].pc = "idle" => inst[i].lp = None

\* A free covers pages of one allocation, or no handler runs beside another.
Orderly == ~SpanFree \/ NrCpus = 1

\* A record whose end is read after it went back to the pool is read before
\* anyone can take it: frees are missed already, so no call is traced any more,
\* or the loop has the only processor.  Its pages are in no other record.
ReloadOK(f) ==
  LET end == rec[freer[f].lp].end_page IN
    /\ (phase = "unloading" /\ ~Watching) \/ (SpanFree /\ NrCpus = 1)
    /\ freer[f].page <= freer[f].start /\ freer[f].start < end /\ end < FreeEnd(f)
    /\ \A l \in tree, q \in Page : ~(In(q, l) /\ freer[f].start <= q /\ q < end)

ReloadInv == \A f \in Freer : freer[f].pc = "reload" => ReloadOK(f)

-----------------------------------------------------------------------------
(* Blocks.                                                                   *)

\* An owned page is not in the buddy allocator, and is in the allocation that
\* gave it away.
OwnerInv ==
  \A q \in Page : owner[q] # None =>
    q \in busy /\ Blk(q, owner[q].page, owner[q].order)

\* A block being freed, or on its way to its owner, is nobody else's.
FreedInv ==
  \A f \in Freer : freer[f].pc # "idle" =>
    /\ FreeEnd(f) <= NrPages + 1
    /\ \A q \in Page : InFreed(q, f) => q \in busy /\ owner[q] = None
    /\ \A g \in Freer \ {f} : freer[g].pc # "idle" =>
         \A q \in Page : ~(InFreed(q, f) /\ InFreed(q, g))

GrantInv ==
  \A i \in Inst : Pending(i) =>
    /\ End(inst[i].page, inst[i].order) <= NrPages + 1
    /\ \A q \in Page : InGrant(q, i) => q \in busy /\ owner[q] = None
    /\ \A j \in Inst \ {i} : Pending(j) =>
         \A q \in Page : ~(InGrant(q, i) /\ InGrant(q, j))
    /\ \A f \in Freer : freer[f].pc # "idle" =>
         \A q \in Page : ~(InGrant(q, i) /\ InFreed(q, f))

\* A running call's record says what the call will have linked.
CallInv ==
  \A i \in Inst :
    /\ inst[i].pc \in Running \ Granted => inst[i].page = Null
    /\ inst[i].pc \in Running => rec[inst[i].lp].order = inst[i].order
    /\ inst[i].pc \in {"called", "returned", "insert"} =>
         rec[inst[i].lp].entries = inst[i].caller
    /\ inst[i].pc = "insert" =>
         /\ rec[inst[i].lp].start_page = inst[i].page
         /\ rec[inst[i].lp].end_page = End(inst[i].page, inst[i].order)

-----------------------------------------------------------------------------
(* Records and pages.                                                        *)

ShapeInv ==
  \A l \in tree :
    /\ 1 <= rec[l].start_page
    /\ rec[l].start_page < rec[l].end_page
    /\ rec[l].end_page <= NrPages + 1
    /\ \A m \in tree \ {l} : \A q \in Page : ~(In(q, l) /\ In(q, m))

\* A page its owner has from a traced allocation is in a record with the trace.
TrackedInv ==
  \A q \in Page : owner[q] # None /\ owner[q].by # None =>
    \E l \in tree : In(q, l) /\ rec[l].entries = owner[q].by

\* While every free is seen: an owned page that is in a record comes from a
\* traced allocation, the other owned pages of the record come from the same
\* one, and the next page on either side, if it does too, is in the record.
RecordInv ==
  Watching => \A l \in tree, q \in Page : In(q, l) /\ owner[q] # None =>
    /\ owner[q].by # None
    /\ \A r \in Page : In(r, l) /\ owner[r] # None => owner[r] = owner[q]
    /\ \A r \in {q - 1, q + 1} : r \in Page /\ owner[r] = owner[q] => In(r, l)

\* A page in a record has an owner or is about to be taken out of it.
GhostInv ==
  Watching => \A l \in tree, q \in Page : In(q, l) /\ owner[q] = None =>
    \E f \in Freer : freer[f].pc \in {"loop", "reload"} /\ ToFree(q, f)

\* A page on its way to its owner is in no record.
GrantFreshInv ==
  Watching => \A i \in Inst : Pending(i) =>
    \A l \in tree, q \in Page : ~(InGrant(q, i) /\ In(q, l))

\* The cursor is in the block; what the loop has left to free of one allocation
\* is in one record or in none.
LoopInv ==
  \A f \in Freer : freer[f].pc = "loop" =>
    /\ freer[f].page <= freer[f].start
    /\ freer[f].start < FreeEnd(f)
    /\ Watching /\ ~SpanFree =>
         \A l \in tree, q, r \in Page :
           ToFree(q, f) /\ ToFree(r, f) /\ In(q, l) => In(r, l)

ControlInv == LockInv /\ PhaseInv /\ IdleInv /\ RecordsAccounted
BlockInv   == OwnerInv /\ FreedInv /\ GrantInv /\ CallInv
RecInv     == /\ ReloadInv /\ ShapeInv /\ TrackedInv /\ RecordInv
              /\ GhostInv /\ GrantFreshInv /\ LoopInv

\* All of it: true at the start, kept by every step of an Orderly system, whose
\* frees cover pages of one allocation only (huawei_log_page.c:534-545) or have
\* the processor to themselves, and enough to show that records are disjoint,
\* queries exact and the cursor in its block.
IndInv == ControlInv /\ BlockInv /\ RecInv

-----------------------------------------------------------------------------
(* Why the pools are never empty.                                            *)

\* The frames of lp_pool are nobody's to give or to free, and in no record: the
\* records in the tree are fewer than the pool's by as many.
ReservedInv ==
  \A q \in Reserved :
    /\ q \in busy /\ owner[q] = None
    /\ \A i \in Inst : Pending(i) => ~InGrant(q, i)
    /\ \A f \in Freer : freer[f].pc # "idle" => ~InFreed(q, f)
    /\ \A l \in tree : ~In(q, l)

\* A trace buffer is in its pool or borrowed by a handler.
BufferInv ==
  phase \in {"registering", "live", "unloading"} =>
    \A s \in St : s \in stFree \/ \E i \in Inst : inst[i].pc = "unwind" /\ inst[i].st = s
=============================================================================
