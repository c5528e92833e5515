------------------------- MODULE LogPageQueryProofs -------------------------
(***************************************************************************)
(* Proofs that the tracker answers queries exactly and keeps no ghosts,    *)
(* and that it implements PageTracker, on every system in which one free   *)
(* covers pages of one allocation or the handlers have one processor; and  *)
(* that neither of its pools is ever found empty.                          *)
(***************************************************************************)
EXTENDS LogPageProofs, FiniteSetTheorems

-----------------------------------------------------------------------------
(* Facts about one state.                                                    *)

\* check_break leaves the loop or goes on with it.
LEMMA BreakEndsIteration ==
  ASSUME TypeInv, NEW f \in Freer, NEW t, CheckBreak(f, t)
  PROVE  freer'[f].pc # "reload"
<1>1. freer \in [Freer -> Free]
  BY DEF TypeInv, TypeOK
<1>2. freer[f] \in Free
  BY <1>1
<1> DEFINE after(pc) == [freer[f] EXCEPT !.pc = pc, !.start = t, !.lp = None]
<1>3. \A pc : after(pc).pc = pc
  BY <1>2 DEF Free
<1>4. \E pc \in {"release", "loop"} :
        freer' = [freer EXCEPT ![f] = after(pc)]
  BY DEF CheckBreak
<1> HIDE DEF after
<1>5. \E pc \in {"release", "loop"} : freer'[f] = after(pc)
  BY <1>1, <1>4
<1> QED  BY <1>3, <1>5

LEMMA RecTypes ==
  ASSUME TypeInv
  PROVE  /\ \A l \in tree : /\ l \in Lp /\ rec[l] \in Record
                            /\ rec[l].start_page \in Nat /\ rec[l].end_page \in Nat
         /\ \A f \in Freer : freer[f].pc # "idle" =>
              /\ freer[f].page \in Page /\ freer[f].order \in Orders
              /\ freer[f].start \in Nat
              /\ FreeEnd(f) \in Nat /\ FreeEnd(f) > freer[f].page
BY EndType DEF TypeInv, TypeOK, FreeOK, Free, Record, FreeEnd, Page

\* The pages still to be freed have no owner.
LEMMA ToFreeUnowned ==
  ASSUME TypeInv, FreedInv, NEW f \in Freer, freer[f].pc \in {"loop", "reload"},
         freer[f].page <= freer[f].start, NEW q \in Page, ToFree(q, f)
  PROVE  owner[q] = None /\ q \in busy
BY RecTypes DEF FreedInv, ToFree, InFreed, Blk, FreeEnd, Page

\* Every page in a record is taken.
LEMMA TrackedBusy ==
  ASSUME TypeInv, BlockInv, RecInv, Watching, NEW l \in tree, NEW q \in Page,
         In(q, l)
  PROVE  q \in busy
<1>1. CASE owner[q] # None
  BY <1>1 DEF BlockInv, OwnerInv
<1>2. CASE owner[q] = None
  <2>1. PICK f \in Freer : freer[f].pc \in {"loop", "reload"} /\ ToFree(q, f)
    BY <1>2 DEF RecInv, GhostInv
  <2>2. freer[f].page <= freer[f].start
    BY <2>1 DEF RecInv, LoopInv, ReloadInv, ReloadOK
  <2> QED  BY <2>1, <2>2, ToFreeUnowned DEF BlockInv
<1> QED  BY <1>1, <1>2

\* A record's pages are pages.
LEMMA InPage ==
  ASSUME TypeInv, ShapeInv, NEW l \in tree, NEW q \in Nat, In(q, l)
  PROVE  q \in Page
BY RecTypes, PageAssumption DEF ShapeInv, In, Page

\* What a search finds.
LEMMA FindIn ==
  ASSUME TypeInv, NEW q \in Nat
  PROVE  find_lp(q) = {l \in tree : In(q, l)}
BY DEF find_lp, In

\* The pages of one allocation that lie next to each other are in one record,
\* if one of them is.
LEMMA SameRecord ==
  ASSUME TypeInv, RecInv, Watching, NEW l \in tree,
         NEW q \in Page, NEW r \in Page, In(q, l), owner[q] # None,
         \A x \in Page : (q <= x /\ x <= r) \/ (r <= x /\ x <= q) => owner[x] = owner[q]
  PROVE  In(r, l)
<1> DEFINE s == rec[l].start_page
           e == rec[l].end_page
<1>1. s \in Nat /\ e \in Nat /\ 1 <= s /\ s <= q /\ q < e /\ e <= NrPages + 1
  BY RecTypes DEF RecInv, ShapeInv, In
<1>2. ASSUME NEW x \in Page, In(x, l), owner[x] = owner[q],
             NEW y \in Page, y = x - 1 \/ y = x + 1, owner[y] = owner[q]
      PROVE  In(y, l)
  BY <1>2 DEF RecInv, RecordInv
<1>3. CASE r < s
  <2>1. s \in Page /\ s - 1 \in Page /\ In(s, l)
    BY <1>1, <1>3, PageAssumption DEF Page, In
  <2>2. owner[s] = owner[q] /\ owner[s - 1] = owner[q]
    BY <1>1, <1>3, <2>1 DEF Page
  <2>3. In(s - 1, l)
    BY <1>2, <2>1, <2>2
  <2> QED  BY <1>1, <2>3 DEF In
<1>4. CASE e <= r
  <2>1. e \in Page /\ e - 1 \in Page /\ In(e - 1, l)
    BY <1>1, <1>4, PageAssumption DEF Page, In
  <2>2. owner[e] = owner[q] /\ owner[e - 1] = owner[q] /\ e = (e - 1) + 1
    BY <1>1, <1>4, <2>1 DEF Page
  <2>3. In(e, l)
    BY <1>2, <2>1, <2>2
  <2> QED  BY <1>1, <2>3 DEF In
<1> QED  BY <1>1, <1>3, <1>4 DEF In, Page

-----------------------------------------------------------------------------
(* Steps that leave the linked records alone.                                *)

TreeSame == tree' = tree /\ \A l \in tree : rec'[l] = rec[l]

\* The parts of RecInv that relate the records to the pages.
PagesInv == ShapeInv /\ TrackedInv /\ RecordInv /\ GhostInv /\ GrantFreshInv /\ LoopInv

LEMMA TreeFrame ==
  ASSUME TypeInv, PagesInv, TreeSame, UNCHANGED <<owner, freer>>,
         Watching' => Watching,
         Watching => \A i \in Inst : Pending(i)' =>
           \A l \in tree, q \in Page : ~(InGrant(q, i)' /\ In(q, l))
  PROVE  PagesInv'
<1> USE DEF PagesInv
<1>0. \A l \in tree : \A q : In(q, l)' <=> In(q, l)
  BY DEF TreeSame, In
<1>1. ShapeInv'
  BY DEF ShapeInv, TreeSame, In
<1>2. TrackedInv'
  BY DEF TrackedInv, TreeSame, In
<1>3. RecordInv'
  BY <1>0 DEF RecordInv, TreeSame
<1>4. GhostInv'
  BY <1>0 DEF GhostInv, TreeSame, ToFree, FreeEnd
<1>5. GrantFreshInv'
  BY <1>0 DEF GrantFreshInv, TreeSame
<1>6. LoopInv'
  BY <1>0 DEF LoopInv, TreeSame, ToFree, FreeEnd
<1> QED  BY <1>1, <1>2, <1>3, <1>4, <1>5, <1>6

\* The steps of the allocation handlers before the record is linked.
LEMMA PagesAllocHandler ==
  ASSUME TypeInv, ControlInv, BlockInv, PagesInv, NEW i \in Inst,
         AllocHandlerStep(i), ~RetInsert(i)
  PROVE  PagesInv'
<1>0. inst[i].pc \in Running /\ inst[i].lp \in Lp /\ inst[i].lp \notin tree
      /\ inst[i] \in Instance
  BY AllocMoves, NoneAssumption
     DEF TypeInv, TypeOK, InstOK, ControlInv, RecordsAccounted, HeldBy
<1>1. TreeSame /\ UNCHANGED <<owner, freer, probes>>
  <2>1. tree' = tree /\ UNCHANGED owner
    BY DEF AllocHandlerStep, EntryAllocSt, EntryTrace, RetFreeLp, RetSetExtent,
       kernelVars
  <2>2. \A l \in Lp \ {inst[i].lp} : rec'[l] = rec[l]
    BY DEF AllocHandlerStep, EntryAllocSt, EntryTrace, RetFreeLp, RetSetExtent,
       TypeInv, TypeOK
  <2> QED  BY <1>0, <2>1, <2>2, AllocFrame DEF TreeSame, TypeInv, TypeOK
<1>2. \A j \in Inst : Pending(j)' =>
        Pending(j) /\ \A q \in Page : InGrant(q, j)' <=> InGrant(q, j)
  <2>1. \A j \in Inst \ {i} : inst'[j] = inst[j]
    BY AllocMoves
  <2>2. CASE EntryAllocSt(i) \/ EntryTrace(i) \/ RetFreeLp(i)
    <3>1. inst'[i].pc \notin Granted
      <4> USE <1>0 DEF Granted, TypeInv, TypeOK, Instance
      <4>1. CASE EntryAllocSt(i)
        BY <4>1 DEF EntryAllocSt
      <4>2. CASE EntryTrace(i)
        BY <4>2 DEF EntryTrace
      <4>3. CASE RetFreeLp(i)
        BY <4>3 DEF RetFreeLp, Idle
      <4> QED  BY <2>2, <4>1, <4>2, <4>3
    <3> QED  BY <2>1, <3>1 DEF Pending, InGrant
  <2>3. CASE RetSetExtent(i)
    <3>1. /\ inst'[i].page = inst[i].page /\ inst'[i].order = inst[i].order
          /\ inst[i].pc \in Granted
      BY <2>3 DEF RetSetExtent, Granted, TypeInv, TypeOK, Instance
    <3> QED  BY <2>1, <3>1 DEF Pending, InGrant
  <2> QED  BY <2>2, <2>3 DEF AllocHandlerStep
<1> QED  BY <1>1, <1>2, TreeFrame DEF Watching, PagesInv, GrantFreshInv

\* The call's record is linked.
LEMMA PagesInsert ==
  ASSUME TypeInv, ControlInv, BlockInv, PagesInv, NEW i \in Inst, RetInsert(i)
  PROVE  PagesInv'
<1> DEFINE p == inst[i].page
           k == inst[i].order
           n == inst[i].lp
           new == [page |-> p, order |-> k, by |-> inst[i].caller]
<1>1. /\ p \in Page /\ k \in Orders /\ n \in Lp /\ inst[i].caller \in Caller
      /\ Pending(i) /\ n \notin tree /\ Watching
      /\ rec[n].start_page = p /\ rec[n].end_page = End(p, k)
      /\ rec[n].entries = inst[i].caller
      /\ End(p, k) \in Nat /\ End(p, k) > p /\ End(p, k) <= NrPages + 1
  <2>1. /\ inst[i].pc = "insert"
        /\ p \in Page /\ k \in Orders /\ n \in Lp /\ inst[i].caller \in Caller
    BY DEF RetInsert, TypeInv, TypeOK, InstOK, Running
  <2>2. Pending(i) /\ Watching
    BY <2>1 DEF Pending, Granted, Page, Null, ControlInv, PhaseInv, AllocActive,
       Running
  <2>3. n \notin tree
    BY <2>1, NoneAssumption DEF ControlInv, RecordsAccounted, HeldBy
  <2>4. p \in Nat /\ End(p, k) \in Nat /\ End(p, k) > p
    BY <2>1, EndType DEF Page
  <2> QED  BY <2>1, <2>2, <2>3, <2>4 DEF BlockInv, CallInv, GrantInv
<1>2. /\ tree' = tree \cup {n} /\ UNCHANGED <<rec, freer, probes>>
      /\ \A q \in Page : owner'[q] = IF InGrant(q, i) THEN new ELSE owner[q]
      /\ inst'[i].pc = "idle" /\ \A j \in Inst \ {i} : inst'[j] = inst[j]
  BY <1>1, SpanBlk DEF RetInsert, InGrant, Page, TypeInv, TypeOK, Idle, modVars
<1>3. /\ \A q \in Page : In(q, n) <=> InGrant(q, i)
      /\ \A q \in Page, l \in tree : ~(InGrant(q, i) /\ In(q, l))
      /\ \A q : \A l \in Lp : In(q, l)' <=> In(q, l)
      /\ \A q \in Page : owner[q] # new
  <2>1. ASSUME NEW q \in Page, owner[q] = new PROVE FALSE
    <3>1. new # None
      BY <1>1, NoneAssumption
    <3>2. InGrant(q, i)
      BY <2>1, <3>1 DEF BlockInv, OwnerInv, InGrant
    <3> QED  BY <1>1, <2>1, <3>1, <3>2 DEF BlockInv, GrantInv
  <2> QED  BY <1>1, <1>2, <2>1 DEF In, InGrant, Blk, PagesInv, GrantFreshInv
<1>4. new # None /\ new.by # None /\ new.by = inst[i].caller
  BY <1>1, NoneAssumption
<1>5. \A f \in Freer : freer[f].pc \notin {"loop", "reload"}
  BY NoneAssumption DEF RetInsert, ControlInv, LockInv
<1>t. tree \subseteq Lp
  BY DEF TypeInv, TypeOK
<1> HIDE DEF new
<1>6. ShapeInv'
  <2>1. 1 <= p
    BY <1>1 DEF Page
  <2> QED  BY <1>1, <1>2, <1>3, <1>t, <2>1 DEF PagesInv, ShapeInv
<1>7. TrackedInv'
  BY <1>1, <1>2, <1>3, <1>4, <1>t DEF PagesInv, TrackedInv
<1>8. RecordInv'
  <2> SUFFICES ASSUME NEW l \in tree \cup {n}, NEW q \in Page, In(q, l), owner'[q] # None
               PROVE  /\ owner'[q].by # None
                      /\ \A r \in Page : In(r, l) /\ owner'[r] # None => owner'[r] = owner'[q]
                      /\ \A r \in {q - 1, q + 1} :
                           r \in Page /\ owner'[r] = owner'[q] => In(r, l)
    BY <1>1, <1>2, <1>3, <1>t DEF RecordInv
  <2>1. CASE l = n
    BY <1>2, <1>3, <1>4, <2>1
  <2>2. CASE l \in tree
    <3>1. \A r \in Page : In(r, l) => owner'[r] = owner[r]
      BY <1>2, <1>3, <2>2
    <3>2. \A r \in Page : owner'[r] = owner'[q] => owner[r] = owner[q]
      BY <1>2, <1>3, <3>1
    <3> QED  BY <1>1, <2>2, <3>1, <3>2 DEF PagesInv, RecordInv
  <2> QED  BY <2>1, <2>2
<1>9. GhostInv'
  BY <1>1, <1>2, <1>3, <1>4, <1>5, <1>t DEF PagesInv, GhostInv
<1>10. GrantFreshInv'
  <2>1. ASSUME NEW j \in Inst, Pending(j)' PROVE j # i /\ Pending(j) /\ inst'[j] = inst[j]
    BY <1>2, <2>1 DEF Pending, Granted
  <2>2. \A j \in Inst, q \in Page : Pending(j)' =>
          /\ InGrant(q, j)' <=> InGrant(q, j)
          /\ ~(InGrant(q, j) /\ InGrant(q, i))
    BY <1>1, <2>1 DEF InGrant, BlockInv, GrantInv
  <2> QED  BY <1>1, <1>2, <1>3, <1>t, <2>1, <2>2 DEF PagesInv, GrantFreshInv
<1>11. LoopInv'
  BY <1>2, <1>5 DEF LoopInv
<1> QED  BY <1>6, <1>7, <1>8, <1>9, <1>10, <1>11 DEF PagesInv

\* The kernel enters, serves and fails traced allocations.
LEMMA PagesKernelAlloc ==
  ASSUME TypeInv, ControlInv, BlockInv, RecInv, PagesInv, NEW i \in Inst,
         \/ \E k \in Orders, c \in Caller : EntryAllocLp(i, k, c)
         \/ \E p \in Page : KernelAlloc(i, p)
         \/ KernelAllocFails(i)
  PROVE  PagesInv'
<1>0. inst[i] \in Instance /\ inst \in [Inst -> Instance]
  BY DEF TypeInv, TypeOK
<1>1. CASE \E k \in Orders, c \in Caller : EntryAllocLp(i, k, c)
  <2>1. PICK k \in Orders, c \in Caller : EntryAllocLp(i, k, c)
    BY <1>1
  <2>2. PICK l \in lpFree : rec' = [rec EXCEPT ![l] = [Blank EXCEPT !.order = k]]
    BY <2>1 DEF EntryAllocLp
  <2>3. TreeSame /\ UNCHANGED <<owner, freer, probes>>
    <3>1. l \notin tree /\ l \in Lp /\ tree \subseteq Lp
      BY <2>2 DEF ControlInv, RecordsAccounted, TypeInv, TypeOK
    <3>2. \A m \in tree : rec'[m] = rec[m]
      BY <2>2, <3>1 DEF TypeInv, TypeOK
    <3> QED  BY <2>1, <3>2 DEF EntryAllocLp, TreeSame, modVars, kernelVars
  <2>4. inst'[i].pc = "trace" /\ \A j \in Inst \ {i} : inst'[j] = inst[j]
    BY <1>0, <2>1 DEF EntryAllocLp, Idle
  <2>5. \A j \in Inst : Pending(j)' =>
          Pending(j) /\ \A q \in Page : InGrant(q, j)' <=> InGrant(q, j)
    BY <2>4 DEF Pending, Granted, InGrant
  <2> QED  BY <2>3, <2>5, TreeFrame DEF Watching, PagesInv, GrantFreshInv
<1>2. CASE KernelAllocFails(i)
  <2>1. TreeSame /\ UNCHANGED <<owner, freer, probes>>
    BY <1>2 DEF KernelAllocFails, TreeSame, modVars, kernelVars
  <2>2. inst'[i].page = Null /\ \A j \in Inst \ {i} : inst'[j] = inst[j]
    BY <1>0, <1>2 DEF KernelAllocFails, BlockInv, CallInv, Running, Granted, Instance
  <2>3. \A j \in Inst : Pending(j)' =>
          Pending(j) /\ \A q \in Page : InGrant(q, j)' <=> InGrant(q, j)
    BY <2>2 DEF Pending, InGrant
  <2> QED  BY <2>1, <2>3, TreeFrame DEF Watching, PagesInv, GrantFreshInv
<1>3. CASE \E p \in Page : KernelAlloc(i, p)
  <2>1. PICK p \in Page : KernelAlloc(i, p)
    BY <1>3
  <2> DEFINE k == inst[i].order
  <2>2. TreeSame /\ UNCHANGED <<owner, freer, probes>>
    BY <2>1 DEF KernelAlloc, TreeSame, modVars
  <2>3. /\ inst'[i].page = p /\ inst'[i].order = k
        /\ \A j \in Inst \ {i} : inst'[j] = inst[j]
        /\ k \in Orders /\ Span(p, k) \cap busy = {}
    BY <1>0, <2>1 DEF KernelAlloc, Instance, TypeInv, InstOK, Running
  <2>4. \A q \in Page : InGrant(q, i)' <=> q \in Span(p, k)
    BY <2>3, SpanBlk DEF InGrant, Page
  <2>5. \A j \in Inst \ {i} : Pending(j)' =>
          Pending(j) /\ \A q \in Page : InGrant(q, j)' <=> InGrant(q, j)
    BY <2>3 DEF Pending, InGrant
  <2>6. Watching => \A j \in Inst : Pending(j)' =>
          \A l \in tree, q \in Page : ~(InGrant(q, j)' /\ In(q, l))
    BY <2>3, <2>4, <2>5, TrackedBusy DEF PagesInv, GrantFreshInv
  <2> QED  BY <2>2, <2>6, TreeFrame DEF Watching
<1> QED  BY <1>1, <1>2, <1>3

LEMMA PagesAllocUntraced ==
  ASSUME TypeInv, BlockInv, RecInv, PagesInv, NEW p \in Page, NEW k \in Orders,
         AllocUntraced(p, k)
  PROVE  PagesInv'
<1> DEFINE new == [page |-> p, order |-> k, by |-> None]
<1>1. /\ Span(p, k) \cap busy = {}
      /\ \A q \in Page : owner'[q] = IF q \in Span(p, k) THEN new ELSE owner[q]
      /\ UNCHANGED <<probes, rec, tree, inst, freer>>
  BY DEF AllocUntraced, modVars
<1>2. new.by = None
  OBVIOUS
<1> HIDE DEF new
<1>3. Watching => \A l \in tree, q \in Page : In(q, l) => owner'[q] = owner[q]
  BY <1>1, TrackedBusy
<1>4. ShapeInv'
  BY <1>1 DEF PagesInv, ShapeInv, In
<1>5. TrackedInv'
  BY <1>1, <1>2 DEF PagesInv, TrackedInv, In
<1>6. RecordInv'
  <2> SUFFICES ASSUME Watching, NEW l \in tree, NEW q \in Page, In(q, l), owner'[q] # None
               PROVE  /\ owner'[q].by # None
                      /\ \A r \in Page : In(r, l) /\ owner'[r] # None => owner'[r] = owner'[q]
                      /\ \A r \in {q - 1, q + 1} :
                           r \in Page /\ owner'[r] = owner'[q] => In(r, l)
    BY <1>1 DEF RecordInv, Watching, In
  <2>1. owner'[q] = owner[q] /\ owner[q].by # None
    BY <1>3 DEF PagesInv, RecordInv
  <2>2. \A r \in Page : owner'[r] = owner'[q] => owner[r] = owner[q]
    BY <1>1, <1>2, <2>1
  <2> QED  BY <1>3, <2>1, <2>2 DEF PagesInv, RecordInv
<1>7. GhostInv'
  BY <1>1, <1>3 DEF PagesInv, GhostInv, Watching, In, ToFree, FreeEnd
<1>8. GrantFreshInv' /\ LoopInv'
  BY <1>1 DEF PagesInv, GrantFreshInv, LoopInv, Watching, In, InGrant, Pending,
     ToFree, FreeEnd
<1> QED  BY <1>4, <1>5, <1>6, <1>7, <1>8 DEF PagesInv

LEMMA PagesKernelFree ==
  ASSUME TypeInv, PagesInv, NEW f \in Freer, KernelFree(f)
  PROVE  PagesInv'
<1>1. /\ UNCHANGED <<probes, rec, tree, inst, owner>>
      /\ freer[f].pc = "release" /\ freer'[f].pc = "idle"
      /\ \A g \in Freer \ {f} : freer'[g] = freer[g]
  BY DEF KernelFree, Done, modVars, TypeInv, TypeOK
<1>2. ShapeInv' /\ TrackedInv'
  BY <1>1 DEF PagesInv, ShapeInv, TrackedInv, In
<1>3. RecordInv'
  BY <1>1 DEF PagesInv, RecordInv, Watching, In
<1>4. GhostInv' /\ LoopInv'
  BY <1>1 DEF PagesInv, GhostInv, LoopInv, Watching, In, ToFree, FreeEnd
<1>5. GrantFreshInv'
  BY <1>1 DEF PagesInv, GrantFreshInv, Watching, In, InGrant, Pending
<1> QED  BY <1>2, <1>3, <1>4, <1>5 DEF PagesInv

\* A free that the tracker does not see.
LEMMA PagesUnprobed ==
  ASSUME TypeInv, PagesInv, NEW f \in Freer, NEW p \in Page, NEW k \in Orders,
         NEW fn \in FreeProbe, FreeUnprobed(f, p, k, fn)
  PROVE  PagesInv'
<1>1. /\ UNCHANGED <<probes, rec, tree, inst>>
      /\ ~Watching /\ ~Watching'
      /\ freer'[f].pc = "release"
      /\ \A g \in Freer \ {f} : freer'[g] = freer[g]
      /\ \A q \in Page : owner'[q] # None => owner'[q] = owner[q]
  BY DEF FreeUnprobed, GiveUp, modVars, TypeInv, TypeOK, Watching
<1>2. ShapeInv' /\ TrackedInv'
  BY <1>1 DEF PagesInv, ShapeInv, TrackedInv, In
<1>3. RecordInv' /\ GhostInv' /\ GrantFreshInv'
  BY <1>1 DEF RecordInv, GhostInv, GrantFreshInv
<1>4. LoopInv'
  BY <1>1 DEF PagesInv, LoopInv, FreeEnd
<1> QED  BY <1>2, <1>3, <1>4 DEF PagesInv

\* A free that the tracker sees: its pages are left to free, and if they are of
\* one allocation they are in one record or in none.
LEMMA PagesFreeEnter ==
  ASSUME TypeInv, ControlInv, BlockInv, RecInv, PagesInv,
         NEW f \in Freer, NEW p \in Page, NEW k \in Orders,
         NEW fn \in FreeProbe, FreeEnter(f, p, k, fn)
  PROVE  PagesInv'
<1>1. /\ UNCHANGED <<probes, rec, tree, inst>>
      /\ freer'[f].pc = "loop" /\ freer'[f].page = p /\ freer'[f].order = k
      /\ freer'[f].start = p
      /\ \A g \in Freer \ {f} : freer'[g] = freer[g]
      /\ \A q \in Page : owner'[q] = IF q \in Span(p, k) THEN None ELSE owner[q]
      /\ \A q \in Page : q \in Span(p, k) =>
           owner[q] # None /\ (SpanFree \/ owner[q] = owner[p])
  BY DEF FreeEnter, Freeable, GiveUp, modVars, TypeInv, TypeOK
<1>2. \A g \in Freer : freer[g].pc \notin {"loop", "reload"}
  BY NoneAssumption DEF FreeEnter, ControlInv, LockInv
<1>3. /\ FreeEnd(f)' = End(p, k) /\ End(p, k) \in Nat /\ p < End(p, k)
      /\ \A q \in Page : q \in Span(p, k) <=> ToFree(q, f)'
  BY <1>1, EndType, SpanBlk DEF FreeEnd, ToFree, Blk, Page
<1>4. \A q \in Page : owner'[q] # None => owner'[q] = owner[q]
  BY <1>1
<1>5. ShapeInv' /\ TrackedInv'
  BY <1>1, <1>4 DEF PagesInv, ShapeInv, TrackedInv, In
<1>6. RecordInv'
  <2>1. \A q, r \in Page : owner'[q] # None /\ owner'[r] = owner'[q] => owner[r] = owner[q]
    BY <1>4
  <2> QED  BY <1>1, <1>4, <2>1 DEF PagesInv, RecordInv, Watching, In
<1>7. GhostInv'
  <2> SUFFICES ASSUME Watching, NEW l \in tree, NEW q \in Page, In(q, l), owner'[q] = None
               PROVE  ToFree(q, f)'
    BY <1>1 DEF GhostInv, Watching, In
  <2> QED  BY <1>1, <1>2, <1>3 DEF PagesInv, GhostInv
<1>8. GrantFreshInv'
  BY <1>1 DEF PagesInv, GrantFreshInv, Watching, In, InGrant, Pending
<1>9. ASSUME Watching, ~SpanFree, NEW l \in tree, NEW q \in Page, NEW r \in Page,
             q \in Span(p, k), r \in Span(p, k), In(q, l)
      PROVE  In(r, l)
  <2>1. \A x \in Page : (q <= x /\ x <= r) \/ (r <= x /\ x <= q) => x \in Span(p, k)
    BY <1>3, <1>9 DEF Span, Page
  <2> QED  BY <1>1, <1>9, <2>1, SameRecord
<1>10. LoopInv'
  <2> SUFFICES ASSUME NEW g \in Freer, freer'[g].pc = "loop"
               PROVE  /\ freer'[g].page <= freer'[g].start
                      /\ freer'[g].start < FreeEnd(g)'
                      /\ Watching' /\ ~SpanFree => \A l \in tree, q, r \in Page :
                           ToFree(q, g)' /\ ToFree(r, g)' /\ In(q, l)' => In(r, l)'
    BY <1>1 DEF LoopInv
  <2>1. g = f
    BY <1>1, <1>2
  <2> QED  BY <1>1, <1>3, <1>9, <2>1 DEF Watching, In, Page
<1> QED  BY <1>5, <1>6, <1>7, <1>8, <1>10 DEF PagesInv

-----------------------------------------------------------------------------
(* The free loop.                                                            *)

\* One context has the lock; what its loop has to free has no owner.
LEMMA LoopAlone ==
  ASSUME TypeInv, ControlInv, NEW f \in Freer, FreeStep(f)
  PROVE  /\ \A g \in Freer \ {f} : freer[g].pc \notin {"loop", "reload"}
         /\ \A g \in Freer \ {f} : freer'[g] = freer[g]
         /\ FreeEnd(f)' = FreeEnd(f) /\ freer'[f].page = freer[f].page
         /\ UNCHANGED <<phase, probes, inst, owner>>
BY FreeMoves, FreeFrame DEF ControlInv, LockInv, FreeEnd

\* m is what is left of l: the pages of l next to one of m that still have an
\* owner are in m too.
PartOf(m, l) ==
  /\ rec'[m].entries = rec[l].entries
  /\ \A q \in Page : In(q, m)' => In(q, l)
  /\ Watching => \A q \in Page : \A r \in {q - 1, q + 1} :
       In(q, m)' /\ r \in Page /\ In(r, l) /\ owner[r] # None => In(r, m)'

\* The loop will still come to q, a page of another allocation.
StillToFree(q, f) ==
  SpanFree /\ freer'[f].pc \in {"loop", "reload"} /\ freer'[f].start <= q

\* A step of the loop that takes only ownerless pages out of records, and
\* leaves none of the block behind in them while every free is seen.
LEMMA PagesShrink ==
  ASSUME TypeInv, ControlInv, BlockInv, PagesInv, NEW f \in Freer, FreeStep(f),
         ShapeInv',
         \A m \in tree' : \E l \in tree : PartOf(m, l),
         \A l \in tree, q \in Page : In(q, l) /\ owner[q] # None =>
           \E m \in tree' : In(q, m)' /\ rec'[m].entries = rec[l].entries,
         Watching => \A m \in tree', q \in Page :
           In(q, m)' /\ ToFree(q, f) => StillToFree(q, f),
         freer'[f].pc = "loop" =>
           /\ freer[f].page <= freer[f].start /\ freer[f].start <= freer'[f].start
           /\ freer'[f].start < FreeEnd(f)
  PROVE  PagesInv'
<1>0. /\ \A g \in Freer \ {f} : freer[g].pc \notin {"loop", "reload"}
      /\ \A g \in Freer \ {f} : freer'[g] = freer[g]
      /\ FreeEnd(f)' = FreeEnd(f) /\ freer'[f].page = freer[f].page
      /\ UNCHANGED <<probes, inst, owner>>
      /\ Watching' <=> Watching
  BY LoopAlone DEF Watching
<1>1. TrackedInv'
  <2> SUFFICES ASSUME NEW q \in Page, owner[q] # None, owner[q].by # None
               PROVE  \E m \in tree' : In(q, m)' /\ rec'[m].entries = owner[q].by
    BY <1>0 DEF TrackedInv
  <2>1. PICK l \in tree : In(q, l) /\ rec[l].entries = owner[q].by
    BY DEF PagesInv, TrackedInv
  <2> QED  BY <2>1
<1>2. RecordInv'
  <2> SUFFICES ASSUME Watching, NEW m \in tree', NEW q \in Page, In(q, m)',
                      owner[q] # None
               PROVE  /\ owner[q].by # None
                      /\ \A r \in Page : In(r, m)' /\ owner[r] # None => owner[r] = owner[q]
                      /\ \A r \in {q - 1, q + 1} :
                           r \in Page /\ owner[r] = owner[q] => In(r, m)'
    BY <1>0 DEF RecordInv
  <2>1. PICK l \in tree : PartOf(m, l)
    OBVIOUS
  <2>2. In(q, l)
    BY <2>1 DEF PartOf
  <2>3. \A r \in Page : In(r, m)' => In(r, l)
    BY <2>1 DEF PartOf
  <2>4. /\ owner[q].by # None
        /\ \A r \in Page : In(r, l) /\ owner[r] # None => owner[r] = owner[q]
        /\ \A r \in {q - 1, q + 1} : r \in Page /\ owner[r] = owner[q] => In(r, l)
    BY <2>2 DEF PagesInv, RecordInv
  <2>5. \A r \in {q - 1, q + 1} :
          r \in Page /\ In(r, l) /\ owner[r] # None => In(r, m)'
    BY <2>1 DEF PartOf
  <2> QED  BY <2>3, <2>4, <2>5
<1>3. GhostInv'
  <2> SUFFICES ASSUME Watching, NEW m \in tree', NEW q \in Page, In(q, m)',
                      owner[q] = None
               PROVE  freer'[f].pc \in {"loop", "reload"} /\ ToFree(q, f)'
    BY <1>0 DEF GhostInv
  <2>1. PICK l \in tree : In(q, l)
    BY DEF PartOf
  <2>2. ToFree(q, f)
    BY <1>0, <2>1 DEF PagesInv, GhostInv
  <2>3. StillToFree(q, f)
    BY <2>2
  <2> QED  BY <1>0, <2>2, <2>3 DEF StillToFree, ToFree
<1>4. GrantFreshInv'
  <2> SUFFICES ASSUME Watching, NEW i \in Inst, Pending(i), NEW m \in tree',
                      NEW q \in Page, InGrant(q, i), In(q, m)'
               PROVE  FALSE
    BY <1>0 DEF GrantFreshInv, Pending, InGrant
  <2>1. PICK l \in tree : In(q, l)
    BY DEF PartOf
  <2> QED  BY <2>1 DEF PagesInv, GrantFreshInv
<1>5. LoopInv'
  <2> SUFFICES ASSUME NEW g \in Freer, freer'[g].pc = "loop"
               PROVE  /\ freer'[g].page <= freer'[g].start
                      /\ freer'[g].start < FreeEnd(g)'
                      /\ Watching /\ ~SpanFree => \A m \in tree', q, r \in Page :
                           ToFree(q, g)' /\ ToFree(r, g)' /\ In(q, m)' => In(r, m)'
    BY <1>0 DEF LoopInv
  <2>1. g = f
    BY <1>0
  <2>2. /\ freer[f].start \in Nat /\ freer[f].page \in Nat
        /\ freer'[f].start \in Nat
    <3>1. freer[f].pc # "idle"
      BY FreeMoves
    <3>2. TypeInv'
      BY TypeFree
    <3> QED  BY <2>1, <3>1, <3>2, RecTypes DEF Page, TypeInv, TypeOK, Free
  <2>3. \A q \in Page : ToFree(q, f)' => ToFree(q, f)
    BY <1>0, <2>1, <2>2 DEF ToFree, Page
  <2> QED  BY <1>0, <2>1, <2>2, <2>3 DEF StillToFree
<1> QED  BY <1>1, <1>2, <1>3, <1>4, <1>5 DEF PagesInv

\* Where the loop is, and the record it looks at.
LEMMA LoopFacts ==
  ASSUME TypeInv, BlockInv, PagesInv, NEW f \in Freer, freer[f].pc = "loop"
  PROVE  /\ freer[f].start \in Page /\ freer[f].start \in Nat
         /\ FreeEnd(f) \in Nat /\ FreeEnd(f) <= NrPages + 1
         /\ freer[f].page <= freer[f].start /\ freer[f].start < FreeEnd(f)
         /\ \A q \in Page : ToFree(q, f) => owner[q] = None
<1>1. /\ freer[f].page \in Page /\ freer[f].start \in Nat /\ FreeEnd(f) \in Nat
      /\ freer[f].page <= freer[f].start /\ freer[f].start < FreeEnd(f)
      /\ FreeEnd(f) <= NrPages + 1
  BY RecTypes DEF PagesInv, LoopInv, BlockInv, FreedInv
<1> QED  BY <1>1, ToFreeUnowned, PageAssumption DEF Page, BlockInv, PagesInv

LEMMA LoopRecord ==
  ASSUME TypeInv, BlockInv, PagesInv, NEW f \in Freer, freer[f].pc = "loop",
         NEW l \in find_lp(freer[f].start)
  PROVE  /\ l \in tree /\ l \in Lp /\ rec[l] \in Record
         /\ rec[l].start_page \in Nat /\ rec[l].end_page \in Nat
         /\ 1 <= rec[l].start_page /\ rec[l].end_page <= NrPages + 1
         /\ rec[l].start_page <= freer[f].start /\ freer[f].start < rec[l].end_page
         /\ Watching => SpanFree \/ FreeEnd(f) <= rec[l].end_page
         /\ \A m \in tree \ {l}, q \in Page :
              freer[f].start <= q /\ q < rec[l].end_page => ~In(q, m)
<1>1. /\ l \in tree /\ l \in Lp /\ rec[l] \in Record
      /\ rec[l].start_page \in Nat /\ rec[l].end_page \in Nat
      /\ rec[l].start_page <= freer[f].start /\ freer[f].start < rec[l].end_page
      /\ 1 <= rec[l].start_page /\ rec[l].end_page <= NrPages + 1
  BY RecTypes DEF find_lp, PagesInv, ShapeInv
<1>2. /\ freer[f].start \in Page /\ ToFree(freer[f].start, f)
      /\ In(freer[f].start, l)
  BY <1>1, LoopFacts DEF ToFree, In
<1>3. ASSUME Watching, ~SpanFree PROVE FreeEnd(f) <= rec[l].end_page
  <2>1. FreeEnd(f) - 1 \in Page /\ ToFree(FreeEnd(f) - 1, f)
    BY LoopFacts, PageAssumption DEF ToFree, Page
  <2>2. In(FreeEnd(f) - 1, l)
    BY <1>1, <1>2, <1>3, <2>1 DEF PagesInv, LoopInv
  <2> QED  BY <1>1, <2>2, LoopFacts DEF In
<1>4. ASSUME NEW m \in tree \ {l}, NEW q \in Page,
             freer[f].start <= q, q < rec[l].end_page, In(q, m)
      PROVE  FALSE
  <2>1. In(q, l)
    BY <1>1, <1>2, <1>4 DEF In, Page
  <2> QED  BY <1>1, <1>4, <2>1 DEF PagesInv, ShapeInv
<1> QED  BY <1>1, <1>3, <1>4

LEMMA CheckBreakMoves ==
  ASSUME TypeInv, NEW f \in Freer, NEW t, CheckBreak(f, t)
  PROVE  /\ freer'[f].pc = "loop" <=> t # FreeEnd(f)
         /\ freer'[f].start = t
<1>1. freer \in [Freer -> Free] /\ freer[f] \in Free
  BY DEF TypeInv, TypeOK
<1>2. CASE t = FreeEnd(f)
  BY <1>1, <1>2 DEF CheckBreak, Free
<1>3. CASE t # FreeEnd(f)
  <2>1. freer' = [freer EXCEPT ![f] = [freer[f] EXCEPT !.pc = "loop", !.start = t, !.lp = None]]
    BY <1>3 DEF CheckBreak
  <2>2. freer'[f].pc = "loop" /\ freer'[f].start = t
    BY <1>1, <2>1 DEF Free
  <2> QED  BY <1>3, <2>2
<1> QED  BY <1>2, <1>3

\* The record at the cursor loses the pages of the block, at one end.
LEMMA PagesResize ==
  ASSUME TypeInv, ControlInv, BlockInv, PagesInv, NEW f \in Freer, FreeStep(f),
         freer[f].pc = "loop", NEW l \in find_lp(freer[f].start),
         tree' = tree, \A m \in tree \ {l} : rec'[m] = rec[m],
         rec'[l].entries = rec[l].entries,
         rec'[l].start_page \in Nat, rec'[l].end_page \in Nat,
         rec'[l].start_page < rec'[l].end_page,
         \A q \in Nat : In(q, l)' <=> In(q, l) /\ ~ToFree(q, f),
         freer'[f].pc = "loop" =>
           freer[f].start <= freer'[f].start /\ freer'[f].start < FreeEnd(f),
         FreeEnd(f) > rec[l].end_page =>
           freer'[f].pc = "loop" /\ freer'[f].start = rec[l].end_page
  PROVE  PagesInv'
<1>1. /\ l \in tree
      /\ rec[l].start_page \in Nat /\ rec[l].end_page \in Nat
      /\ 1 <= rec[l].start_page /\ rec[l].end_page <= NrPages + 1
      /\ Watching => SpanFree \/ FreeEnd(f) <= rec[l].end_page
      /\ \A m \in tree \ {l}, q \in Page :
           freer[f].start <= q /\ q < rec[l].end_page => ~In(q, m)
  BY LoopRecord
<1>2. \A m \in tree \ {l} : \A q : In(q, m)' <=> In(q, m)
  BY DEF In
<1>3. ShapeInv'
  <2>1. rec[l].start_page <= rec'[l].start_page /\ rec'[l].end_page <= rec[l].end_page
    <3>1. PICK a \in Nat, b \in Nat :
            a = rec'[l].start_page /\ b = rec'[l].end_page - 1
      <4>1. rec'[l].end_page - 1 \in Nat
        OBVIOUS
      <4> QED  BY <4>1
    <3>2. In(a, l)' /\ In(b, l)'
      BY <3>1 DEF In
    <3>3. In(a, l) /\ In(b, l)
      BY <3>2
    <3> QED  BY <1>1, <3>1, <3>3 DEF In
  <2>2. \A m \in tree, q \in Page : In(q, m)' => In(q, m)
    BY <1>2 DEF Page
  <2>3. ASSUME NEW m \in tree
        PROVE  /\ 1 <= rec'[m].start_page
               /\ rec'[m].start_page < rec'[m].end_page
               /\ rec'[m].end_page <= NrPages + 1
    <3>1. CASE m = l
      BY <1>1, <2>1, <3>1, PageAssumption
    <3>2. CASE m # l
      BY <3>2 DEF PagesInv, ShapeInv
    <3> QED  BY <3>1, <3>2
  <2> QED  BY <2>2, <2>3 DEF PagesInv, ShapeInv
<1>4. \A m \in tree : PartOf(m, m)
  <2>1. \A r \in Page : In(r, l) /\ owner[r] # None => In(r, l)'
    BY LoopFacts DEF Page
  <2>2. PartOf(l, l)
    BY <2>1 DEF PartOf, Page
  <2>3. \A m \in tree \ {l} : PartOf(m, m)
    BY <1>2 DEF PartOf
  <2> QED  BY <2>2, <2>3
<1>5. \A m \in tree, q \in Page : In(q, m) /\ owner[q] # None =>
        In(q, m)' /\ rec'[m].entries = rec[m].entries
  BY <1>2, LoopFacts DEF Page
<1>6. ASSUME Watching, NEW m \in tree, NEW q \in Page, In(q, m)', ToFree(q, f)
      PROVE  StillToFree(q, f)
  <2>1. m # l /\ In(q, m)
    BY <1>2, <1>6 DEF Page
  <2>2. FreeEnd(f) \in Nat /\ freer[f].start <= q /\ q < FreeEnd(f) /\ q \in Nat
    BY <1>6, LoopFacts DEF ToFree, Page
  <2>3. rec[l].end_page <= q
    BY <1>1, <2>1, <2>2
  <2> QED  BY <1>1, <1>6, <2>2, <2>3 DEF StillToFree
<1> QED  BY <1>3, <1>4, <1>5, <1>6, LoopFacts, PagesShrink

LEMMA PagesUntracked ==
  ASSUME TypeInv, ControlInv, BlockInv, PagesInv, NEW f \in Freer,
         FreeUntracked(f)
  PROVE  PagesInv'
<1>1. /\ freer[f].pc = "loop" /\ UNCHANGED <<rec, tree>>
      /\ find_lp(freer[f].start) = {} /\ CheckBreak(f, freer[f].start + 1)
  BY DEF FreeUntracked
<1>2. FreeStep(f)
  BY DEF FreeStep
<1>3. ShapeInv'
  BY <1>1 DEF PagesInv, ShapeInv, In
<1>4. /\ \A m \in tree : PartOf(m, m)
      /\ \A q : \A m \in tree : In(q, m)' <=> In(q, m)
  BY <1>1 DEF PartOf, In
<1>5. ASSUME Watching, NEW m \in tree, NEW q \in Page, In(q, m), ToFree(q, f)
      PROVE  StillToFree(q, f)
  <2>1. freer[f].start \in Page /\ ToFree(freer[f].start, f) /\ ~In(freer[f].start, m)
    BY <1>1, LoopFacts, FindIn DEF ToFree, Page
  <2>2. SpanFree
    BY <1>1, <1>5, <2>1 DEF PagesInv, LoopInv
  <2>3. /\ q \in Nat /\ freer[f].start \in Nat /\ FreeEnd(f) \in Nat
        /\ freer[f].start <= q /\ q # freer[f].start /\ q < FreeEnd(f)
    BY <1>1, <1>5, <2>1, LoopFacts DEF ToFree, Page
  <2>4. freer'[f].pc = "loop" /\ freer'[f].start = freer[f].start + 1
    BY <1>1, <2>3, CheckBreakMoves
  <2> QED  BY <2>2, <2>3, <2>4 DEF StillToFree
<1>6. freer'[f].pc = "loop" =>
        freer[f].start <= freer'[f].start /\ freer'[f].start < FreeEnd(f)
  BY <1>1, LoopFacts, CheckBreakMoves
<1> QED  BY <1>1, <1>2, <1>3, <1>4, <1>5, <1>6, LoopFacts, PagesShrink

LEMMA PagesHead ==
  ASSUME TypeInv, ControlInv, BlockInv, PagesInv, NEW f \in Freer, FreeHead(f)
  PROVE  PagesInv'
<1>1. PICK l \in find_lp(freer[f].start) :
        /\ freer[f].pc = "loop" /\ tree' = tree
        /\ freer[f].start = rec[l].start_page /\ FreeEnd(f) < rec[l].end_page
        /\ rec' = [rec EXCEPT ![l] = [@ EXCEPT !.start_page = FreeEnd(f)]]
        /\ CheckBreak(f, FreeEnd(f))
  BY DEF FreeHead
<1>2. l \in Lp /\ rec \in [Lp -> Record] /\ tree \subseteq Lp
  BY <1>1, LoopRecord DEF TypeInv, TypeOK
<1>3. /\ \A m \in tree \ {l} : rec'[m] = rec[m]
      /\ rec'[l].entries = rec[l].entries
      /\ rec'[l].start_page = FreeEnd(f) /\ rec'[l].end_page = rec[l].end_page
  BY <1>1, <1>2 DEF Record
<1>4. \A q \in Nat : In(q, l)' <=> In(q, l) /\ ~ToFree(q, f)
  BY <1>1, <1>3, LoopFacts, LoopRecord DEF In, ToFree
<1>5. freer'[f].pc # "loop"
  BY <1>1, CheckBreakMoves
<1>6. FreeStep(f)
  BY DEF FreeStep
<1> QED  BY <1>1, <1>3, <1>4, <1>5, <1>6, LoopFacts, LoopRecord, PagesResize

LEMMA PagesTail ==
  ASSUME TypeInv, ControlInv, BlockInv, PagesInv, NEW f \in Freer,
         FreeTail(f) \/ FreeTailAndMore(f)
  PROVE  PagesInv'
<1>1. PICK l \in find_lp(freer[f].start) :
        /\ freer[f].pc = "loop" /\ tree' = tree
        /\ freer[f].start > rec[l].start_page /\ FreeEnd(f) >= rec[l].end_page
        /\ rec' = [rec EXCEPT ![l] = [@ EXCEPT !.end_page = freer[f].start]]
        /\ CheckBreak(f, rec[l].end_page)
  <2>1. CASE FreeTail(f)
    <3>1. PICK l \in find_lp(freer[f].start) :
            /\ freer[f].pc = "loop" /\ tree' = tree
            /\ freer[f].start > rec[l].start_page /\ FreeEnd(f) = rec[l].end_page
            /\ rec' = [rec EXCEPT ![l] = [@ EXCEPT !.end_page = freer[f].start]]
            /\ CheckBreak(f, FreeEnd(f))
      BY <2>1 DEF FreeTail
    <3>2. FreeEnd(f) >= rec[l].end_page
      BY <3>1, LoopFacts, LoopRecord
    <3> QED  BY <3>1, <3>2
  <2>2. CASE FreeTailAndMore(f)
    <3>1. PICK l \in find_lp(freer[f].start) :
            /\ freer[f].pc = "loop" /\ tree' = tree
            /\ freer[f].start > rec[l].start_page /\ FreeEnd(f) > rec[l].end_page
            /\ rec' = [rec EXCEPT ![l] = [@ EXCEPT !.end_page = freer[f].start]]
            /\ CheckBreak(f, rec[l].end_page)
      BY <2>2 DEF FreeTailAndMore
    <3>2. FreeEnd(f) >= rec[l].end_page
      BY <3>1, LoopFacts, LoopRecord
    <3> QED  BY <3>1, <3>2
  <2> QED  BY <2>1, <2>2
<1>2. l \in Lp /\ rec \in [Lp -> Record] /\ tree \subseteq Lp
  BY <1>1, LoopRecord DEF TypeInv, TypeOK
<1>3. /\ \A m \in tree \ {l} : rec'[m] = rec[m]
      /\ rec'[l].entries = rec[l].entries
      /\ rec'[l].start_page = rec[l].start_page /\ rec'[l].end_page = freer[f].start
  BY <1>1, <1>2 DEF Record
<1>4. \A q \in Nat : In(q, l)' <=> In(q, l) /\ ~ToFree(q, f)
  BY <1>1, <1>3, LoopFacts, LoopRecord DEF In, ToFree
<1>5. freer'[f].pc = "loop" =>
        freer[f].start <= freer'[f].start /\ freer'[f].start < FreeEnd(f)
  BY <1>1, LoopFacts, LoopRecord, CheckBreakMoves
<1>6. FreeStep(f)
  BY DEF FreeStep
<1>7. FreeEnd(f) > rec[l].end_page =>
        freer'[f].pc = "loop" /\ freer'[f].start = rec[l].end_page
  BY <1>1, LoopFacts, LoopRecord, CheckBreakMoves
<1> QED  BY <1>1, <1>3, <1>4, <1>5, <1>6, <1>7, LoopFacts, LoopRecord, PagesResize

\* A record whose pages are all to be freed is taken out of the tree.
LEMMA PagesWhole ==
  ASSUME TypeInv, ControlInv, BlockInv, PagesInv, NEW f \in Freer,
         FreeWhole(f) \/ FreeWholeAndMore(f)
  PROVE  PagesInv'
<1>1. PICK l \in find_lp(freer[f].start) :
        /\ freer[f].pc = "loop" /\ tree' = tree \ {l}
        /\ freer[f].start = rec[l].start_page /\ FreeEnd(f) >= rec[l].end_page
        /\ \A m \in Lp \ {l} : rec'[m] = rec[m]
        /\ freer'[f].pc # "loop"
        /\ FreeEnd(f) > rec[l].end_page =>
             freer'[f].pc = "reload" /\ freer'[f].start = freer[f].start
  <2>1. CASE FreeWhole(f)
    <3>1. CheckBreak(f, FreeEnd(f))
      BY <2>1 DEF FreeWhole
    <3>2. PICK l \in find_lp(freer[f].start) :
            /\ freer[f].pc = "loop" /\ tree' = tree \ {l}
            /\ freer[f].start = rec[l].start_page /\ FreeEnd(f) = rec[l].end_page
            /\ rec' = [rec EXCEPT ![l] = Blank]
      BY <2>1 DEF FreeWhole
    <3>3. /\ \A m \in Lp \ {l} : rec'[m] = rec[m]
          /\ FreeEnd(f) >= rec[l].end_page /\ ~(FreeEnd(f) > rec[l].end_page)
      BY <3>2, LoopFacts DEF TypeInv, TypeOK
    <3> QED  BY <3>1, <3>2, <3>3, CheckBreakMoves
  <2>2. CASE FreeWholeAndMore(f)
    <3>1. freer'[f].pc = "reload" /\ freer'[f].start = freer[f].start
      <4>1. \E l : freer' = [freer EXCEPT ![f] =
                               [freer[f] EXCEPT !.pc = "reload", !.lp = l]]
        BY <2>2 DEF FreeWholeAndMore
      <4> QED  BY <4>1 DEF TypeInv, TypeOK, Free
    <3>2. PICK l \in find_lp(freer[f].start) :
            /\ freer[f].pc = "loop" /\ tree' = tree \ {l} /\ rec' = rec
            /\ freer[f].start = rec[l].start_page /\ FreeEnd(f) > rec[l].end_page
      BY <2>2 DEF FreeWholeAndMore
    <3>3. /\ FreeEnd(f) >= rec[l].end_page
          /\ freer'[f].pc # "loop"
          /\ \A m \in Lp \ {l} : rec'[m] = rec[m]
      BY <3>1, <3>2, LoopFacts, LoopRecord
    <3> QED  BY <3>1, <3>2, <3>3
  <2> QED  BY <2>1, <2>2
<1>2. \A m \in tree' : m \in tree \ {l} /\ rec'[m] = rec[m]
  BY <1>1 DEF TypeInv, TypeOK
<1>3. \A m \in tree' : PartOf(m, m) /\ \A q : In(q, m)' <=> In(q, m)
  BY <1>2 DEF PartOf, In
<1>4. ShapeInv'
  BY <1>2, <1>3 DEF PagesInv, ShapeInv
<1>5. \A q \in Page : In(q, l) => ToFree(q, f)
  BY <1>1, LoopFacts, LoopRecord DEF In, ToFree, Page
<1>6. \A k \in tree, q \in Page : In(q, k) /\ owner[q] # None =>
        k \in tree' /\ In(q, k)' /\ rec'[k].entries = rec[k].entries
  <2>1. \A k \in tree, q \in Page : In(q, k) /\ owner[q] # None => k # l
    BY <1>1, <1>5, LoopFacts
  <2> QED  BY <1>1, <1>2, <1>3, <2>1
<1>7. ASSUME Watching, NEW m \in tree', NEW q \in Page, In(q, m)', ToFree(q, f)
      PROVE  StillToFree(q, f)
  <2>1. m \in tree \ {l} /\ In(q, m)
    BY <1>2, <1>3, <1>7
  <2>2. /\ FreeEnd(f) \in Nat /\ freer[f].start <= q /\ q < FreeEnd(f) /\ q \in Nat
        /\ rec[l].end_page \in Nat /\ ~(freer[f].start <= q /\ q < rec[l].end_page)
    BY <1>1, <1>7, <2>1, LoopFacts, LoopRecord DEF ToFree, Page
  <2>3. FreeEnd(f) > rec[l].end_page /\ ~(FreeEnd(f) <= rec[l].end_page)
    BY <2>2
  <2>4. SpanFree
    BY <1>1, <1>7, <2>3, LoopRecord
  <2> QED  BY <1>1, <2>2, <2>3, <2>4 DEF StillToFree
<1>8. FreeStep(f)
  BY DEF FreeStep
<1> QED  BY <1>1, <1>2, <1>3, <1>4, <1>6, <1>7, <1>8, PagesShrink

\* The cursor moves on past a record that was erased.
LEMMA PagesReload ==
  ASSUME TypeInv, ControlInv, BlockInv, RecInv, PagesInv, NEW f \in Freer,
         FreeReload(f)
  PROVE  PagesInv'
<1>0. freer[f].pc = "reload" /\ ReloadOK(f)
  BY DEF FreeReload, RecInv, ReloadInv
<1>1. /\ UNCHANGED <<rec, tree>>
      /\ CheckBreak(f, rec[freer[f].lp].end_page)
      /\ freer[f].page <= freer[f].start
      /\ freer[f].start < rec[freer[f].lp].end_page
      /\ rec[freer[f].lp].end_page < FreeEnd(f)
      /\ \A l \in tree, q \in Page :
           ~(In(q, l) /\ freer[f].start <= q /\ q < rec[freer[f].lp].end_page)
  BY <1>0 DEF FreeReload, ReloadOK
<1>2. freer[f].start \in Nat /\ rec[freer[f].lp].end_page \in Nat /\ FreeEnd(f) \in Nat
  BY RecTypes DEF FreeReload, TypeInv, TypeOK, FreeOK, Record
<1>3. ShapeInv' /\ \A m \in tree : PartOf(m, m) /\ \A q : In(q, m)' <=> In(q, m)
  BY <1>1 DEF PagesInv, ShapeInv, PartOf, In
<1>4. freer'[f].pc = "loop" =>
        freer[f].start <= freer'[f].start /\ freer'[f].start < FreeEnd(f)
  BY <1>1, <1>2, CheckBreakMoves
<1>5. FreeStep(f)
  BY DEF FreeStep
<1>6. ASSUME Watching, NEW m \in tree, NEW q \in Page, In(q, m), ToFree(q, f)
      PROVE  StillToFree(q, f)
  <2>1. freer'[f].pc = "loop" /\ freer'[f].start = rec[freer[f].lp].end_page
    BY <1>1, <1>2, CheckBreakMoves
  <2>2. q \in Nat /\ freer[f].start <= q
    BY <1>6 DEF ToFree, Page
  <2>3. rec[freer[f].lp].end_page <= q
    BY <1>1, <1>2, <1>6, <2>2
  <2>4. SpanFree
    BY <1>0, <1>6 DEF ReloadOK
  <2> QED  BY <2>1, <2>3, <2>4 DEF StillToFree
<1> QED  BY <1>1, <1>3, <1>4, <1>5, <1>6, PagesShrink

\* A record is split: its two parts are on either side of the block.
LEMMA PagesMiddle ==
  ASSUME TypeInv, ControlInv, BlockInv, PagesInv, NEW f \in Freer, FreeMiddle(f)
  PROVE  PagesInv'
<1> DEFINE s == freer[f].start
           e == FreeEnd(f)
<1>1. PICK l \in find_lp(freer[f].start), n \in lpFree :
        /\ freer[f].pc = "loop" /\ tree' = tree \cup {n}
        /\ s > rec[l].start_page /\ e < rec[l].end_page
        /\ rec' = [rec EXCEPT ![n] = [rec[l] EXCEPT !.start_page = e],
                              ![l] = [rec[l] EXCEPT !.end_page = s]]
        /\ CheckBreak(f, s)
  BY DEF FreeMiddle
<1>2. /\ l \in tree /\ l \in Lp /\ rec[l] \in Record /\ n \in Lp /\ n \notin tree
      /\ rec[l].start_page \in Nat /\ rec[l].end_page \in Nat
      /\ 1 <= rec[l].start_page /\ rec[l].end_page <= NrPages + 1
      /\ \A m \in tree \ {l}, q \in Page :
           freer[f].start <= q /\ q < rec[l].end_page => ~In(q, m)
      /\ tree \subseteq Lp /\ rec \in [Lp -> Record]
  BY <1>1, LoopRecord DEF ControlInv, RecordsAccounted, TypeInv, TypeOK
<1>3. /\ \A m \in tree \ {l} : rec'[m] = rec[m]
      /\ rec'[l] = [rec[l] EXCEPT !.end_page = s]
      /\ rec'[n] = [rec[l] EXCEPT !.start_page = e]
  BY <1>1, <1>2
<1>4. /\ rec'[l].start_page = rec[l].start_page /\ rec'[l].end_page = s
      /\ rec'[n].start_page = e /\ rec'[n].end_page = rec[l].end_page
      /\ rec'[l].entries = rec[l].entries /\ rec'[n].entries = rec[l].entries
  BY <1>2, <1>3 DEF Record
<1>5. /\ s \in Nat /\ e \in Nat /\ s < e /\ s \in Page
      /\ \A q \in Page : ToFree(q, f) => owner[q] = None
  BY <1>1, LoopFacts
<1>6. /\ \A q \in Nat : In(q, l)' <=> In(q, l) /\ q < s
      /\ \A q \in Nat : In(q, n)' <=> In(q, l) /\ e <= q
      /\ \A m \in tree \ {l} : \A q : In(q, m)' <=> In(q, m)
      /\ \A q \in Nat : ToFree(q, f) <=> s <= q /\ q < e
  BY <1>1, <1>2, <1>3, <1>4, <1>5 DEF In, ToFree
<1> HIDE DEF s, e
<1>7. ShapeInv'
  <2> SUFFICES ASSUME NEW m \in tree \cup {n}
               PROVE  /\ 1 <= rec'[m].start_page
                      /\ rec'[m].start_page < rec'[m].end_page
                      /\ rec'[m].end_page <= NrPages + 1
                      /\ \A k \in (tree \cup {n}) \ {m} :
                           \A q \in Page : ~(In(q, m)' /\ In(q, k)')
    BY <1>1 DEF ShapeInv
  <2>1. /\ 1 <= rec'[m].start_page
        /\ rec'[m].start_page < rec'[m].end_page
        /\ rec'[m].end_page <= NrPages + 1
    <3>1. CASE m \in {l, n}
      BY <1>1, <1>2, <1>4, <1>5, <3>1, PageAssumption DEF Page
    <3>2. CASE m \notin {l, n}
      BY <1>3, <3>2 DEF PagesInv, ShapeInv
    <3> QED  BY <3>1, <3>2
  <2>2. \A q \in Page : ~(In(q, l)' /\ In(q, n)')
    BY <1>5, <1>6 DEF Page
  <2>3. \A k \in tree \ {l}, q \in Page :
          /\ ~(In(q, l)' /\ In(q, k)') /\ ~(In(q, n)' /\ In(q, k)')
    BY <1>2, <1>6 DEF Page, PagesInv, ShapeInv
  <2>4. \A j, k \in tree \ {l} : j # k => \A q \in Page : ~(In(q, j)' /\ In(q, k)')
    BY <1>6 DEF PagesInv, ShapeInv
  <2> QED  BY <2>1, <2>2, <2>3, <2>4
<1>8. \A m \in tree' : \E k \in tree : PartOf(m, k)
  <2>1. PartOf(l, l)
    <3>1. \A q \in Page : In(q, l)' => In(q, l)
      BY <1>6 DEF Page
    <3>2. ASSUME NEW q \in Page, NEW r \in {q - 1, q + 1}, In(q, l)', r \in Page,
                 In(r, l), owner[r] # None
          PROVE  In(r, l)'
      BY <1>5, <1>6, <3>2 DEF Page
    <3> QED  BY <1>4, <3>1, <3>2 DEF PartOf
  <2>2. PartOf(n, l)
    <3>1. \A q \in Page : In(q, n)' => In(q, l)
      BY <1>6 DEF Page
    <3>2. ASSUME NEW q \in Page, NEW r \in {q - 1, q + 1}, In(q, n)', r \in Page,
                 In(r, l), owner[r] # None
          PROVE  In(r, n)'
      BY <1>5, <1>6, <3>2 DEF Page
    <3> QED  BY <1>4, <3>1, <3>2 DEF PartOf
  <2>3. \A m \in tree \ {l} : PartOf(m, m)
    BY <1>3, <1>6 DEF PartOf
  <2> QED  BY <1>1, <1>2, <2>1, <2>2, <2>3
<1>9. ASSUME NEW k \in tree, NEW q \in Page, In(q, k), owner[q] # None
      PROVE  \E m \in tree' : In(q, m)' /\ rec'[m].entries = rec[k].entries
  <2>1. CASE k = l
    <3>1. In(q, l)' \/ In(q, n)'
      BY <1>5, <1>6, <1>9, <2>1 DEF Page
    <3> QED  BY <1>1, <1>2, <1>4, <2>1, <3>1
  <2>2. CASE k # l
    BY <1>1, <1>3, <1>6, <1>9, <2>2
  <2> QED  BY <2>1, <2>2
<1>10. ASSUME Watching, NEW m \in tree', NEW q \in Page, In(q, m)'
       PROVE  ~ToFree(q, f)
  <2>1. CASE m \in {l, n}
    BY <1>5, <1>6, <1>10, <2>1 DEF Page
  <2>2. CASE m \notin {l, n}
    <3>1. m \in tree \ {l} /\ In(q, m)
      BY <1>1, <1>6, <1>10, <2>2
    <3>2. ~(s <= q /\ q < rec[l].end_page)
      BY <1>2, <3>1 DEF s
    <3> QED  BY <1>1, <1>2, <1>5, <1>6, <3>2 DEF Page
  <2> QED  BY <2>1, <2>2
<1>11. freer'[f].pc = "loop" =>
         freer[f].start <= freer'[f].start /\ freer'[f].start < FreeEnd(f)
  BY <1>1, <1>5, CheckBreakMoves DEF s, e
<1>12. FreeStep(f)
  BY DEF FreeStep
<1> QED  BY <1>1, <1>7, <1>8, <1>9, <1>10, <1>11, <1>12, LoopFacts, PagesShrink

LEMMA PagesFree ==
  ASSUME TypeInv, ControlInv, BlockInv, RecInv, PagesInv, NEW f \in Freer,
         FreeStep(f)
  PROVE  PagesInv'
BY PagesUntracked, PagesHead, PagesWhole, PagesReload, PagesMiddle, PagesTail
   DEF FreeStep

LEMMA PagesModule ==
  ASSUME TypeInv, ControlInv, BlockInv, PagesInv, ModuleStep
  PROVE  PagesInv'
<1>0. UNCHANGED <<lpLock, freer, busy>>
  BY ModuleFrame
<1>1. CASE \/ InitLpPool \/ InitStPool \/ InitStPoolFails \/ RegisterFails
           \/ Unload \/ UnregisterAlloc \/ UnregisterFree
  <2>1. TreeSame /\ UNCHANGED <<owner, inst>> /\ probes' \subseteq probes
    BY <1>1 DEF InitLpPool, InitStPool, InitStPoolFails, RegisterFails, Unload,
       UnregisterAlloc, UnregisterFree, TreeSame, kernelVars
  <2>2. \A i \in Inst : Pending(i)' =>
          Pending(i) /\ \A q \in Page : InGrant(q, i)' <=> InGrant(q, i)
    BY <2>1 DEF Pending, InGrant
  <2> QED  BY <1>0, <2>1, <2>2, TreeFrame DEF Watching, PagesInv, GrantFreshInv
<1>2. CASE Register
  <2>1. tree = {} /\ UNCHANGED <<tree, owner>>
    BY <1>2 DEF Register, ControlInv, PhaseInv, kernelVars
  <2>2. ShapeInv' /\ TrackedInv' /\ RecordInv' /\ GhostInv' /\ GrantFreshInv'
    BY <2>1 DEF PagesInv, ShapeInv, TrackedInv, RecordInv, GhostInv, GrantFreshInv
  <2>3. LoopInv'
    BY <1>0, <2>1 DEF PagesInv, LoopInv, FreeEnd
  <2> QED  BY <2>2, <2>3 DEF PagesInv
<1>3. CASE CleanupInstances
  <2> DEFINE Lost(i, q) == /\ inst[i].pc = "returned" /\ inst[i].page # Null
                           /\ q \in Span(inst[i].page, inst[i].order)
  <2>1. UNCHANGED <<probes, rec, tree>> /\ \A i \in Inst : ~Pending(i)'
    BY <1>3 DEF CleanupInstances, Pending, Granted, modVars, TypeInv, TypeOK, Instance
  <2>2. \A i \in Inst, q \in Page : Lost(i, q) => Pending(i) /\ InGrant(q, i)
    <3> SUFFICES ASSUME NEW i \in Inst, NEW q \in Page, Lost(i, q)
                 PROVE  Pending(i) /\ InGrant(q, i)
      OBVIOUS
    <3>1. inst[i].page \in Nat /\ inst[i].order \in Orders \cup {0}
      BY DEF TypeInv, TypeOK, Instance, Page, Null
    <3> QED  BY <3>1, SpanBlk DEF Pending, Granted, InGrant
  <2>3. ASSUME NEW q \in Page
        PROVE  \/ owner'[q] = owner[q]
               \/ /\ owner[q] = None /\ owner'[q].by = None /\ owner'[q] # None
                  /\ Watching => \A l \in tree : ~In(q, l)
    <3>1. owner'[q] = IF \E i \in Inst : Lost(i, q)
                      THEN LET i == CHOOSE j \in Inst : Lost(j, q)
                           IN [page |-> inst[i].page, order |-> inst[i].order,
                               by |-> None]
                      ELSE owner[q]
      BY <1>3 DEF CleanupInstances
    <3>2. ASSUME NEW i \in Inst, Lost(i, q)
          PROVE  /\ owner[q] = None
                 /\ Watching => \A l \in tree : ~In(q, l)
                 /\ [page |-> inst[i].page, order |-> inst[i].order,
                     by |-> None] # None
      <4>1. Pending(i) /\ InGrant(q, i)
        BY <2>2, <3>2
      <4>2. inst[i].page \in Page /\ inst[i].order \in Orders
        BY <4>1 DEF Pending, Granted, TypeInv, TypeOK, InstOK, Instance, Running
      <4> QED  BY <4>1, <4>2, NoneAssumption
               DEF BlockInv, GrantInv, PagesInv, GrantFreshInv
    <3> HIDE DEF Lost
    <3>3. CASE \E i \in Inst : Lost(i, q)
      <4>1. PICK i \in Inst : Lost(i, q) /\
              owner'[q] = [page |-> inst[i].page, order |-> inst[i].order,
                           by |-> None]
        BY <3>1, <3>3
      <4> QED  BY <3>2, <4>1
    <3> QED  BY <3>1, <3>3
  <2>4. ShapeInv' /\ GrantFreshInv'
    BY <2>1 DEF PagesInv, ShapeInv, GrantFreshInv, In
  <2>5. TrackedInv'
    BY <2>1, <2>3 DEF PagesInv, TrackedInv, In
  <2>6. RecordInv'
    <3> SUFFICES ASSUME Watching, NEW l \in tree, NEW q \in Page, In(q, l), owner'[q] # None
                 PROVE  /\ owner'[q].by # None
                        /\ \A r \in Page : In(r, l) /\ owner'[r] # None =>
                             owner'[r] = owner'[q]
                        /\ \A r \in {q - 1, q + 1} :
                             r \in Page /\ owner'[r] = owner'[q] => In(r, l)
      BY <2>1 DEF RecordInv, Watching, In
    <3>1. owner'[q] = owner[q] /\ owner[q].by # None
      BY <2>3 DEF PagesInv, RecordInv
    <3>2. \A r \in Page : owner'[r] = owner'[q] => owner[r] = owner[q]
      BY <2>3, <3>1
    <3>3. \A r \in Page : In(r, l) => owner'[r] = owner[r]
      BY <2>3
    <3> QED  BY <3>1, <3>2, <3>3 DEF PagesInv, RecordInv
  <2>7. GhostInv'
    <3> SUFFICES ASSUME Watching, NEW l \in tree, NEW q \in Page, In(q, l), owner'[q] = None
                 PROVE  \E f \in Freer : freer[f].pc \in {"loop", "reload"} /\ ToFree(q, f)
      BY <1>0, <2>1 DEF GhostInv, Watching, In, ToFree, FreeEnd
    <3>1. owner[q] = None
      BY <2>3
    <3> QED  BY <3>1 DEF PagesInv, GhostInv
  <2>8. LoopInv'
    BY <1>0, <2>1 DEF PagesInv, LoopInv, Watching, In, ToFree, FreeEnd
  <2> QED  BY <2>4, <2>5, <2>6, <2>7, <2>8 DEF PagesInv
<1>4. CASE ExitPools
  <2>1. /\ tree' = {} /\ \A f \in Freer : freer[f].pc \notin {"loop", "reload"}
        /\ \A q \in Page : owner'[q] = IF owner[q] = None THEN None
                                       ELSE [owner[q] EXCEPT !.by = None]
    BY <1>4 DEF ExitPools, InFree
  <2>2. \A q \in Page : owner'[q] = None \/ owner'[q].by = None
    BY <2>1 DEF TypeInv, TypeOK, Allocation
  <2>3. TrackedInv'
    BY <2>2 DEF TrackedInv
  <2>4. ShapeInv' /\ RecordInv' /\ GhostInv' /\ GrantFreshInv' /\ LoopInv'
    BY <1>0, <2>1 DEF ShapeInv, RecordInv, GhostInv, GrantFreshInv, LoopInv
  <2> QED  BY <2>3, <2>4 DEF PagesInv
<1> QED  BY <1>1, <1>2, <1>3, <1>4 DEF ModuleStep

-----------------------------------------------------------------------------
(* The read of a record that is back in the pool.                            *)

\* While a loop is about to read a record that is back in the pool, it has the
\* lock, and no call is traced or it has the only processor.
LEMMA ReloadAlone ==
  ASSUME TypeInv, ControlInv, RecInv, NEW f \in Freer, freer[f].pc = "reload"
  PROVE  /\ freer[f].lp \in Lp /\ lpLock # None /\ InFree # {}
         /\ \A g \in Freer \ {f} : freer[g].pc \notin {"loop", "reload"}
         /\ \/ /\ phase = "unloading" /\ "alloc_pages_nodemask" \notin probes
               /\ \A i \in Inst : inst[i].pc \notin Running
            \/ SpanFree /\ NrCpus = 1 /\ ~CpuFree
<1>1. freer[f].lp \in Lp
  BY DEF TypeInv, FreeOK
<1>2. lpLock # None /\ \A g \in Freer \ {f} : freer[g].pc \notin {"loop", "reload"}
  BY NoneAssumption DEF ControlInv, LockInv
<1>3. InFree = {f}
  BY <1>2 DEF InFree
<1>4. CASE phase = "unloading" /\ ~Watching
  BY <1>1, <1>2, <1>3, <1>4 DEF ControlInv, PhaseInv, AllocActive
<1>5. CASE SpanFree /\ NrCpus = 1
  <2>1. Cardinality(InFree) = 1
    BY <1>3, FS_Singleton
  <2>2. Cardinality(InHandler) \in Nat
    <3>1. IsFiniteSet(InHandler)
      BY PoolAssumption, FS_Subset DEF InHandler
    <3> QED  BY <3>1, FS_CardinalityType
  <2>3. ~CpuFree
    BY <1>5, <2>1, <2>2 DEF CpuFree
  <2> QED  BY <1>1, <1>2, <1>3, <1>5, <2>3
<1> QED  BY <1>4, <1>5 DEF RecInv, ReloadInv, ReloadOK

\* A step that is not this loop's leaves what it will read.
LEMMA ReloadKept ==
  ASSUME TypeInv, ControlInv, RecInv, NEW f \in Freer, freer[f].pc = "reload",
         freer'[f] = freer[f], tree' = tree,
         \A l \in Lp : /\ rec'[l].start_page = rec[l].start_page
                       /\ rec'[l].end_page = rec[l].end_page,
         \/ SpanFree /\ NrCpus = 1
         \/ phase' = phase /\ probes' \subseteq probes
  PROVE  ReloadOK(f)'
<1>1. ReloadOK(f) /\ freer[f].lp \in Lp /\ tree \subseteq Lp
  BY ReloadAlone DEF RecInv, ReloadInv, TypeInv, TypeOK
<1>2. FreeEnd(f)' = FreeEnd(f)
  BY DEF FreeEnd
<1>3. \A l \in tree : \A q \in Page : In(q, l)' <=> In(q, l)
  BY <1>1 DEF In
<1> QED  BY <1>1, <1>2, <1>3 DEF ReloadOK, Watching

LEMMA ReloadAlloc ==
  ASSUME TypeInv, ControlInv, RecInv, NEW i \in Inst, AllocHandlerStep(i)
  PROVE  ReloadInv'
<1>1. UNCHANGED <<phase, probes, freer>> /\ inst[i].pc \in Running
  BY AllocFrame, AllocMoves
<1> SUFFICES ASSUME NEW f \in Freer, freer[f].pc = "reload" PROVE ReloadOK(f)'
  BY <1>1 DEF ReloadInv
<1>2. ~CpuFree /\ lpLock # None
  BY <1>1, ReloadAlone
<1>3. CASE EntryAllocSt(i)
  BY <1>1, <1>3, ReloadKept DEF EntryAllocSt
<1>4. CASE EntryTrace(i)
  <2>1. \A l \in Lp : /\ rec'[l].start_page = rec[l].start_page
                      /\ rec'[l].end_page = rec[l].end_page
    BY <1>4 DEF EntryTrace, TypeInv, TypeOK, Record
  <2> QED  BY <1>1, <1>4, <2>1, ReloadKept DEF EntryTrace
<1> QED  BY <1>2, <1>3, <1>4 DEF AllocHandlerStep, RetFreeLp, RetSetExtent, RetInsert

LEMMA ReloadKernel ==
  ASSUME TypeInv, ControlInv, RecInv, KernelStep
  PROVE  ReloadInv'
<1>1. UNCHANGED <<phase, probes, tree>>
  BY KernelFrame
<1>2. ASSUME UNCHANGED rec, NEW f \in Freer, freer[f].pc = "reload", freer'[f] = freer[f]
      PROVE  ReloadOK(f)'
  BY <1>1, <1>2, ReloadKept
<1>3. CASE \E i \in Inst, k \in Orders, c \in Caller : EntryAllocLp(i, k, c)
  <2>1. UNCHANGED freer /\ "alloc_pages_nodemask" \in probes /\ CpuFree
    BY <1>3 DEF EntryAllocLp
  <2>2. \A f \in Freer : freer[f].pc # "reload"
    BY <2>1, ReloadAlone
  <2> QED  BY <2>1, <2>2 DEF ReloadInv
<1>4. CASE \/ \E i \in Inst, p \in Page : KernelAlloc(i, p)
           \/ \E i \in Inst : KernelAllocFails(i)
           \/ \E p \in Page, k \in Orders : AllocUntraced(p, k)
  BY <1>2, <1>4 DEF KernelAlloc, KernelAllocFails, AllocUntraced, ReloadInv
<1>5. ASSUME NEW f \in Freer,
             \/ KernelFree(f)
             \/ \E p \in Page, k \in Orders, fn \in FreeProbe :
                  FreeEnter(f, p, k, fn) \/ FreeUnprobed(f, p, k, fn)
      PROVE  ReloadInv'
  <2>1. UNCHANGED rec /\ freer'[f].pc # "reload"
        /\ \A g \in Freer \ {f} : freer'[g] = freer[g]
    <3>1. CASE KernelFree(f)
      BY <3>1 DEF KernelFree, Done, TypeInv, TypeOK
    <3>2. ASSUME NEW p \in Page, NEW k \in Orders, NEW fn \in FreeProbe,
                 FreeEnter(f, p, k, fn) \/ FreeUnprobed(f, p, k, fn)
          PROVE  UNCHANGED rec /\ freer'[f].pc # "reload"
                 /\ \A g \in Freer \ {f} : freer'[g] = freer[g]
      BY <3>2 DEF FreeEnter, FreeUnprobed, TypeInv, TypeOK
    <3> QED  BY <1>5, <3>1, <3>2
  <2> QED  BY <1>2, <2>1 DEF ReloadInv
<1> QED  BY <1>3, <1>4, <1>5 DEF KernelStep

\* The loop takes a record out of the tree of which it has more than all to
\* free: frees are missed, or this one is of several allocations.
LEMMA ReloadFree ==
  ASSUME Orderly, TypeInv, ControlInv, BlockInv, PagesInv, NEW f \in Freer, FreeStep(f)
  PROVE  ReloadInv'
<1>1. \A g \in Freer \ {f} : freer'[g].pc # "reload"
  BY LoopAlone
<1>2. CASE freer'[f].pc # "reload"
  BY <1>1, <1>2 DEF ReloadInv
<1>3. CASE freer'[f].pc = "reload"
  <2>1. FreeWholeAndMore(f)
    <3>1. ASSUME NEW t, CheckBreak(f, t) PROVE freer'[f].pc # "reload"
      BY <3>1, BreakEndsIteration
    <3> QED  BY <1>3, <3>1 DEF FreeStep, FreeUntracked, FreeHead,
             FreeWhole, FreeReload, FreeMiddle, FreeTail, FreeTailAndMore
  <2>2. PICK l \in find_lp(freer[f].start) :
          /\ freer[f].pc = "loop" /\ UNCHANGED rec /\ tree' = tree \ {l}
          /\ freer[f].start = rec[l].start_page /\ FreeEnd(f) > rec[l].end_page
          /\ freer' = [freer EXCEPT ![f] = [freer[f] EXCEPT !.pc = "reload", !.lp = l]]
    BY <2>1 DEF FreeWholeAndMore
  <2>3. freer'[f].lp = l /\ freer'[f].start = freer[f].start
        /\ freer'[f].page = freer[f].page /\ FreeEnd(f)' = FreeEnd(f)
    BY <2>2 DEF TypeInv, TypeOK, Free, FreeEnd
  <2>4. UNCHANGED <<phase, probes>>
    BY FreeFrame
  <2>5. /\ freer[f].page <= freer[f].start
        /\ freer[f].start < rec[l].end_page /\ rec[l].end_page < FreeEnd(f)
        /\ ~Watching \/ SpanFree
        /\ \A m \in tree \ {l}, q \in Page :
             freer[f].start <= q /\ q < rec[l].end_page => ~In(q, m)
        /\ l \in tree
    BY <2>2, LoopFacts, LoopRecord
  <2>6. (phase = "unloading" /\ ~Watching) \/ (SpanFree /\ NrCpus = 1)
    BY <2>2, <2>5 DEF Orderly, ControlInv, PhaseInv, TypeInv, TypeOK, Watching, Probe,
       FreeProbe
  <2>7. \A m \in tree \ {l} : \A q : In(q, m)' <=> In(q, m)
    BY <2>2 DEF In
  <2> QED  BY <1>1, <2>2, <2>3, <2>4, <2>5, <2>6, <2>7 DEF ReloadInv, ReloadOK, Watching
<1> QED  BY <1>2, <1>3

LEMMA ReloadModule ==
  ASSUME TypeInv, ControlInv, RecInv, ModuleStep
  PROVE  ReloadInv'
<1>1. UNCHANGED freer
  BY ModuleFrame
<1> SUFFICES ASSUME NEW f \in Freer, freer[f].pc = "reload" PROVE ReloadOK(f)'
  BY <1>1 DEF ReloadInv
<1>2. (SpanFree /\ NrCpus = 1) \/ phase = "unloading"
  BY ReloadAlone
<1>3. UNCHANGED <<rec, tree>>
  <2>1. InFree # {}
    BY ReloadAlone
  <2> QED  BY <2>1 DEF ModuleStep, InitLpPool, InitStPool, InitStPoolFails, Register,
              RegisterFails, Unload, UnregisterAlloc, CleanupInstances, UnregisterFree,
              ExitPools
<1>4. CASE SpanFree /\ NrCpus = 1
  BY <1>1, <1>3, <1>4, ReloadKept
<1>5. CASE phase = "unloading"
  <2>1. InFree # {}
    BY ReloadAlone
  <2>2. phase' = phase /\ probes' \subseteq probes
    BY <1>5, <2>1 DEF ModuleStep, InitLpPool, InitStPool, InitStPoolFails, Register,
       RegisterFails, Unload, UnregisterAlloc, CleanupInstances, UnregisterFree,
       ExitPools, modVars
  <2> QED  BY <1>1, <1>3, <2>2, ReloadKept
<1> QED  BY <1>2, <1>4, <1>5

LEMMA ReloadStep ==
  ASSUME Orderly, TypeInv, ControlInv, BlockInv, RecInv, PagesInv, [Next]_vars
  PROVE  ReloadInv'
<1>1. CASE UNCHANGED vars
  <2>1. \A f \in Freer : freer[f].pc = "reload" => ReloadOK(f)'
    BY <1>1, ReloadKept DEF vars
  <2> QED  BY <1>1, <2>1 DEF ReloadInv, vars
<1> QED  BY <1>1, ReloadAlloc, ReloadKernel, ReloadFree, ReloadModule DEF Next

-----------------------------------------------------------------------------
(* The invariant.                                                            *)

LEMMA RecInit == Init => RecInv
<1> SUFFICES ASSUME Init PROVE RecInv
  OBVIOUS
<1> QED  BY DEF Init, RecInv, ReloadInv, ShapeInv, TrackedInv, RecordInv,
            GhostInv, GrantFreshInv, LoopInv, Done

LEMMA RecStep ==
  ASSUME Orderly, TypeInv, ControlInv, BlockInv, RecInv, [Next]_vars
  PROVE  RecInv'
<1>1. PagesInv
  BY DEF RecInv, PagesInv
<1>2. PagesInv'
  <2>1. CASE UNCHANGED vars
    <3>1. TreeSame /\ UNCHANGED <<owner, freer, probes, inst>>
      BY <2>1 DEF vars, TreeSame
    <3>2. \A i \in Inst : Pending(i)' =>
            Pending(i) /\ \A q \in Page : InGrant(q, i)' <=> InGrant(q, i)
      BY <3>1 DEF Pending, InGrant
    <3> QED  BY <1>1, <3>1, <3>2, TreeFrame DEF Watching, PagesInv, GrantFreshInv
  <2>2. ASSUME NEW i \in Inst, AllocHandlerStep(i) PROVE PagesInv'
    BY <1>1, <2>2, PagesAllocHandler, PagesInsert
  <2>3. CASE KernelStep
    BY <1>1, <2>3, PagesKernelAlloc, PagesAllocUntraced, PagesKernelFree,
       PagesUnprobed, PagesFreeEnter DEF KernelStep
  <2>4. ASSUME NEW f \in Freer, FreeStep(f) PROVE PagesInv'
    BY <1>1, <2>4, PagesFree
  <2>5. CASE ModuleStep
    BY <1>1, <2>5, PagesModule
  <2> QED  BY <2>1, <2>2, <2>3, <2>4, <2>5 DEF Next
<1>3. ReloadInv'
  BY <1>1, ReloadStep
<1> QED  BY <1>2, <1>3 DEF RecInv, PagesInv

LEMMA Invariance ==
  ASSUME Orderly
  PROVE  Spec => [](TypeInv /\ ControlInv /\ BlockInv /\ RecInv)
<1> DEFINE Ind == TypeInv /\ ControlInv /\ BlockInv /\ RecInv
<1>1. Init => Ind
  BY TypeInit, ControlInit, BlockInit, RecInit
<1>2. Ind /\ [Next]_vars => Ind'
  BY TypeStep, ControlStep, BlockStep, RecStep
<1> QED  BY <1>1, <1>2, PTL DEF Spec

\* The invariant behind the theorems below.
THEOREM IndInvCorrect == ASSUME Orderly PROVE Spec => []IndInv
<1>1. TypeInv /\ ControlInv /\ BlockInv /\ RecInv => IndInv
  BY DEF IndInv
<1> QED  BY Invariance, <1>1, PTL

-----------------------------------------------------------------------------
(* What it says of the program.                                              *)

LEMMA ExtentIn ==
  ASSUME TypeInv, ShapeInv, NEW l \in tree, NEW q
  PROVE  q \in Extent(l) <=> q \in Page /\ In(q, l)
<1>1. /\ rec[l].start_page \in Nat /\ rec[l].end_page \in Nat
      /\ 1 <= rec[l].start_page /\ rec[l].end_page <= NrPages + 1
  BY RecTypes DEF ShapeInv
<1> QED  BY <1>1, PageAssumption DEF Extent, In, Page

\* The records of the tree are disjoint and none is empty, whatever the order
\* of allocations and frees: what find_lp and log_page_insert rely on.
THEOREM RecordsDisjointCorrect ==
  ASSUME Orderly PROVE Spec => []RecordsDisjoint
<1>1. TypeInv /\ RecInv => RecordsDisjoint
  <2> SUFFICES ASSUME TypeInv, RecInv, NEW l \in tree
               PROVE  /\ Extent(l) # {}
                      /\ \A m \in tree \ {l} : Extent(l) \cap Extent(m) = {}
    BY DEF RecordsDisjoint
  <2>1. rec[l].start_page \in Extent(l)
    BY RecTypes DEF RecInv, ShapeInv, Extent
  <2>2. \A m \in tree \ {l} : Extent(l) \cap Extent(m) = {}
    BY ExtentIn DEF RecInv, ShapeInv
  <2> QED  BY <2>1, <2>2
<1> QED  BY Invariance, <1>1, PTL

\* While every free is seen, no record holds a page that the kernel has back.
THEOREM NoGhostCorrect == ASSUME Orderly PROVE Spec => []NoGhost
<1>1. TypeInv /\ BlockInv /\ RecInv => NoGhost
  <2> SUFFICES ASSUME TypeInv, BlockInv, RecInv, Watching, NEW l \in tree,
                      NEW q \in Extent(l)
               PROVE  q \in busy
    BY DEF NoGhost, Tracked, Watching
  <2> QED  BY ExtentIn, TrackedBusy DEF RecInv
<1> QED  BY Invariance, <1>1, PTL

\* The cursor of do_log_page_free stays in the block that is freed.
THEOREM CursorInBlockCorrect == ASSUME Orderly PROVE Spec => []CursorInBlock
<1>1. RecInv => CursorInBlock
  BY DEF RecInv, LoopInv, CursorInBlock
<1> QED  BY Invariance, <1>1, PTL

\* Whenever the tree can be searched, every page is answered with the block
\* its owner has and the trace it was allocated with.
THEOREM QueryExactCorrect == ASSUME Orderly PROVE Spec => []QueryExact
<1>1. ASSUME TypeInv, ControlInv, BlockInv, RecInv, lpLock = None, Watching,
             NEW q \in Page
      PROVE  Answer(q) = Expected(q)
  <2>1. \A l \in tree, r \in Page : In(r, l) =>
          /\ owner[r] # None /\ owner[r].by # None
          /\ owner[r] \in Allocation
    <3>1. \A f \in Freer : freer[f].pc \notin {"loop", "reload"}
      BY <1>1, NoneAssumption DEF ControlInv, LockInv
    <3>2. \A l \in tree, r \in Page : In(r, l) => owner[r] # None
      BY <1>1, <3>1 DEF RecInv, GhostInv
    <3> QED  BY <1>1, <3>2 DEF RecInv, RecordInv, TypeInv, TypeOK
  <2>2. find_lp(q) = {l \in tree : In(q, l)}
    BY <1>1, FindIn DEF Page
  <2>3. CASE owner[q] = None \/ owner[q].by = None
    <3>1. Answer(q) = {}
      BY <2>1, <2>2, <2>3 DEF Answer
    <3>2. owner[q] # None =>
            owner[q] \in [page : Page, order : Orders, by : {None}]
      BY <1>1, <2>3 DEF TypeInv, TypeOK, Allocation
    <3> QED  BY <3>1, <3>2 DEF Expected
  <2>4. CASE owner[q] # None /\ owner[q].by # None
    <3>1. PICK l \in tree : In(q, l) /\ rec[l].entries = owner[q].by
      BY <1>1, <2>4 DEF RecInv, TrackedInv
    <3>2. find_lp(q) = {l}
      BY <1>1, <2>2, <3>1 DEF RecInv, ShapeInv
    <3>3. ASSUME NEW r \in Extent(l) PROVE r \in Run(q)
      <4>1. r \in Page /\ In(r, l)
        BY <1>1, <3>3, ExtentIn DEF RecInv
      <4>2. ASSUME NEW x \in Between(q, r) PROVE owner[x] = owner[q]
        <5>1. x \in Page /\ In(x, l)
          <6>1. /\ x \in Int /\ q \in 1 .. NrPages /\ r \in 1 .. NrPages
                /\ (q <= x /\ x <= r) \/ (r <= x /\ x <= q)
            BY <4>1, <4>2 DEF Between, Page
          <6>2. rec[l].start_page \in Nat /\ rec[l].end_page \in Nat
            BY <1>1, RecTypes
          <6> QED  BY <3>1, <4>1, <6>1, <6>2, PageAssumption DEF Page, In
        <5> QED  BY <1>1, <2>1, <3>1, <5>1 DEF RecInv, RecordInv
      <4> QED  BY <4>1, <4>2 DEF Run
    <3>4. ASSUME NEW r \in Run(q) PROVE r \in Extent(l)
      <4>1. r \in Page /\ \A x \in Between(q, r) : owner[x] = owner[q]
        BY <3>4 DEF Run
      <4>2. \A x \in Page : (q <= x /\ x <= r) \/ (r <= x /\ x <= q) =>
              owner[x] = owner[q]
        BY <4>1 DEF Between, Page
      <4>3. In(r, l)
        BY <1>1, <2>4, <3>1, <4>1, <4>2, SameRecord
      <4> QED  BY <1>1, <4>1, <4>3, ExtentIn DEF RecInv
    <3>5. Extent(l) = Run(q)
      BY <3>3, <3>4
    <3>6. Answer(q) = {[extent |-> Extent(l), entries |-> rec[l].entries]}
      BY <3>2 DEF Answer
    <3>7. owner[q] \notin [page : Page, order : Orders, by : {None}]
      BY <2>4
    <3> QED  BY <2>4, <3>1, <3>5, <3>6, <3>7 DEF Expected
  <2> QED  BY <2>3, <2>4
<1>2. TypeInv /\ ControlInv /\ BlockInv /\ RecInv => QueryExact
  BY <1>1 DEF QueryExact, Watching
<1> QED  BY Invariance, <1>2, PTL
-----------------------------------------------------------------------------
(* LogPage implements PageTracker: step by step, what the handlers do to     *)
(* records is what PageTracker says is done to the answers of queries.       *)
(* First the answer for a page.                                              *)

Info(l) == [start |-> rec[l].start_page, end |-> rec[l].end_page,
            entries |-> rec[l].entries]

Log == [q \in Page |-> IF find_lp(q) = {} THEN None
                       ELSE LET l == CHOOSE m \in find_lp(q) : TRUE IN Info(l)]

\* The three variables of PageTracker, and a step of it or of none of them.
Shown == <<Watching, owner, Log>>
Abstract == [Tracker!Next]_Shown

\* The record that holds the page is the answer, and there is no other.
Answers ==
  \A q \in Page :
    /\ \A l \in tree : In(q, l) => Log[q] = Info(l) /\ Log[q] # None
    /\ (\A l \in tree : ~In(q, l)) => Log[q] = None

LEMMA LogAnswers == TypeInv /\ ShapeInv => Answers
<1> SUFFICES ASSUME TypeInv, ShapeInv, NEW q \in Page
             PROVE  /\ \A l \in tree : In(q, l) => Log[q] = Info(l) /\ Log[q] # None
                    /\ (\A l \in tree : ~In(q, l)) => Log[q] = None
  BY DEF Answers
<1>1. find_lp(q) = {l \in tree : In(q, l)}
  BY FindIn DEF Page
<1>2. ASSUME NEW l \in tree, In(q, l) PROVE Log[q] = Info(l) /\ Log[q] # None
  <2>1. find_lp(q) = {l}
    BY <1>1, <1>2 DEF ShapeInv
  <2>2. Log[q] = Info(l)
    BY <2>1 DEF Log
  <2>3. Info(l) \in [start : Nat, end : Nat, entries : Caller \cup {None}]
    BY RecTypes DEF Info, Record
  <2> QED  BY <2>2, <2>3, NoneAssumption
<1>3. ASSUME \A l \in tree : ~In(q, l) PROVE Log[q] = None
  <2>1. find_lp(q) = {}
    BY <1>1, <1>3
  <2> QED  BY <2>1 DEF Log
<1> QED  BY <1>2, <1>3

LEMMA LogAnswersNext == TypeInv' /\ ShapeInv' => Answers'
BY LogAnswers, PTL

\* A step that leaves the linked records alone leaves every answer.
LEMMA LogKept ==
  ASSUME Answers, Answers', TreeSame
  PROVE  Log' = Log
<1>1. \A l \in tree : Info(l)' = Info(l) /\ \A q \in Page : In(q, l)' <=> In(q, l)
  BY DEF TreeSame, In, Info
<1>2. ASSUME NEW q \in Page PROVE Log[q]' = Log[q]
  <2>1. CASE \E l \in tree : In(q, l)
    <3>1. PICK l \in tree : In(q, l)
      BY <2>1
    <3> QED  BY <1>1, <3>1 DEF Answers, TreeSame
  <2>2. CASE \A l \in tree : ~In(q, l)
    BY <1>1, <2>2 DEF Answers, TreeSame
  <2> QED  BY <2>1, <2>2
<1> QED  BY <1>2 DEF Log

\* A step that also leaves the owners and keeps seeing the frees, or not, is none
\* of PageTracker's.
LEMMA Stutters ==
  ASSUME Answers, Answers', TreeSame, owner' = owner, Watching' = Watching
  PROVE  Abstract
BY LogKept DEF Abstract, Shown

-----------------------------------------------------------------------------
(* What the free loop takes out of the records.                              *)

\* The record l loses the pages a .. b-1, which nobody owns; what is left of it
\* before and after them is in records with its trace, and no other record
\* changes.
Cut(l, a, b) ==
  /\ \A m \in tree \ {l} : m \in tree' /\ rec'[m] = rec[m]
  /\ \A m \in tree', q \in Page : In(q, m)' =>
       q \notin a .. (b - 1) /\ \E n \in tree : In(q, n)
  /\ \A q \in Page : In(q, l) /\ q < a =>
       \E m \in tree' : In(q, m)' /\ Info(m)' = [Info(l) EXCEPT !.end = a]
  /\ \A q \in Page : In(q, l) /\ b <= q =>
       \E m \in tree' : In(q, m)' /\ Info(m)' = [Info(l) EXCEPT !.start = b]

LEMMA CutForgets ==
  ASSUME TypeInv, ShapeInv, Answers, Answers', UNCHANGED <<probes, owner>>,
         NEW l \in tree, NEW a \in Nat, NEW b \in Nat,
         rec[l].start_page <= a, a < b, b <= rec[l].end_page,
         \A q \in a .. (b - 1) : owner[q] = None,
         Cut(l, a, b)
  PROVE  Abstract
<1>1. /\ rec[l].start_page \in Nat /\ rec[l].end_page \in Nat
      /\ 1 <= rec[l].start_page /\ rec[l].end_page <= NrPages + 1 /\ NrPages \in Nat
  BY RecTypes, PageAssumption DEF ShapeInv
<1>2. /\ a \in Page /\ b \in Page \cup {p + 1 : p \in Page}
      /\ \A q \in a .. (b - 1) : q \in Page /\ In(q, l)
  <2>1. b - 1 \in Page /\ b = (b - 1) + 1
    BY <1>1 DEF Page
  <2> QED  BY <1>1, <2>1 DEF Page, In
<1>3. \A q \in a .. (b - 1) : owner[q] = None /\ Log[q] # None
  BY <1>2 DEF Answers
<1> DEFINE new(q) == IF Log[q] = None \/ q \in a .. (b - 1) THEN None
                     ELSE IF q < a /\ a < Log[q].end THEN [Log[q] EXCEPT !.end = a]
                     ELSE IF b <= q /\ Log[q].start < b THEN [Log[q] EXCEPT !.start = b]
                     ELSE Log[q]
<1>4. ASSUME NEW q \in Page PROVE Log[q]' = new(q)
  <2>0. q \in Int
    BY DEF Page
  <2>1. CASE q \in a .. (b - 1)
    <3>1. \A m \in tree' : ~In(q, m)'
      BY <2>1 DEF Cut
    <3> QED  BY <2>1, <3>1 DEF Answers
  <2>2. CASE \A m \in tree : ~In(q, m)
    <3>1. \A m \in tree' : ~In(q, m)'
      BY <2>2 DEF Cut
    <3> QED  BY <2>2, <3>1 DEF Answers
  <2>3. CASE q \notin a .. (b - 1) /\ In(q, l)
    <3>1. Log[q] = Info(l) /\ Log[q] # None
      BY <2>3 DEF Answers
    <3>2. Info(l).start = rec[l].start_page /\ Info(l).end = rec[l].end_page
      BY DEF Info
    <3>3. CASE q < a
      <4>1. PICK m \in tree' : In(q, m)' /\ Info(m)' = [Info(l) EXCEPT !.end = a]
        BY <2>3, <3>3 DEF Cut
      <4>2. Log[q]' = [Info(l) EXCEPT !.end = a]
        BY <4>1 DEF Answers
      <4> QED  BY <1>1, <2>3, <3>1, <3>2, <3>3, <4>2
    <3>4. CASE b <= q
      <4>1. PICK m \in tree' : In(q, m)' /\ Info(m)' = [Info(l) EXCEPT !.start = b]
        BY <2>3, <3>4 DEF Cut
      <4>2. Log[q]' = [Info(l) EXCEPT !.start = b]
        BY <4>1 DEF Answers
      <4>3. ~(q < a) /\ Info(l).start < b
        BY <2>0, <1>1, <3>2, <3>4
      <4> QED  BY <2>3, <3>1, <3>4, <4>2, <4>3
    <3> QED  BY <2>0, <2>3, <3>3, <3>4
  <2>4. CASE \E m \in tree \ {l} : In(q, m)
    <3>1. PICK m \in tree \ {l} : In(q, m)
      BY <2>4
    <3>2. Log[q] = Info(m) /\ Log[q] # None
      BY <3>1 DEF Answers
    <3>3. m \in tree' /\ In(q, m)' /\ Info(m)' = Info(m)
      BY <3>1 DEF Cut, In, Info
    <3>4. Log[q]' = Info(m)
      BY <3>3 DEF Answers
    <3>5. rec[m].start_page \in Nat /\ rec[m].end_page \in Nat
      BY <3>1, RecTypes
    <3>6. ~In(a, m) /\ ~In(b - 1, m) /\ q \notin a .. (b - 1)
      BY <1>2, <3>1 DEF ShapeInv
    <3>7. ~(q < a /\ a < rec[m].end_page) /\ ~(b <= q /\ rec[m].start_page < b)
      BY <2>0, <3>1, <3>5, <3>6 DEF In
    <3>8. Info(m).start = rec[m].start_page /\ Info(m).end = rec[m].end_page
      BY DEF Info
    <3> QED  BY <3>2, <3>4, <3>6, <3>7, <3>8
  <2> QED  BY <2>1, <2>2, <2>3, <2>4
<1>5. Log' = [q \in Page |-> new(q)]
  <2> HIDE DEF new
  <2> QED  BY <1>4 DEF Log
<1>6. Tracker!Forget(a, b)
  BY <1>3, <1>5 DEF Tracker!Forget, Watching, Log, Info
<1> QED  BY <1>2, <1>6 DEF Abstract, Shown, Tracker!Next

\* What all the lemmas below know of a step.
Known ==
  /\ TypeInv /\ ControlInv /\ BlockInv /\ RecInv /\ TypeInv' /\ RecInv'
  /\ PagesInv /\ ShapeInv' /\ Answers /\ Answers'

LEMMA KnownFollows ==
  ASSUME Orderly, TypeInv, ControlInv, BlockInv, RecInv, [Next]_vars
  PROVE  Known
<1>1. TypeInv' /\ RecInv'
  BY TypeStep, RecStep
<1>2. PagesInv /\ ShapeInv /\ ShapeInv'
  BY <1>1 DEF RecInv, PagesInv
<1> QED  BY <1>1, <1>2, LogAnswers, LogAnswersNext DEF Known

LEMMA LoopUnowned ==
  ASSUME Known, NEW f \in Freer, freer[f].pc = "loop"
  PROVE  \A q \in freer[f].start .. (FreeEnd(f) - 1) : owner[q] = None
<1>1. /\ freer[f].start \in Page /\ freer[f].start \in Nat
      /\ FreeEnd(f) \in Nat /\ FreeEnd(f) <= NrPages + 1
      /\ \A q \in Page : ToFree(q, f) => owner[q] = None
  BY LoopFacts DEF Known
<1> QED  BY <1>1, PageAssumption DEF ToFree, Page

\* A page of another record is none of this one's.
LEMMA OtherRecord ==
  ASSUME ShapeInv, NEW l \in tree, NEW m \in tree \ {l}, NEW q \in Page
  PROVE  ~(In(q, l) /\ In(q, m))
BY DEF ShapeInv

\* One iteration of the loop takes the pages from the cursor up to e out of the
\* record l at the cursor; the records that change, or are new, are parts of l.
LEMMA CursorForgets ==
  ASSUME Known, NEW f \in Freer, freer[f].pc = "loop",
         NEW l \in find_lp(freer[f].start), NEW e \in Nat,
         freer[f].start < e, e <= FreeEnd(f), e <= rec[l].end_page,
         UNCHANGED <<probes, owner>>,
         \A m \in tree \ {l} : m \in tree' /\ rec'[m] = rec[m],
         \A m \in tree' : m \notin tree \ {l} => \A q \in Page :
           In(q, m)' => In(q, l) /\ q \notin freer[f].start .. (e - 1),
         \A q \in Page : In(q, l) /\ q < freer[f].start =>
           \E m \in tree' : /\ In(q, m)'
                            /\ Info(m)' = [Info(l) EXCEPT !.end = freer[f].start],
         \A q \in Page : In(q, l) /\ e <= q =>
           \E m \in tree' : In(q, m)' /\ Info(m)' = [Info(l) EXCEPT !.start = e]
  PROVE  Abstract
<1> DEFINE s == freer[f].start
<1>1. /\ l \in tree /\ s \in Nat /\ rec[l].start_page <= s
      /\ rec[l].start_page \in Nat /\ rec[l].end_page \in Nat
      /\ FreeEnd(f) \in Nat
  BY LoopFacts, LoopRecord DEF Known
<1>2. \A q \in s .. (e - 1) : owner[q] = None
  BY <1>1, LoopUnowned DEF Known
<1>3. ASSUME NEW m \in tree', NEW q \in Page, In(q, m)'
      PROVE  q \notin s .. (e - 1) /\ \E n \in tree : In(q, n)
  <2>0. q \in Int
    BY DEF Page
  <2>1. CASE m \notin tree \ {l}
    BY <1>1, <1>3, <2>1
  <2>2. CASE m \in tree \ {l}
    <3>1. In(q, m)
      BY <2>2, <1>3 DEF In
    <3>2. ~In(q, l)
      BY <2>2, <3>1, <1>1, OtherRecord DEF Known, PagesInv
    <3> QED  BY <2>0, <2>2, <3>1, <3>2, <1>1 DEF In
  <2> QED  BY <2>1, <2>2
<1>4. Cut(l, s, e)
  BY <1>3 DEF Cut
<1> QED  BY <1>1, <1>2, <1>4, CutForgets DEF Known, PagesInv

LEMMA FreeHeadForgets ==
  ASSUME Known, NEW f \in Freer, FreeHead(f) PROVE Abstract
<1>1. PICK l \in find_lp(freer[f].start) :
        /\ freer[f].pc = "loop" /\ tree' = tree
        /\ freer[f].start = rec[l].start_page /\ FreeEnd(f) < rec[l].end_page
        /\ rec' = [rec EXCEPT ![l] = [@ EXCEPT !.start_page = FreeEnd(f)]]
        /\ UNCHANGED <<probes, owner>>
  BY DEF FreeHead, modVars, kernelVars
<1> DEFINE e == FreeEnd(f)
<1>2. /\ l \in tree /\ l \in Lp /\ rec[l] \in Record /\ rec \in [Lp -> Record]
      /\ freer[f].start \in Nat /\ e \in Nat /\ freer[f].start < e
      /\ rec[l].start_page \in Nat /\ rec[l].end_page \in Nat /\ tree \subseteq Lp
  BY <1>1, LoopFacts, LoopRecord DEF Known, TypeInv, TypeOK
<1>3. /\ rec'[l].start_page = e /\ rec'[l].end_page = rec[l].end_page
      /\ Info(l)' = [Info(l) EXCEPT !.start = e]
      /\ \A m \in tree \ {l} : rec'[m] = rec[m]
  BY <1>1, <1>2 DEF Info, Record
<1> QED  BY <1>1, <1>2, <1>3, CursorForgets DEF In, Page

LEMMA FreeTailForgets ==
  ASSUME Known, NEW f \in Freer, FreeTail(f) \/ FreeTailAndMore(f) PROVE Abstract
<1>1. PICK l \in find_lp(freer[f].start) :
        /\ freer[f].pc = "loop" /\ tree' = tree
        /\ freer[f].start > rec[l].start_page /\ FreeEnd(f) >= rec[l].end_page
        /\ rec' = [rec EXCEPT ![l] = [@ EXCEPT !.end_page = freer[f].start]]
        /\ UNCHANGED <<probes, owner>>
  <2>1. CASE FreeTail(f)
    <3>1. PICK l \in find_lp(freer[f].start) :
            /\ freer[f].pc = "loop" /\ tree' = tree
            /\ freer[f].start > rec[l].start_page /\ FreeEnd(f) = rec[l].end_page
            /\ rec' = [rec EXCEPT ![l] = [@ EXCEPT !.end_page = freer[f].start]]
            /\ UNCHANGED <<probes, owner>>
      BY <2>1 DEF FreeTail, modVars, kernelVars
    <3>2. FreeEnd(f) >= rec[l].end_page
      BY <3>1, LoopFacts, LoopRecord DEF Known
    <3> QED  BY <3>1, <3>2
  <2>2. CASE FreeTailAndMore(f)
    <3>1. PICK l \in find_lp(freer[f].start) :
            /\ freer[f].pc = "loop" /\ tree' = tree
            /\ freer[f].start > rec[l].start_page /\ FreeEnd(f) > rec[l].end_page
            /\ rec' = [rec EXCEPT ![l] = [@ EXCEPT !.end_page = freer[f].start]]
            /\ UNCHANGED <<probes, owner>>
      BY <2>2 DEF FreeTailAndMore, modVars, kernelVars
    <3>2. FreeEnd(f) >= rec[l].end_page
      BY <3>1, LoopFacts, LoopRecord DEF Known
    <3> QED  BY <3>1, <3>2
  <2> QED  BY <2>1, <2>2
<1> DEFINE s == freer[f].start
           e == rec[l].end_page
<1>2. /\ l \in tree /\ l \in Lp /\ rec[l] \in Record /\ rec \in [Lp -> Record]
      /\ s \in Nat /\ e \in Nat /\ s < e /\ rec[l].start_page \in Nat /\ tree \subseteq Lp
  BY <1>1, LoopFacts, LoopRecord DEF Known, TypeInv, TypeOK
<1>3. /\ rec'[l].start_page = rec[l].start_page /\ rec'[l].end_page = s
      /\ Info(l)' = [Info(l) EXCEPT !.end = s]
      /\ \A m \in tree \ {l} : rec'[m] = rec[m]
  BY <1>1, <1>2 DEF Info, Record
<1> QED  BY <1>1, <1>2, <1>3, CursorForgets DEF In, Page

LEMMA FreeWholeForgets ==
  ASSUME Known, NEW f \in Freer, FreeWhole(f) \/ FreeWholeAndMore(f) PROVE Abstract
<1>1. PICK l \in find_lp(freer[f].start) :
        /\ freer[f].pc = "loop" /\ tree' = tree \ {l}
        /\ freer[f].start = rec[l].start_page /\ FreeEnd(f) >= rec[l].end_page
        /\ \A m \in Lp \ {l} : rec'[m] = rec[m]
        /\ UNCHANGED <<probes, owner>>
  <2>1. CASE FreeWhole(f)
    <3>1. PICK l \in find_lp(freer[f].start) :
            /\ freer[f].pc = "loop" /\ tree' = tree \ {l}
            /\ freer[f].start = rec[l].start_page /\ FreeEnd(f) = rec[l].end_page
            /\ rec' = [rec EXCEPT ![l] = Blank]
            /\ UNCHANGED <<probes, owner>>
      BY <2>1 DEF FreeWhole, modVars, kernelVars
    <3>2. FreeEnd(f) >= rec[l].end_page
      BY <3>1, LoopFacts, LoopRecord DEF Known
    <3>3. \A m \in Lp \ {l} : rec'[m] = rec[m]
      BY <3>1 DEF Known, TypeInv, TypeOK
    <3> QED  BY <3>1, <3>2, <3>3
  <2>2. CASE FreeWholeAndMore(f)
    <3>1. PICK l \in find_lp(freer[f].start) :
            /\ freer[f].pc = "loop" /\ tree' = tree \ {l}
            /\ freer[f].start = rec[l].start_page /\ FreeEnd(f) > rec[l].end_page
            /\ rec' = rec
            /\ UNCHANGED <<probes, owner>>
      BY <2>2 DEF FreeWholeAndMore, modVars, kernelVars
    <3>2. FreeEnd(f) >= rec[l].end_page
      BY <3>1, LoopFacts, LoopRecord DEF Known
    <3> QED  BY <3>1, <3>2
  <2> QED  BY <2>1, <2>2
<1>2. /\ l \in tree /\ freer[f].start < rec[l].end_page
      /\ rec[l].end_page \in Nat /\ freer[f].start \in Nat /\ tree \subseteq Lp
  BY <1>1, LoopFacts, LoopRecord DEF Known, TypeInv, TypeOK
<1> QED  BY <1>1, <1>2, CursorForgets DEF In, Page

LEMMA FreeMiddleForgets ==
  ASSUME Known, NEW f \in Freer, FreeMiddle(f) PROVE Abstract
<1> DEFINE s == freer[f].start
           e == FreeEnd(f)
<1>1. PICK l \in find_lp(s), n \in lpFree :
        /\ freer[f].pc = "loop" /\ tree' = tree \cup {n}
        /\ s > rec[l].start_page /\ e < rec[l].end_page
        /\ rec' = [rec EXCEPT ![n] = [rec[l] EXCEPT !.start_page = e],
                              ![l] = [rec[l] EXCEPT !.end_page = s]]
        /\ UNCHANGED <<probes, owner>>
  BY DEF FreeMiddle, modVars, kernelVars
<1>2. /\ l \in tree /\ l \in Lp /\ n \in Lp /\ n \notin tree /\ tree \subseteq Lp
      /\ rec[l] \in Record /\ rec \in [Lp -> Record]
      /\ s \in Nat /\ e \in Nat /\ s < e
      /\ rec[l].start_page \in Nat /\ rec[l].end_page \in Nat
  BY <1>1, LoopFacts, LoopRecord
     DEF Known, TypeInv, TypeOK, ControlInv, RecordsAccounted
<1>3. /\ rec'[l].start_page = rec[l].start_page /\ rec'[l].end_page = s
      /\ rec'[n].start_page = e /\ rec'[n].end_page = rec[l].end_page
      /\ rec'[l].entries = rec[l].entries /\ rec'[n].entries = rec[l].entries
      /\ \A m \in tree \ {l} : rec'[m] = rec[m]
  BY <1>1, <1>2 DEF Record
<1>4. /\ Info(l)' = [Info(l) EXCEPT !.end = s]
      /\ Info(n)' = [Info(l) EXCEPT !.start = e]
  BY <1>3 DEF Info
<1> QED  BY <1>1, <1>2, <1>3, <1>4, CursorForgets DEF In, Page

\* The other steps of the loop, and every step that is not the loop's and leaves
\* the owners alone, change no answer.
LEMMA FreeStepRefines ==
  ASSUME Known, NEW f \in Freer, FreeStep(f) PROVE Abstract
<1>1. CASE FreeUntracked(f) \/ FreeReload(f)
  <2>1. UNCHANGED <<probes, rec, tree, owner>>
    BY <1>1 DEF FreeUntracked, FreeReload, modVars, kernelVars
  <2> QED  BY <2>1, Stutters DEF Known, TreeSame, Watching
<1> QED  BY <1>1, FreeHeadForgets, FreeTailForgets, FreeWholeForgets,
            FreeMiddleForgets DEF FreeStep

-----------------------------------------------------------------------------
(* Allocations.                                                              *)

LEMMA SpanIsBlock ==
  ASSUME NEW p \in Page, NEW k \in Orders
  PROVE  Span(p, k) = Tracker!Block(p, k)
<1>1. p \in Nat /\ 2^k \in Nat
  BY PageAssumption DEF Page
<1>2. (p + 2^k) - 1 = p + (2^k - 1)
  BY <1>1
<1> QED  BY <1>2 DEF Span, End, Tracker!Block

\* The record is linked and the caller gets the pages: they are recorded.
LEMMA InsertRecords ==
  ASSUME Known, NEW i \in Inst, RetInsert(i) PROVE Abstract
<1> DEFINE p == inst[i].page
           k == inst[i].order
           c == inst[i].caller
           n == inst[i].lp
           whole == [start |-> p, end |-> p + 2^k, entries |-> c]
<1>1. /\ inst[i].pc = "insert" /\ p \in Page /\ k \in Orders /\ c \in Caller
      /\ Pending(i) /\ Watching /\ tree' = tree \cup {n}
      /\ owner' = [q \in Page |-> IF q \in Span(p, k)
                                  THEN [page |-> p, order |-> k, by |-> c] ELSE owner[q]]
      /\ UNCHANGED <<probes, rec>>
  BY DEF RetInsert, Known, TypeInv, TypeOK, InstOK, Running, Pending, Granted, Page, Null,
         ControlInv, PhaseInv, AllocActive, modVars
<1>2. /\ rec[n].start_page = p /\ rec[n].end_page = End(p, k) /\ rec[n].entries = c
      /\ End(p, k) \in Nat /\ End(p, k) <= NrPages + 1
  BY <1>1, EndType DEF Known, BlockInv, CallInv, GrantInv, Page
<1>3. \A q \in Span(p, k) : /\ q \in Page /\ InGrant(q, i)
                            /\ owner[q] = None /\ \A l \in tree : ~In(q, l)
  <2>1. ASSUME NEW q \in Span(p, k) PROVE q \in Page /\ InGrant(q, i)
    BY <1>1, <1>2, PageAssumption DEF Span, Page, InGrant, Blk
  <2> QED  BY <1>1, <2>1 DEF Known, BlockInv, GrantInv, PagesInv, GrantFreshInv
<1>4. Span(p, k) = Tracker!Block(p, k)
  BY <1>1, SpanIsBlock
<1>5. \A q \in Page : In(q, n) <=> q \in Span(p, k)
  BY <1>1, <1>2 DEF In, Span, Page
<1>6. Info(n) = whole /\ \A l \in tree \cup {n} : Info(l)' = Info(l)
                      /\ \A q \in Page : In(q, l)' <=> In(q, l)
  BY <1>1, <1>2 DEF Info, In, End
<1>7. ASSUME NEW q \in Page
      PROVE  Log[q]' = IF q \in Span(p, k) THEN whole ELSE Log[q]
  <2>1. CASE q \in Span(p, k)
    BY <1>1, <1>5, <1>6, <2>1 DEF Known, Answers
  <2>2. CASE q \notin Span(p, k) /\ \E l \in tree : In(q, l)
    BY <1>1, <1>6, <2>2 DEF Known, Answers
  <2>3. CASE q \notin Span(p, k) /\ \A l \in tree : ~In(q, l)
    <3>1. \A l \in tree' : ~In(q, l)'
      BY <1>1, <1>5, <1>6, <2>3
    <3> QED  BY <2>3, <3>1 DEF Known, Answers
  <2> QED  BY <2>1, <2>2, <2>3
<1>8. Log' = [q \in Page |-> IF q \in Span(p, k) THEN whole ELSE Log[q]]
  <2> HIDE DEF whole
  <2> QED  BY <1>7 DEF Log
<1>9. \A q \in Span(p, k) : q \in Page /\ owner[q] = None /\ Log[q] = None
  BY <1>3 DEF Known, Answers
<1>10. Tracker!Record(p, k, c)
  BY <1>1, <1>4, <1>8, <1>9 DEF Tracker!Record, Watching, Log, Info
<1> QED  BY <1>1, <1>10 DEF Abstract, Shown, Tracker!Next

\* The handlers before that touch records that are not linked.
LEMMA AllocHandlerRefines ==
  ASSUME Known, NEW i \in Inst, AllocHandlerStep(i) PROVE Abstract
<1>1. CASE RetInsert(i)
  BY <1>1, InsertRecords
<1>2. CASE ~RetInsert(i)
  <2>1. inst[i].pc \in Running /\ inst[i].lp \in Lp /\ inst[i].lp \notin tree
    BY AllocMoves, NoneAssumption
       DEF Known, TypeInv, TypeOK, InstOK, ControlInv, RecordsAccounted, HeldBy
  <2>2. /\ tree' = tree /\ UNCHANGED owner
        /\ \A l \in Lp \ {inst[i].lp} : rec'[l] = rec[l]
    BY <1>2 DEF AllocHandlerStep, EntryAllocSt, EntryTrace, RetFreeLp, RetSetExtent,
       kernelVars, Known, TypeInv, TypeOK
  <2>3. TreeSame /\ Watching' = Watching
    BY <2>1, <2>2, AllocFrame DEF TreeSame, Known, TypeInv, TypeOK, Watching
  <2> QED  BY <2>2, <2>3, Stutters DEF Known
<1> QED  BY <1>1, <1>2

\* Pages that nobody owned get owners, and no record: a miss, if any do.
LEMMA Misses ==
  ASSUME Known, TreeSame, Watching' = Watching, DOMAIN owner' = Page,
         \A q \in Page : owner'[q] # owner[q] =>
           /\ owner[q] = None
           /\ owner'[q] \in [page : Page, order : Orders, by : {None}]
           /\ Watching => \A l \in tree : ~In(q, l),
         owner' = [q \in Page |-> owner'[q]]
  PROVE  Abstract
<1>1. CASE owner' = owner
  BY <1>1, Stutters DEF Known
<1>2. CASE owner' # owner
  <2>1. Log' = Log
    BY LogKept DEF Known
  <2>2. \A q \in Page : owner'[q] # owner[q] => (Watching => Log[q] = None)
    BY DEF Known, Answers
  <2>3. Tracker!Miss
    BY <1>2, <2>1, <2>2 DEF Tracker!Miss, Watching, Log, Info
  <2> QED  BY <2>3 DEF Abstract, Shown, Tracker!Next
<1> QED  BY <1>1, <1>2

LEMMA KernelAllocRefines ==
  ASSUME Known, NEW i \in Inst,
         \/ \E k \in Orders, c \in Caller : EntryAllocLp(i, k, c)
         \/ \E p \in Page : KernelAlloc(i, p)
         \/ KernelAllocFails(i)
  PROVE  Abstract
<1>1. TreeSame /\ UNCHANGED <<owner, probes>>
  <2>1. CASE \E k \in Orders, c \in Caller : EntryAllocLp(i, k, c)
    <3>1. PICK k \in Orders, c \in Caller : EntryAllocLp(i, k, c)
      BY <2>1
    <3>2. PICK l \in lpFree : rec' = [rec EXCEPT ![l] = [Blank EXCEPT !.order = k]]
      BY <3>1 DEF EntryAllocLp
    <3>3. l \notin tree /\ l \in Lp /\ tree \subseteq Lp
      BY <3>2 DEF Known, ControlInv, RecordsAccounted, TypeInv, TypeOK
    <3>4. \A m \in tree : rec'[m] = rec[m]
      BY <3>2, <3>3 DEF Known, TypeInv, TypeOK
    <3> QED  BY <3>1, <3>4 DEF EntryAllocLp, TreeSame, modVars, kernelVars
  <2>2. CASE KernelAllocFails(i) \/ \E p \in Page : KernelAlloc(i, p)
    BY <2>2 DEF KernelAlloc, KernelAllocFails, TreeSame, modVars, kernelVars
  <2> QED  BY <2>1, <2>2
<1> QED  BY <1>1, Stutters DEF Known, Watching

\* Nobody traces the allocation: its pages were free, so they are in no record.
LEMMA UntracedMisses ==
  ASSUME Known, NEW p \in Page, NEW k \in Orders, AllocUntraced(p, k)
  PROVE  Abstract
<1> DEFINE new == [page |-> p, order |-> k, by |-> None]
<1>1. /\ Span(p, k) \cap busy = {}
      /\ owner' = [q \in Page |-> IF q \in Span(p, k) THEN new ELSE owner[q]]
      /\ UNCHANGED <<probes, rec, tree>>
  BY DEF AllocUntraced, modVars
<1>2. new \in [page : Page, order : Orders, by : {None}]
  OBVIOUS
<1> HIDE DEF new
<1>3. TreeSame /\ Watching' = Watching
  BY <1>1 DEF TreeSame, Watching
<1>4. ASSUME NEW q \in Page, owner'[q] # owner[q]
      PROVE  /\ owner[q] = None
             /\ owner'[q] \in [page : Page, order : Orders, by : {None}]
             /\ Watching => \A l \in tree : ~In(q, l)
  <2>1. q \in Span(p, k) /\ owner'[q] = new
    BY <1>1, <1>4
  <2>2. q \notin busy
    BY <1>1, <2>1
  <2> QED  BY <1>2, <2>1, <2>2, TrackedBusy DEF Known, BlockInv, OwnerInv
<1>5. DOMAIN owner' = Page /\ owner' = [q \in Page |-> owner'[q]]
  BY <1>1
<1> QED  BY <1>3, <1>4, <1>5, Misses

\* The owners give the block up before the loop, or nothing, touches a record.
LEMMA GivesUp ==
  ASSUME Known, NEW f \in Freer, NEW p \in Page, NEW k \in Orders,
         NEW fn \in FreeProbe, FreeEnter(f, p, k, fn) \/ FreeUnprobed(f, p, k, fn)
  PROVE  Abstract
<1>1. Freeable(p, k) /\ GiveUp(p, k) /\ UNCHANGED <<probes, rec, tree>>
  BY DEF FreeEnter, FreeUnprobed, modVars
<1>2. Log' = Log /\ Watching' = Watching
  BY <1>1, LogKept DEF Known, TreeSame, Watching
<1>3. Span(p, k) = Tracker!Block(p, k)
  BY SpanIsBlock
<1>4. \A q \in Span(p, k) : q \in Page /\ owner[q] # None
  BY <1>1 DEF Freeable, IsBlock
<1>5. Tracker!GiveUp(p, k)
  BY <1>1, <1>2, <1>3, <1>4 DEF Tracker!GiveUp, GiveUp, Watching, Log, Info
<1> QED  BY <1>5 DEF Abstract, Shown, Tracker!Next

LEMMA KernelRefines ==
  ASSUME Known, KernelStep PROVE Abstract
<1>1. ASSUME NEW f \in Freer, KernelFree(f) PROVE Abstract
  BY <1>1, Stutters DEF KernelFree, Known, TreeSame, Watching, modVars
<1> QED  BY <1>1, KernelAllocRefines, UntracedMisses, GivesUp DEF KernelStep

-----------------------------------------------------------------------------
(* Loading and unloading.                                                    *)

\* The last of the probes on the freeing functions: every free is seen from now
\* on, and no record has been linked yet.
LEMMA RegisterWatches ==
  ASSUME Known, Register PROVE Abstract
<1>1. tree = {} /\ UNCHANGED <<rec, tree, owner>>
  BY DEF Register, Known, ControlInv, PhaseInv, kernelVars
<1>2. Log' = Log
  BY <1>1, LogKept DEF Known, TreeSame
<1>3. Watching => Watching'
  BY DEF Register, Watching
<1>4. CASE Watching' = Watching
  BY <1>1, <1>4, Stutters DEF Known, TreeSame
<1>5. CASE ~(Watching' = Watching)
  <2>1. ~Watching /\ Watching' /\ Watching' = TRUE
    BY <1>3, <1>5 DEF Watching
  <2>2. \A q \in Page : Log[q] = None
    BY <1>1 DEF Known, Answers
  <2>3. Tracker!Watch
    BY <1>1, <1>2, <2>1, <2>2 DEF Tracker!Watch, Watching, Log, Info
  <2> QED  BY <2>3 DEF Abstract, Shown, Tracker!Next
<1> QED  BY <1>4, <1>5

\* The first of them to go: frees are missed from now on.
LEMMA UnregisterUnwatches ==
  ASSUME Known, UnregisterFree \/ UnregisterAlloc PROVE Abstract
<1>1. TreeSame /\ UNCHANGED owner /\ probes' \subseteq probes
  BY DEF UnregisterFree, UnregisterAlloc, TreeSame, kernelVars
<1>2. Log' = Log
  BY <1>1, LogKept DEF Known
<1>3. CASE Watching' = Watching
  BY <1>1, <1>3, Stutters DEF Known
<1>4. CASE ~(Watching' = Watching)
  <2>1. Watching /\ Watching' = FALSE
    BY <1>1, <1>4 DEF Watching
  <2>2. Tracker!Unwatch
    BY <1>1, <1>2, <2>1 DEF Tracker!Unwatch, Watching, Log, Info
  <2> QED  BY <2>2 DEF Abstract, Shown, Tracker!Next
<1> QED  BY <1>3, <1>4

\* The calls that lose their return handler give their pages to callers whose
\* trace is lost with them.
LEMMA CleanupMisses ==
  ASSUME Known, CleanupInstances PROVE Abstract
<1> DEFINE Lost(i, q) == /\ inst[i].pc = "returned" /\ inst[i].page # Null
                         /\ q \in Span(inst[i].page, inst[i].order)
           by(i) == [page |-> inst[i].page, order |-> inst[i].order, by |-> None]
<1>1. /\ UNCHANGED <<probes, rec, tree>>
      /\ owner' = [q \in Page |-> IF \E i \in Inst : Lost(i, q)
                                  THEN by(CHOOSE j \in Inst : Lost(j, q))
                                  ELSE owner[q]]
  BY DEF CleanupInstances, modVars
<1>2. ASSUME NEW i \in Inst, NEW q \in Page, Lost(i, q)
      PROVE  /\ by(i) \in [page : Page, order : Orders, by : {None}]
             /\ owner[q] = None
             /\ Watching => \A l \in tree : ~In(q, l)
  <2>1. inst[i].page \in Page /\ inst[i].order \in Orders
    BY <1>2 DEF Known, TypeInv, TypeOK, InstOK, Instance, Running
  <2>2. Pending(i) /\ InGrant(q, i)
    BY <1>2, <2>1, SpanBlk DEF Pending, Granted, InGrant, Page
  <2> QED  BY <2>1, <2>2 DEF Known, BlockInv, GrantInv, PagesInv, GrantFreshInv
<1> HIDE DEF Lost, by
<1>3. ASSUME NEW q \in Page, owner'[q] # owner[q]
      PROVE  /\ owner[q] = None
             /\ owner'[q] \in [page : Page, order : Orders, by : {None}]
             /\ Watching => \A l \in tree : ~In(q, l)
  <2>1. PICK i \in Inst : Lost(i, q) /\ owner'[q] = by(i)
    BY <1>1, <1>3
  <2> QED  BY <1>2, <2>1
<1>4. DOMAIN owner' = Page /\ owner' = [q \in Page |-> owner'[q]]
  BY <1>1
<1> QED  BY <1>1, <1>3, <1>4, Misses DEF TreeSame, Watching

LEMMA ExitResets ==
  ASSUME Known, ExitPools PROVE Abstract
<1>1. /\ ~Watching /\ Watching' = Watching /\ tree' = {}
      /\ owner' = [q \in Page |-> IF owner[q] = None THEN None
                                  ELSE [owner[q] EXCEPT !.by = None]]
  BY DEF ExitPools, Watching, FreeProbe, Probe
<1>2. \A q \in Page : Log[q]' = None
  BY <1>1 DEF Known, Answers
<1>3. Log' = [q \in Page |-> None]
  BY <1>2 DEF Log
<1>4. Tracker!Reset
  BY <1>1, <1>3 DEF Tracker!Reset, Watching, Log, Info
<1> QED  BY <1>4 DEF Abstract, Shown, Tracker!Next

LEMMA ModuleRefines ==
  ASSUME Known, ModuleStep PROVE Abstract
<1>1. CASE InitLpPool \/ InitStPool \/ InitStPoolFails \/ RegisterFails \/ Unload
  BY <1>1, Stutters DEF InitLpPool, InitStPool, InitStPoolFails, RegisterFails,
     Unload, Known, TreeSame, Watching, kernelVars
<1> QED  BY <1>1, RegisterWatches, UnregisterUnwatches, CleanupMisses, ExitResets
         DEF ModuleStep

LEMMA StepRefines ==
  ASSUME Orderly, TypeInv, ControlInv, BlockInv, RecInv, [Next]_vars
  PROVE  Abstract
<1>1. Known
  BY KnownFollows
<1>2. CASE UNCHANGED vars
  BY <1>1, <1>2, Stutters DEF vars, Known, TreeSame, Watching
<1> QED  BY <1>1, <1>2, KernelRefines, AllocHandlerRefines, FreeStepRefines,
            ModuleRefines DEF Next

\* What the probe handlers, the loop of a free and the loading and unloading of
\* the module do to records is, for whoever asks print_page, what PageTracker
\* promises: an answer appears with its allocation, is cut or taken away after
\* the owner gave the pages up, and no other answer changes.
THEOREM TrackerImplemented == ASSUME Orderly PROVE Spec => TrackerSpec
<1> DEFINE Ind == TypeInv /\ ControlInv /\ BlockInv /\ RecInv
<1>1. Init => Tracker!Init
  <2> SUFFICES ASSUME Init PROVE Tracker!Init
    OBVIOUS
  <2>1. \A q \in Page : find_lp(q) = {}
    BY DEF Init, find_lp
  <2> QED  BY <2>1 DEF Init, Tracker!Init, FreeProbe, Probe
<1>2. Ind /\ [Next]_vars => [Tracker!Next]_Tracker!tracker
  BY StepRefines DEF Abstract, Shown, Tracker!tracker, Watching, Log, Info
<1> QED  BY Invariance, <1>1, <1>2, PTL DEF Spec, TrackerSpec, Tracker!Spec

-----------------------------------------------------------------------------
(* Trace buffers.                                                            *)

LEMMA BufferStep ==
  ASSUME TypeInv, ControlInv, BufferInv, [Next]_vars
  PROVE  BufferInv'
<1>0. inst \in [Inst -> Instance] /\ \A i \in Inst : inst[i] \in Instance
  BY DEF TypeInv, TypeOK
<1>1. CASE UNCHANGED vars
  BY <1>1 DEF BufferInv, vars
<1>2. ASSUME NEW i \in Inst, AllocHandlerStep(i) PROVE BufferInv'
  <2>0. phase' = phase /\ \A j \in Inst \ {i} : inst'[j] = inst[j]
    BY <1>2, AllocFrame, AllocMoves
  <2>1. CASE EntryAllocSt(i)
    <3>1. PICK s \in stFree :
            /\ stFree' = stFree \ {s}
            /\ inst'[i].pc = "unwind" /\ inst'[i].st = s /\ inst[i].pc = "trace"
      BY <1>0, <2>1 DEF EntryAllocSt, Instance
    <3> QED  BY <2>0, <3>1 DEF BufferInv
  <2>2. CASE EntryTrace(i)
    <3>1. stFree' = stFree \cup {inst[i].st}
      BY <2>2 DEF EntryTrace
    <3> QED  BY <2>0, <3>1 DEF BufferInv
  <2>3. CASE RetFreeLp(i) \/ RetSetExtent(i) \/ RetInsert(i)
    <3>1. stFree' = stFree /\ inst[i].pc # "unwind"
      BY <2>3 DEF RetFreeLp, RetSetExtent, RetInsert, poolVars
    <3> QED  BY <2>0, <3>1 DEF BufferInv
  <2> QED  BY <1>2, <2>1, <2>2, <2>3 DEF AllocHandlerStep
<1>3. CASE KernelStep
  <2>1. UNCHANGED <<phase, stFree>>
    BY <1>3, KernelFrame
  <2>2. \A i \in Inst : inst[i].pc = "unwind" => inst'[i] = inst[i]
    <3>1. ASSUME NEW i \in Inst, NEW k \in Orders, NEW c \in Caller, EntryAllocLp(i, k, c)
          PROVE  \A j \in Inst : inst[j].pc = "unwind" => inst'[j] = inst[j]
      BY <1>0, <3>1 DEF EntryAllocLp
    <3>2. ASSUME NEW i \in Inst, KernelAllocFails(i) \/ \E p \in Page : KernelAlloc(i, p)
          PROVE  \A j \in Inst : inst[j].pc = "unwind" => inst'[j] = inst[j]
      BY <1>0, <3>2 DEF KernelAllocFails, KernelAlloc
    <3>3. ASSUME \/ \E p \in Page, k \in Orders : AllocUntraced(p, k)
                 \/ \E f \in Freer, p \in Page, k \in Orders, fn \in FreeProbe :
                      FreeEnter(f, p, k, fn) \/ FreeUnprobed(f, p, k, fn)
                 \/ \E f \in Freer : KernelFree(f)
          PROVE  inst' = inst
      BY <3>3 DEF AllocUntraced, FreeEnter, FreeUnprobed, KernelFree
    <3> QED  BY <1>3, <3>1, <3>2, <3>3 DEF KernelStep
  <2> QED  BY <2>1, <2>2 DEF BufferInv
<1>4. ASSUME NEW f \in Freer, FreeStep(f) PROVE BufferInv'
  BY <1>4, FreeFrame DEF BufferInv
<1>5. CASE ModuleStep
  <2>1. CASE CleanupInstances
    <3>1. UNCHANGED <<phase, stFree>> /\ \A i \in Inst : inst[i].pc # "unwind"
      BY <2>1 DEF CleanupInstances, InHandler, modVars, poolVars
    <3> QED  BY <3>1 DEF BufferInv
  <2>2. CASE InitStPool
    BY <2>2 DEF InitStPool, BufferInv
  <2>3. CASE ExitPools \/ InitLpPool \/ InitStPoolFails
    BY <2>3 DEF ExitPools, InitLpPool, InitStPoolFails, BufferInv
  <2>4. CASE Register \/ RegisterFails \/ Unload \/ UnregisterAlloc \/ UnregisterFree
    BY <2>4 DEF Register, RegisterFails, Unload, UnregisterAlloc, UnregisterFree,
                BufferInv, poolVars
  <2> QED  BY <1>5, <2>1, <2>2, <2>3, <2>4 DEF ModuleStep
<1> QED  BY <1>1, <1>2, <1>3, <1>4, <1>5 DEF Next

\* As many buffers as instances at least, and an instance borrows one at most.
LEMMA BufferLeft ==
  ASSUME TypeInv, ControlInv, BufferInv, NEW i \in Inst, inst[i].pc = "trace"
  PROVE  stFree # {}
<1> SUFFICES ASSUME stFree = {} PROVE FALSE
  OBVIOUS
<1>1. phase \in {"registering", "live", "unloading"}
  BY DEF ControlInv, PhaseInv, TypeInv, TypeOK
<1> DEFINE others == Inst \ {i}
           borrower == [s \in St |-> CHOOSE j \in Inst : inst[j].pc = "unwind" /\ inst[j].st = s]
<1>2. \A s \in St : \E j \in Inst : inst[j].pc = "unwind" /\ inst[j].st = s
  BY <1>1 DEF BufferInv
<1>3. \A s \in St : /\ borrower[s] \in others
                    /\ inst[borrower[s]].st = s
  BY <1>2
<1> HIDE DEF borrower
<1>4. borrower \in [St -> others]
  <2>1. borrower = [s \in St |-> borrower[s]]
    BY DEF borrower
  <2> QED  BY <1>3, <2>1
<1>5. IsFiniteSet(St) /\ IsFiniteSet(Inst) /\ Cardinality(Inst) <= Cardinality(St)
  BY PoolAssumption
<1>6. IsFiniteSet(others) /\ Cardinality(others) = Cardinality(Inst) - 1
  BY <1>5, FS_RemoveElement
<1>7. Cardinality(Inst) \in Nat /\ Cardinality(St) \in Nat
  BY <1>5, FS_CardinalityType
<1>8. Cardinality(others) < Cardinality(St)
  BY <1>5, <1>6, <1>7
<1> HIDE DEF others
<1>9. \E s, t \in St : s # t /\ borrower[s] = borrower[t]
  BY <1>4, <1>5, <1>6, <1>8, FS_PigeonHole
<1> QED  BY <1>3, <1>9

\* get_lp_call_stack always finds a buffer, whatever a free covers.
THEOREM StPoolNeverEmptyCorrect == Spec => []StPoolNeverEmpty
<1>1. Init => BufferInv
  BY DEF Init, BufferInv
<1>2. TypeInv /\ ControlInv /\ BufferInv => StPoolNeverEmpty
  BY BufferLeft DEF StPoolNeverEmpty
<1>3. TypeInv /\ ControlInv /\ BufferInv /\ [Next]_vars => BufferInv'
  BY BufferStep
<1> QED  BY ControlCorrect, <1>1, <1>2, <1>3, PTL DEF Spec

-----------------------------------------------------------------------------
(* Log records: the frames of the pool itself are in no record.              *)

\* The free loop takes pages out of records, and puts none in.
LEMMA FreeShrinks ==
  ASSUME TypeInv, BlockInv, PagesInv, NEW f \in Freer, FreeStep(f),
         NEW m \in tree', NEW q \in Page, In(q, m)'
  PROVE  \E l \in tree : In(q, l)
<1>0. rec \in [Lp -> Record] /\ tree \subseteq Lp /\ q \in Nat
  BY DEF TypeInv, TypeOK, Page
<1>1. CASE FreeUntracked(f) \/ FreeReload(f)
  BY <1>1 DEF FreeUntracked, FreeReload, In
<1>2. CASE FreeHead(f)
  <2>1. PICK l \in find_lp(freer[f].start) :
          /\ freer[f].pc = "loop" /\ tree' = tree
          /\ freer[f].start = rec[l].start_page
          /\ rec' = [rec EXCEPT ![l] = [@ EXCEPT !.start_page = FreeEnd(f)]]
    BY <1>2 DEF FreeHead
  <2>2. l \in Lp /\ rec[l] \in Record /\ FreeEnd(f) \in Nat
        /\ rec[l].start_page \in Nat /\ rec[l].start_page < FreeEnd(f)
    BY <2>1, LoopRecord, LoopFacts
  <2>3. /\ \A x \in Lp \ {l} : rec'[x] = rec[x]
        /\ rec'[l].start_page = FreeEnd(f) /\ rec'[l].end_page = rec[l].end_page
    BY <1>0, <2>1, <2>2 DEF Record
  <2> QED  BY <1>0, <2>1, <2>2, <2>3 DEF In
<1>3. CASE FreeTail(f) \/ FreeTailAndMore(f)
  <2>1. PICK l \in find_lp(freer[f].start) :
          /\ freer[f].pc = "loop" /\ tree' = tree
          /\ rec' = [rec EXCEPT ![l] = [@ EXCEPT !.end_page = freer[f].start]]
    BY <1>3 DEF FreeTail, FreeTailAndMore
  <2>2. l \in Lp /\ rec[l] \in Record /\ rec[l].end_page \in Nat
        /\ freer[f].start \in Nat /\ freer[f].start < rec[l].end_page
    BY <2>1, LoopRecord, LoopFacts
  <2>3. /\ \A x \in Lp \ {l} : rec'[x] = rec[x]
        /\ rec'[l].end_page = freer[f].start /\ rec'[l].start_page = rec[l].start_page
    BY <1>0, <2>1, <2>2 DEF Record
  <2> QED  BY <1>0, <2>1, <2>2, <2>3 DEF In
<1>4. CASE FreeWhole(f) \/ FreeWholeAndMore(f)
  <2>1. PICK l \in find_lp(freer[f].start) :
          tree' = tree \ {l} /\ (rec' = rec \/ rec' = [rec EXCEPT ![l] = Blank])
    BY <1>4 DEF FreeWhole, FreeWholeAndMore
  <2>2. m \in tree /\ rec'[m] = rec[m]
    BY <1>0, <2>1
  <2> QED  BY <2>2 DEF In
<1>5. CASE FreeMiddle(f)
  <2>1. PICK l \in find_lp(freer[f].start), n \in lpFree :
          /\ freer[f].pc = "loop" /\ tree' = tree \cup {n}
          /\ freer[f].start > rec[l].start_page
          /\ FreeEnd(f) < rec[l].end_page
          /\ rec' = [rec EXCEPT ![n] = [rec[l] EXCEPT !.start_page = FreeEnd(f)],
                                ![l] = [rec[l] EXCEPT !.end_page = freer[f].start]]
    BY <1>5 DEF FreeMiddle
  <2>2. /\ l \in tree /\ l \in Lp /\ rec[l] \in Record
        /\ rec[l].start_page \in Nat /\ rec[l].end_page \in Nat
        /\ freer[f].start \in Nat /\ FreeEnd(f) \in Nat /\ freer[f].start < FreeEnd(f)
    BY <2>1, LoopRecord, LoopFacts
  <2>3. /\ \A x \in Lp \ {l, n} : rec'[x] = rec[x]
        /\ rec'[l].start_page = rec[l].start_page /\ rec'[l].end_page = freer[f].start
        /\ n # l => rec'[n].start_page = FreeEnd(f) /\ rec'[n].end_page = rec[l].end_page
    BY <1>0, <2>1, <2>2 DEF Record, TypeInv, TypeOK
  <2>4. CASE m = l \/ m = n
    <3>1. In(q, l)
      BY <1>0, <2>1, <2>2, <2>3, <2>4 DEF In
    <3> QED  BY <2>2, <3>1
  <2>5. CASE m # l /\ m # n
    <3>1. m \in tree /\ rec'[m] = rec[m]
      BY <1>0, <2>1, <2>3, <2>5
    <3> QED  BY <3>1 DEF In
  <2> QED  BY <2>4, <2>5
<1> QED  BY <1>1, <1>2, <1>3, <1>4, <1>5 DEF FreeStep

\* A step that puts no frame of the pool into a block or a record.
LEMMA ReservedFrame ==
  ASSUME ReservedInv,
         \A q \in Reserved :
           /\ q \in busy' /\ owner'[q] = owner[q]
           /\ \A i \in Inst : Pending(i)' /\ InGrant(q, i)' => Pending(i) /\ InGrant(q, i)
           /\ \A f \in Freer : freer'[f].pc # "idle" /\ InFreed(q, f)' =>
                freer[f].pc # "idle" /\ InFreed(q, f)
           /\ \A m \in tree' : In(q, m)' => \E l \in tree : In(q, l)
  PROVE  ReservedInv'
BY DEF ReservedInv

LEMMA ReservedAllocHandler ==
  ASSUME TypeInv, ControlInv, BlockInv, ReservedInv, NEW i \in Inst,
         AllocHandlerStep(i)
  PROVE  ReservedInv'
<1>0. Reserved \subseteq Page
  BY PageAssumption
<1>1. UNCHANGED <<freer, busy>>
  BY AllocFrame
<1>2. /\ inst[i].lp \in Lp /\ inst[i].lp \notin tree /\ inst[i] \in Instance
      /\ inst \in [Inst -> Instance] /\ tree \subseteq Lp /\ rec \in [Lp -> Record]
      /\ \A j \in Inst \ {i} : inst'[j] = inst[j]
  BY AllocMoves, NoneAssumption
     DEF TypeInv, TypeOK, InstOK, ControlInv, RecordsAccounted, HeldBy
<1>3. CASE ~RetInsert(i)
  <2>1. tree' = tree /\ UNCHANGED owner
    BY <1>3 DEF AllocHandlerStep, EntryAllocSt, EntryTrace, RetFreeLp, RetSetExtent,
       kernelVars
  <2>2. \A l \in tree : rec'[l] = rec[l]
    BY <1>2, <1>3 DEF AllocHandlerStep, EntryAllocSt, EntryTrace, RetFreeLp, RetSetExtent
  <2>3. Pending(i)' => /\ Pending(i) /\ inst'[i].page = inst[i].page
                       /\ inst'[i].order = inst[i].order
    <3>1. CASE EntryAllocSt(i)
      BY <1>2, <3>1 DEF EntryAllocSt, Pending, Granted, Instance
    <3>2. CASE EntryTrace(i)
      BY <1>2, <3>2 DEF EntryTrace, Pending, Granted, Instance
    <3>3. CASE RetFreeLp(i)
      BY <1>2, <3>3 DEF RetFreeLp, Pending, Granted, Idle
    <3>4. CASE RetSetExtent(i)
      BY <1>2, <3>4 DEF RetSetExtent, Pending, Granted, Instance
    <3> QED  BY <1>3, <3>1, <3>2, <3>3, <3>4 DEF AllocHandlerStep
  <2>4. \A q \in Reserved : q \in busy' /\ owner'[q] = owner[q]
    BY <1>1, <2>1 DEF ReservedInv
  <2>5. \A q \in Reserved, j \in Inst :
          Pending(j)' /\ InGrant(q, j)' => Pending(j) /\ InGrant(q, j)
    BY <1>2, <2>3 DEF Pending, InGrant
  <2>6. \A q \in Reserved, f \in Freer : freer'[f].pc # "idle" /\ InFreed(q, f)' =>
          freer[f].pc # "idle" /\ InFreed(q, f)
    BY <1>1 DEF InFreed
  <2>7. \A q \in Reserved : \A m \in tree' : In(q, m)' => \E l \in tree : In(q, l)
    BY <2>1, <2>2 DEF In
  <2> QED  BY <2>4, <2>5, <2>6, <2>7, ReservedFrame
<1>4. CASE RetInsert(i)
  <2>1. /\ tree' = tree \cup {inst[i].lp} /\ rec' = rec
        /\ inst'[i].pc = "idle" /\ inst[i].pc = "insert"
        /\ inst[i].page \in Nat /\ inst[i].order \in Orders
        /\ \A q \in Page : owner'[q] = owner[q] \/ q \in Span(inst[i].page, inst[i].order)
    BY <1>2, <1>4 DEF RetInsert, Idle, Instance, Page, Null, TypeInv, InstOK, Running
  <2>2. Pending(i)
    BY <2>1, <1>4 DEF RetInsert, Pending, Granted, TypeInv, InstOK, Page, Null
  <2>3. \A q \in Page : /\ q \in Span(inst[i].page, inst[i].order) <=> InGrant(q, i)
                        /\ In(q, inst[i].lp) => InGrant(q, i)
    BY <2>1, SpanBlk DEF InGrant, In, Blk, BlockInv, CallInv
  <2>4. \A q \in Reserved : q \in busy' /\ owner'[q] = owner[q]
    BY <1>0, <1>1, <2>1, <2>2, <2>3 DEF ReservedInv
  <2>5. \A q \in Reserved, j \in Inst :
          Pending(j)' /\ InGrant(q, j)' => Pending(j) /\ InGrant(q, j)
    BY <1>2, <2>1 DEF Pending, InGrant, Granted
  <2>6. \A q \in Reserved, f \in Freer : freer'[f].pc # "idle" /\ InFreed(q, f)' =>
          freer[f].pc # "idle" /\ InFreed(q, f)
    BY <1>1 DEF InFreed
  <2>7. \A q \in Reserved : \A m \in tree' : In(q, m)' => \E l \in tree : In(q, l)
    BY <1>0, <2>1, <2>2, <2>3 DEF In, ReservedInv
  <2> QED  BY <2>4, <2>5, <2>6, <2>7, ReservedFrame
<1> QED  BY <1>3, <1>4

LEMMA ReservedKernel ==
  ASSUME TypeInv, BlockInv, ReservedInv, KernelStep
  PROVE  ReservedInv'
<1> USE DEF InGrant, InFreed
<1>0. /\ Reserved \subseteq Page /\ \A q \in Reserved : q \in busy /\ owner[q] = None
      /\ inst \in [Inst -> Instance] /\ freer \in [Freer -> Free]
  BY PageAssumption DEF ReservedInv, TypeInv, TypeOK
<1>1. ASSUME NEW i \in Inst, NEW k \in Orders, NEW c \in Caller, EntryAllocLp(i, k, c)
      PROVE  ReservedInv'
  <2>1. PICK l \in lpFree :
          /\ rec' = [rec EXCEPT ![l] = [Blank EXCEPT !.order = k]]
          /\ inst' = [inst EXCEPT ![i] = [Idle EXCEPT !.pc = "trace",
                         !.order = k, !.caller = c, !.lp = l]]
    BY <1>1 DEF EntryAllocLp
  <2>6. inst'[i].pc = "trace" /\ \A j \in Inst \ {i} : inst'[j] = inst[j]
    BY <1>0, <2>1 DEF Idle
  <2>2. UNCHANGED <<tree, freer, busy, owner>>
    BY <1>1 DEF EntryAllocLp, kernelVars
  <2>3. \A m \in tree : rec'[m] = rec[m] \/ rec'[m] = [Blank EXCEPT !.order = k]
    BY <2>1 DEF TypeInv, TypeOK
  <2>4. \A q \in Reserved : \A m \in tree' : In(q, m)' => \E l2 \in tree : In(q, l2)
    <3>1. \A q \in Page, m \in tree : In(q, m)' => rec'[m] # [Blank EXCEPT !.order = k]
      BY DEF In, Blank, Null, Page
    <3> QED  BY <1>0, <2>2, <2>3, <3>1 DEF In
  <2>5. \A j \in Inst : Pending(j)' => Pending(j) /\ inst'[j] = inst[j]
    BY <2>6 DEF Pending, Granted
  <2> QED  BY <1>0, <2>2, <2>4, <2>5, ReservedFrame
<1>2. ASSUME NEW i \in Inst, NEW p \in Page, KernelAlloc(i, p) PROVE ReservedInv'
  <2>1. /\ UNCHANGED <<tree, rec, freer, owner>> /\ busy \subseteq busy'
        /\ Span(p, inst[i].order) \cap busy = {}
        /\ inst'[i].page = p /\ inst'[i].order = inst[i].order
        /\ \A j \in Inst \ {i} : inst'[j] = inst[j]
        /\ p \in Nat /\ inst[i].order \in Orders \cup {0}
    BY <1>0, <1>2 DEF KernelAlloc, Instance, Page
  <2>2. \A q \in Reserved : ~InGrant(q, i)'
    BY <1>0, <2>1, SpanBlk
  <2>3. \A q \in Reserved, j \in Inst :
          Pending(j)' /\ InGrant(q, j)' => Pending(j) /\ InGrant(q, j)
    BY <2>1, <2>2 DEF Pending
  <2>4. \A q \in Reserved : \A m \in tree' : In(q, m)' => \E l \in tree : In(q, l)
    BY <2>1 DEF In
  <2> QED  BY <1>0, <2>1, <2>3, <2>4, ReservedFrame
<1>3. ASSUME NEW i \in Inst, KernelAllocFails(i) PROVE ReservedInv'
  <2>1. /\ UNCHANGED <<tree, rec, freer, owner, busy>>
        /\ inst[i].pc = "called" /\ inst'[i].page = inst[i].page
        /\ \A j \in Inst \ {i} : inst'[j] = inst[j]
    BY <1>0, <1>3 DEF KernelAllocFails, kernelVars, Instance
  <2>2. inst[i].page = Null
    BY <2>1 DEF BlockInv, CallInv, Running, Granted
  <2>3. \A j \in Inst : Pending(j)' => Pending(j) /\ inst'[j] = inst[j]
    BY <2>1, <2>2 DEF Pending
  <2>4. \A q \in Reserved : \A m \in tree' : In(q, m)' => \E l \in tree : In(q, l)
    BY <2>1 DEF In
  <2> QED  BY <1>0, <2>1, <2>3, <2>4, ReservedFrame
<1>4. ASSUME NEW p \in Page, NEW k \in Orders, AllocUntraced(p, k) PROVE ReservedInv'
  <2>1. /\ UNCHANGED <<tree, rec, freer, inst>> /\ busy \subseteq busy'
        /\ \A q \in Page \ Span(p, k) : owner'[q] = owner[q]
        /\ Span(p, k) \cap busy = {}
    BY <1>4 DEF AllocUntraced
  <2>2. \A q \in Reserved : q \in busy' /\ owner'[q] = owner[q]
    BY <1>0, <2>1
  <2>3. \A q \in Reserved : \A m \in tree' : In(q, m)' => \E l \in tree : In(q, l)
    BY <2>1 DEF In
  <2> QED  BY <2>1, <2>2, <2>3, ReservedFrame DEF Pending
<1>5. ASSUME NEW f \in Freer, NEW p \in Page, NEW k \in Orders, NEW fn \in FreeProbe,
             FreeEnter(f, p, k, fn) \/ FreeUnprobed(f, p, k, fn)
      PROVE  ReservedInv'
  <2>1. /\ UNCHANGED <<tree, rec, inst, busy>>
        /\ \A q \in Page : owner'[q] = IF q \in Span(p, k) THEN None ELSE owner[q]
        /\ \A q \in Span(p, k) : owner[q] # None
        /\ freer'[f].page = p /\ freer'[f].order = k
        /\ \A g \in Freer \ {f} : freer'[g] = freer[g]
    <3>1. CASE FreeEnter(f, p, k, fn)
      BY <1>0, <3>1 DEF FreeEnter, Freeable, GiveUp
    <3>2. CASE FreeUnprobed(f, p, k, fn)
      BY <1>0, <3>2 DEF FreeUnprobed, Freeable, GiveUp
    <3> QED  BY <1>5, <3>1, <3>2
  <2>2. \A q \in Reserved : ~InFreed(q, f)'
    <3>1. p \in Nat
      BY DEF Page
    <3> QED  BY <1>0, <2>1, <3>1, SpanBlk
  <2>3. \A q \in Reserved : \A m \in tree' : In(q, m)' => \E l \in tree : In(q, l)
    BY <2>1 DEF In
  <2>4. \A q \in Reserved : q \in busy' /\ owner'[q] = owner[q]
    BY <1>0, <2>1
  <2> QED  BY <2>1, <2>2, <2>3, <2>4, ReservedFrame DEF Pending
<1>6. ASSUME NEW f \in Freer, KernelFree(f) PROVE ReservedInv'
  <2>1. /\ UNCHANGED <<tree, rec, inst, owner>>
        /\ busy' = busy \ Span(freer[f].page, freer[f].order)
        /\ freer[f].pc = "release" /\ freer'[f].pc = "idle"
        /\ \A g \in Freer \ {f} : freer'[g] = freer[g]
        /\ freer[f].page \in Nat /\ freer[f].order \in Orders
    BY <1>0, <1>6, RecTypes DEF KernelFree, Done, Page
  <2>2. \A q \in Reserved : q \in busy'
    BY <1>0, <2>1, SpanBlk DEF ReservedInv
  <2>3. \A q \in Reserved : \A m \in tree' : In(q, m)' => \E l \in tree : In(q, l)
    BY <2>1 DEF In
  <2> QED  BY <2>1, <2>2, <2>3, ReservedFrame DEF Pending
<1> QED  BY <1>1, <1>2, <1>3, <1>4, <1>5, <1>6 DEF KernelStep

LEMMA ReservedModule ==
  ASSUME TypeInv, ReservedInv, ModuleStep
  PROVE  ReservedInv'
<1>0. UNCHANGED <<freer, busy>>
  BY ModuleFrame
<1>1. CASE CleanupInstances
  <2>1. /\ UNCHANGED <<tree, rec>>
        /\ \A i \in Inst : inst'[i].pc \in {"idle", "orphan"}
        /\ \A q \in Page : owner'[q] = owner[q] \/ \E i \in Inst :
             inst[i].pc = "returned" /\ inst[i].page # Null
             /\ q \in Span(inst[i].page, inst[i].order)
    BY <1>1 DEF CleanupInstances, TypeInv, TypeOK, Instance
  <2>2. \A q \in Reserved : owner'[q] = owner[q]
    <3> SUFFICES ASSUME NEW q \in Reserved, owner'[q] # owner[q] PROVE FALSE
      OBVIOUS
    <3>1. q \in Page
      BY PageAssumption
    <3>2. PICK i \in Inst : inst[i].pc = "returned" /\ inst[i].page # Null
                             /\ q \in Span(inst[i].page, inst[i].order)
      BY <2>1, <3>1
    <3>3. inst[i].page \in Nat /\ inst[i].order \in Orders \cup {0}
      BY DEF TypeInv, TypeOK, Instance, Page, Null
    <3>4. Pending(i) /\ InGrant(q, i)
      BY <3>1, <3>2, <3>3, SpanBlk DEF Pending, Granted, InGrant
    <3> QED  BY <3>4 DEF ReservedInv
  <2> QED  BY <1>0, <2>1, <2>2
           DEF ReservedInv, Pending, Granted, InFreed, In
<1>2. CASE ExitPools
  <2>1. /\ tree' = {} /\ \A i \in Inst : inst'[i].pc = "idle"
        /\ \A q \in Page : owner[q] = None => owner'[q] = None
    BY <1>2 DEF ExitPools, Idle
  <2> QED  BY <1>0, <2>1, PageAssumption
           DEF ReservedInv, Pending, Granted, InFreed, In
<1>3. CASE \/ InitLpPool \/ InitStPool \/ InitStPoolFails \/ Register
           \/ RegisterFails \/ Unload \/ UnregisterAlloc \/ UnregisterFree
  <2>1. UNCHANGED <<tree, rec, inst, owner>>
    BY <1>3 DEF InitLpPool, InitStPool, InitStPoolFails, Register, RegisterFails,
       Unload, UnregisterAlloc, UnregisterFree, kernelVars
  <2> QED  BY <1>0, <2>1 DEF ReservedInv, Pending, InGrant, InFreed, In
<1> QED  BY <1>1, <1>2, <1>3 DEF ModuleStep

LEMMA ReservedStep ==
  ASSUME TypeInv, ControlInv, BlockInv, RecInv, ReservedInv, [Next]_vars
  PROVE  ReservedInv'
<1>1. CASE UNCHANGED vars
  BY <1>1 DEF ReservedInv, Pending, InGrant, InFreed, In, vars
<1>2. ASSUME NEW f \in Freer, FreeStep(f) PROVE ReservedInv'
  <2>1. UNCHANGED <<inst, busy, owner>>
    BY <1>2, FreeFrame
  <2>2. /\ \A g \in Freer \ {f} : freer'[g] = freer[g]
        /\ freer[f].pc # "idle"
        /\ freer'[f].page = freer[f].page /\ freer'[f].order = freer[f].order
    BY <1>2, FreeMoves
  <2>3. PagesInv /\ Reserved \subseteq Page
    BY PageAssumption DEF RecInv, PagesInv
  <2>4. \A q \in Reserved : \A m \in tree' : In(q, m)' => \E l \in tree : In(q, l)
    BY <1>2, <2>3, FreeShrinks
  <2>5. \A q \in Reserved : q \in busy' /\ owner'[q] = owner[q]
    BY <2>1 DEF ReservedInv
  <2> QED  BY <2>1, <2>2, <2>4, <2>5, ReservedFrame DEF Pending, InGrant, InFreed
<1> QED  BY <1>1, <1>2, ReservedAllocHandler, ReservedKernel, ReservedModule DEF Next

\* Every instance can be given a frame of the pool of its own.
LEMMA InstFrames ==
  \E g \in [Inst -> Reserved] : \A i, j \in Inst : g[i] = g[j] => i = j
<1> DEFINE n == Cardinality(Inst)
           r == Cardinality(Reserved)
<1>1. IsFiniteSet(Page)
  BY PageAssumption, FS_Interval DEF Page
<1>2. IsFiniteSet(Reserved) /\ IsFiniteSet(Inst) /\ n <= r
  BY <1>1, PageAssumption, PoolAssumption, FS_Subset
<1>3. /\ n \in Nat /\ ExistsBijection(1..n, Inst)
      /\ r \in Nat /\ ExistsBijection(1..r, Reserved)
  BY <1>2, FS_CardinalityType
<1>4. PICK a \in [1..n -> Inst] : \A i \in Inst : \E x \in 1..n : a[x] = i
  BY <1>3 DEF ExistsBijection, Bijection, Surjection, Injection
<1>5. PICK b \in [1..r -> Reserved] : \A x, y \in 1..r : b[x] = b[y] => x = y
  BY <1>3 DEF ExistsBijection, Bijection, Injection, IsInjective
<1> DEFINE index == [i \in Inst |-> CHOOSE x \in 1..n : a[x] = i]
           g == [i \in Inst |-> b[index[i]]]
<1>6. \A i \in Inst : index[i] \in 1..r /\ a[index[i]] = i
  BY <1>2, <1>3, <1>4
<1> HIDE DEF index
<1>7. g \in [Inst -> Reserved]
  BY <1>5, <1>6
<1>8. \A i, j \in Inst : g[i] = g[j] => i = j
  BY <1>5, <1>6
<1> QED  BY <1>7, <1>8

\* A page per record, another for each: the first page of a linked record, and
\* a frame of the pool for the record of an instance.  If a page is left over
\* then a record is free.
LEMMA RecordLeft ==
  ASSUME TypeInv, ControlInv, RecInv, ReservedInv, phase # "unloaded",
         NEW g \in [Inst -> Reserved], \A i, j \in Inst : g[i] = g[j] => i = j,
         NEW spare \in Page,
         \A l \in tree : rec[l].start_page # spare,
         \A i \in Inst : inst[i].lp # None => g[i] # spare
  PROVE  lpFree # {}
<1> SUFFICES ASSUME lpFree = {} PROVE FALSE
  OBVIOUS
<1> DEFINE holder == [l \in Lp |-> CHOOSE i \in Inst : inst[i].lp = l]
           page == [l \in Lp |-> IF l \in tree THEN rec[l].start_page
                                  ELSE g[holder[l]]]
           others == Page \ {spare}
<1>1. \A l \in Lp \ tree : \E i \in Inst : inst[i].lp = l
  BY DEF ControlInv, RecordsAccounted, HeldBy
<1>2. \A l \in Lp \ tree : holder[l] \in Inst /\ inst[holder[l]].lp = l
  BY <1>1
<1> HIDE DEF holder
<1>3. \A l \in tree : rec[l].start_page \in Page /\ rec[l].start_page \notin Reserved
  <2> SUFFICES ASSUME NEW l \in tree
               PROVE  rec[l].start_page \in Page /\ rec[l].start_page \notin Reserved
    OBVIOUS
  <2>1. rec[l].start_page \in Page /\ In(rec[l].start_page, l)
    BY RecTypes, PageAssumption DEF RecInv, ShapeInv, In, Page
  <2> QED  BY <2>1 DEF ReservedInv
<1>4. \A l \in Lp \ tree : g[holder[l]] \in Reserved /\ g[holder[l]] # spare
  BY <1>2, NoneAssumption
<1>5. page \in [Lp -> others]
  BY <1>3, <1>4, PageAssumption
<1>6. \A l, m \in Lp : page[l] = page[m] => l = m
  <2> SUFFICES ASSUME NEW l \in Lp, NEW m \in Lp, page[l] = page[m] PROVE l = m
    OBVIOUS
  <2>1. CASE l \in tree /\ m \in tree
    <3>1. rec[l].start_page = rec[m].start_page
      BY <2>1
    <3>2. In(rec[l].start_page, l) /\ In(rec[l].start_page, m)
      BY <2>1, <3>1, RecTypes DEF RecInv, ShapeInv, In
    <3> QED  BY <1>3, <2>1, <3>2 DEF RecInv, ShapeInv
  <2>2. CASE l \notin tree /\ m \notin tree
    BY <1>2, <2>2
  <2>3. CASE (l \in tree) # (m \in tree)
    BY <1>3, <1>4, <2>3
  <2> QED  BY <2>1, <2>2, <2>3
<1>7. IsFiniteSet(Page) /\ Cardinality(Page) = NrPages /\ NrPages \in Nat
  BY PageAssumption, FS_Interval DEF Page
<1>8. IsFiniteSet(others) /\ Cardinality(others) = NrPages - 1
  BY <1>7, FS_RemoveElement
<1>9. IsFiniteSet(Lp) /\ Cardinality(Lp) = NrPages
  BY PoolAssumption
<1> HIDE DEF page, others
<1>10. Cardinality(others) < Cardinality(Lp)
  BY <1>7, <1>8, <1>9
<1>11. \E l, m \in Lp : l # m /\ page[l] = page[m]
  BY <1>5, <1>8, <1>9, <1>10, FS_PigeonHole
<1> QED  BY <1>6, <1>11

\* An idle instance leaves its frame over; a split, the page at its cursor.
LEMMA RecordForAll ==
  ASSUME TypeInv, ControlInv, BlockInv, RecInv, ReservedInv
  PROVE  LpPoolNeverEmpty
<1>1. PICK g \in [Inst -> Reserved] : \A i, j \in Inst : g[i] = g[j] => i = j
  BY InstFrames
<1>2. ASSUME "alloc_pages_nodemask" \in probes, NEW i \in Inst, inst[i].pc = "idle"
      PROVE  lpFree # {}
  <2>1. phase # "unloaded" /\ g[i] \in Reserved /\ g[i] \in Page
    BY <1>2, PageAssumption DEF ControlInv, PhaseInv
  <2>2. \A l \in tree : rec[l].start_page # g[i]
    BY <2>1, RecTypes DEF ReservedInv, RecInv, ShapeInv, In
  <2>3. \A j \in Inst : inst[j].lp # None => g[j] # g[i]
    BY <1>1, <1>2 DEF ControlInv, IdleInv
  <2> QED  BY <1>1, <2>1, <2>2, <2>3, RecordLeft
<1>3. ASSUME NEW f \in Freer, Splits(f) PROVE lpFree # {}
  <2> DEFINE s == freer[f].start
  <2>1. PICK l \in find_lp(s) : s > rec[l].start_page
    BY <1>3 DEF Splits
  <2>2. /\ freer[f].pc = "loop" /\ PagesInv /\ phase # "unloaded"
    BY <1>3 DEF Splits, RecInv, PagesInv, ControlInv, PhaseInv
  <2>3. /\ s \in Page /\ InFreed(s, f)
        /\ l \in tree /\ In(s, l) /\ rec[l].start_page # s
    BY <2>1, <2>2, LoopFacts, LoopRecord DEF InFreed, Blk, FreeEnd, In
  <2>4. s \notin Reserved
    BY <2>2, <2>3 DEF ReservedInv
  <2>5. \A m \in tree : rec[m].start_page # s
    BY <2>3, RecTypes DEF RecInv, ShapeInv, In
  <2> QED  BY <1>1, <2>2, <2>3, <2>4, <2>5, RecordLeft
<1> QED  BY <1>2, <1>3 DEF LpPoolNeverEmpty

\* __alloc_lp always finds a record, for a traced call and for a split: one
\* record per frame is enough, because the pool's own frames need none.
THEOREM LpPoolNeverEmptyCorrect == ASSUME Orderly PROVE Spec => []LpPoolNeverEmpty
<1>1. Init => ReservedInv
  BY PageAssumption DEF Init, ReservedInv, Pending, Granted, Idle, Done
<1>2. TypeInv /\ ControlInv /\ BlockInv /\ RecInv /\ ReservedInv => LpPoolNeverEmpty
  BY RecordForAll
<1>3. TypeInv /\ ControlInv /\ BlockInv /\ RecInv /\ ReservedInv /\ [Next]_vars
        => ReservedInv'
  BY ReservedStep
<1> QED  BY Invariance, <1>1, <1>2, <1>3, PTL DEF Spec
=============================================================================
