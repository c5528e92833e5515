---------------------------- MODULE LogPageProofs ----------------------------
(***************************************************************************)
(* Proofs about LogPage, for every number of pages, instances, contexts,   *)
(* call traces and processors.                                             *)
(***************************************************************************)
EXTENDS LogPageInv, TLAPS

-----------------------------------------------------------------------------
(* Types.  TypeOK is not inductive: what a handler does with its locals      *)
(* depends on the step it has reached.                                       *)

InstOK(v) ==
  /\ v \in Instance
  /\ v.pc \in Running \cup {"orphan"} => v.lp \in Lp /\ v.order \in Orders
  /\ v.pc \in Running => v.caller \in Caller
  /\ v.pc = "unwind" => v.st \in St
  /\ v.pc = "insert" => v.page \in Page

FreeOK(v) ==
  /\ v \in Free
  /\ v.pc = "reload" => v.lp \in Lp
  /\ v.pc # "idle" => v.page \in Page /\ v.order \in Orders

TypeInv ==
  /\ TypeOK
  /\ \A i \in Inst : InstOK(inst[i])
  /\ \A f \in Freer : FreeOK(freer[f])

\* A block ends after it begins, at an address.
LEMMA EndType ==
  ASSUME NEW p \in Nat, NEW k \in Orders \cup {0}
  PROVE  End(p, k) \in Nat /\ End(p, k) > p
BY PageAssumption DEF End

\* One instance, context or record gets a new value of its type.
LEMMA InstUpdate ==
  ASSUME TypeInv, NEW i \in Inst, NEW v, InstOK(v),
         inst' = [inst EXCEPT ![i] = v]
  PROVE  inst' \in [Inst -> Instance] /\ \A j \in Inst : InstOK(inst'[j])
BY DEF TypeInv, TypeOK, InstOK

LEMMA FreerUpdate ==
  ASSUME TypeInv, NEW f \in Freer, NEW v, FreeOK(v),
         freer' = [freer EXCEPT ![f] = v]
  PROVE  freer' \in [Freer -> Free] /\ \A g \in Freer : FreeOK(freer'[g])
BY DEF TypeInv, TypeOK, FreeOK

LEMMA RecUpdate ==
  ASSUME TypeInv, NEW l \in Lp, NEW v \in Record, rec' = [rec EXCEPT ![l] = v]
  PROVE  rec' \in [Lp -> Record]
BY DEF TypeInv, TypeOK

\* CheckBreak keeps the types of what it writes.
LEMMA CheckBreakType ==
  ASSUME TypeInv, NEW f \in Freer, NEW s \in Nat, CheckBreak(f, s),
         freer[f].pc # "idle"
  PROVE  /\ lpLock' \in Freer \cup {None}
         /\ freer' \in [Freer -> Free]
         /\ \A g \in Freer : FreeOK(freer'[g])
<1> DEFINE new(pc) == [freer[f] EXCEPT !.pc = pc, !.start = s, !.lp = None]
<1>1. /\ FreeOK(freer[f])
      /\ \/ freer' = [freer EXCEPT ![f] = new("release")]
         \/ freer' = [freer EXCEPT ![f] = new("loop")]
  BY DEF TypeInv, CheckBreak
<1>2. \A pc \in {"loop", "release"} : FreeOK(new(pc))
  BY <1>1 DEF FreeOK, Free
<1>3. lpLock' \in Freer \cup {None}
  BY DEF TypeInv, TypeOK, CheckBreak
<1> HIDE DEF new
<1> QED  BY <1>1, <1>2, <1>3, FreerUpdate

LEMMA TypeInit == Init => TypeInv
<1> SUFFICES ASSUME Init PROVE TypeInv
  OBVIOUS
<1>1. Blank \in Record
  BY DEF Blank, Record, Null
<1>2. InstOK(Idle)
  BY DEF InstOK, Instance, Idle, Running, Null
<1>3. FreeOK(Done)
  BY DEF FreeOK, Free, Done, Null
<1>4. /\ rec \in [Lp -> Record]
      /\ inst \in [Inst -> Instance] /\ \A i \in Inst : InstOK(inst[i])
      /\ freer \in [Freer -> Free] /\ \A f \in Freer : FreeOK(freer[f])
  BY <1>1, <1>2, <1>3 DEF Init, InstOK, FreeOK
<1>5. busy \subseteq Page /\ owner \in [Page -> Allocation \cup {None}]
  BY PageAssumption DEF Init
<1> QED  BY <1>4, <1>5 DEF Init, TypeInv, TypeOK

LEMMA TypeAllocHandler ==
  ASSUME TypeInv, NEW i \in Inst, AllocHandlerStep(i)
  PROVE  TypeInv'
<1> DEFINE v == inst[i]
           l == inst[i].lp
<1>0. /\ InstOK(v)
      /\ v.pc \in Running => l \in Lp /\ rec[l] \in Record
  BY DEF TypeInv, TypeOK, InstOK
<1>1. CASE EntryAllocSt(i)
  <2>1. PICK s \in stFree :
          /\ stFree' = stFree \ {s}
          /\ inst' = [inst EXCEPT ![i] = [v EXCEPT !.pc = "unwind", !.st = s]]
    BY <1>1 DEF EntryAllocSt
  <2>2. InstOK([v EXCEPT !.pc = "unwind", !.st = s])
    BY <1>0, <1>1, <2>1 DEF EntryAllocSt, InstOK, Instance, Running, TypeInv, TypeOK
  <2>3. inst' \in [Inst -> Instance] /\ \A j \in Inst : InstOK(inst'[j])
    BY <2>1, <2>2, InstUpdate
  <2> QED  BY <1>1, <2>1, <2>3 DEF EntryAllocSt, TypeInv, TypeOK, modVars, kernelVars
<1>2. CASE EntryTrace(i)
  <2>1. InstOK([v EXCEPT !.pc = "called", !.st = None])
    BY <1>0, <1>2 DEF EntryTrace, InstOK, Instance, Running
  <2>2. [rec[l] EXCEPT !.entries = v.caller] \in Record
    BY <1>0, <1>2 DEF EntryTrace, InstOK, Instance, Record, Running
  <2>3. inst' \in [Inst -> Instance] /\ \A j \in Inst : InstOK(inst'[j])
    BY <1>2, <2>1, InstUpdate DEF EntryTrace
  <2>4. rec' \in [Lp -> Record]
    BY <1>0, <1>2, <2>2, RecUpdate DEF EntryTrace, Running
  <2>5. stFree' \subseteq St
    BY <1>0, <1>2 DEF EntryTrace, InstOK, TypeInv, TypeOK
  <2> QED  BY <1>2, <2>3, <2>4, <2>5 DEF EntryTrace, TypeInv, TypeOK, modVars, kernelVars
<1>3. CASE RetFreeLp(i)
  <2>1. InstOK(Idle) /\ Blank \in Record
    BY DEF InstOK, Instance, Idle, Running, Null, Blank, Record
  <2>2. inst' \in [Inst -> Instance] /\ \A j \in Inst : InstOK(inst'[j])
    BY <1>3, <2>1, InstUpdate DEF RetFreeLp
  <2>3. l \in Lp /\ rec' \in [Lp -> Record]
    BY <1>0, <1>3, <2>1, RecUpdate DEF RetFreeLp, Running
  <2> QED  BY <1>3, <2>2, <2>3 DEF RetFreeLp, TypeInv, TypeOK, modVars, kernelVars
<1>4. CASE RetSetExtent(i)
  <2> DEFINE r == [rec[l] EXCEPT !.start_page = v.page,
                                 !.end_page = End(v.page, rec[l].order)]
  <2>1. v.page \in Page /\ v.page \in Nat /\ l \in Lp
    BY <1>0, <1>4 DEF RetSetExtent, InstOK, Instance, Running, Page
  <2>2. InstOK([v EXCEPT !.pc = "insert"])
    BY <1>0, <1>4, <2>1 DEF RetSetExtent, InstOK, Instance, Running
  <2>3. r \in Record
    BY <1>0, <1>4, <2>1, EndType DEF RetSetExtent, Record, Running
  <2>4. inst' \in [Inst -> Instance] /\ \A j \in Inst : InstOK(inst'[j])
    BY <1>4, <2>2, InstUpdate DEF RetSetExtent
  <2>5. rec' = [rec EXCEPT ![l] = r]
    BY <1>4 DEF RetSetExtent
  <2> HIDE DEF r
  <2>6. rec' \in [Lp -> Record]
    BY <2>1, <2>3, <2>5, RecUpdate
  <2> QED  BY <1>4, <2>4, <2>6 DEF RetSetExtent, TypeInv, TypeOK, modVars, poolVars, kernelVars
<1>5. CASE RetInsert(i)
  <2>1. InstOK(Idle)
    BY DEF InstOK, Instance, Idle, Running, Null
  <2>2. inst' \in [Inst -> Instance] /\ \A j \in Inst : InstOK(inst'[j])
    BY <1>5, <2>1, InstUpdate DEF RetInsert
  <2>3. l \in Lp /\ [page |-> v.page, order |-> v.order, by |-> v.caller] \in Allocation
    BY <1>0, <1>5 DEF RetInsert, InstOK, Running, Allocation
  <2>4. owner' \in [Page -> Allocation \cup {None}]
    BY <1>5, <2>3 DEF RetInsert, TypeInv, TypeOK
  <2> QED  BY <1>5, <2>2, <2>3, <2>4 DEF RetInsert, TypeInv, TypeOK, modVars, poolVars
<1> QED  BY <1>1, <1>2, <1>3, <1>4, <1>5 DEF AllocHandlerStep
LEMMA TypeFree ==
  ASSUME TypeInv, NEW f \in Freer, FreeStep(f)
  PROVE  TypeInv'
<1> DEFINE v == freer[f]
<1>0. /\ v \in Free /\ FreeOK(v) /\ v.start \in Nat
      /\ v.pc # "idle" => FreeEnd(f) \in Nat
      /\ \A l \in Lp : /\ rec[l] \in Record
                       /\ rec[l].start_page \in Nat /\ rec[l].end_page \in Nat
      /\ find_lp(v.start) \subseteq Lp
  BY EndType DEF TypeInv, TypeOK, FreeOK, Free, FreeEnd, Page, Record, find_lp
<1>a. ASSUME NEW s \in Nat, CheckBreak(f, s), v.pc = "loop",
             rec' \in [Lp -> Record], tree' \subseteq Lp, lpFree' \subseteq Lp,
             UNCHANGED <<modVars, stFree, inst, kernelVars>>
      PROVE  TypeInv'
  BY <1>a, CheckBreakType DEF TypeInv, TypeOK, modVars, kernelVars
<1>1. CASE FreeUntracked(f)
  <2>1. v.start + 1 \in Nat
    BY <1>0
  <2> QED  BY <1>1, <2>1, <1>a DEF FreeUntracked, TypeInv, TypeOK, poolVars
<1>2. CASE FreeHead(f)
  <2>1. PICK l \in Lp : rec' = [rec EXCEPT ![l] = [@ EXCEPT !.start_page = FreeEnd(f)]]
    BY <1>0, <1>2 DEF FreeHead
  <2>2. FreeEnd(f) \in Nat /\ [rec[l] EXCEPT !.start_page = FreeEnd(f)] \in Record
    BY <1>0, <1>2 DEF FreeHead, Record
  <2>3. rec' \in [Lp -> Record]
    BY <2>1, <2>2, RecUpdate
  <2> QED  BY <1>2, <2>2, <2>3, <1>a DEF FreeHead, TypeInv, TypeOK, poolVars
<1>3. CASE FreeWhole(f)
  <2>1. PICK l \in Lp : /\ rec' = [rec EXCEPT ![l] = Blank]
                        /\ tree' = tree \ {l} /\ lpFree' = lpFree \cup {l}
    BY <1>0, <1>3 DEF FreeWhole
  <2>2. FreeEnd(f) \in Nat /\ Blank \in Record
    BY <1>0, <1>3 DEF FreeWhole, Record, Blank, Null
  <2>3. rec' \in [Lp -> Record]
    BY <2>1, <2>2, RecUpdate
  <2> QED  BY <1>3, <2>1, <2>2, <2>3, <1>a DEF FreeWhole, TypeInv, TypeOK
<1>4. CASE FreeWholeAndMore(f)
  <2>1. PICK l \in Lp :
          /\ freer' = [freer EXCEPT ![f] = [v EXCEPT !.pc = "reload", !.lp = l]]
          /\ tree' = tree \ {l} /\ lpFree' = lpFree \cup {l}
    BY <1>0, <1>4 DEF FreeWholeAndMore
  <2>2. FreeOK([v EXCEPT !.pc = "reload", !.lp = l])
    BY <1>0, <1>4 DEF FreeWholeAndMore, FreeOK, Free
  <2>3. freer' \in [Freer -> Free] /\ \A g \in Freer : FreeOK(freer'[g])
    BY <2>1, <2>2, FreerUpdate
  <2> QED  BY <1>4, <2>1, <2>3 DEF FreeWholeAndMore, TypeInv, TypeOK, modVars, kernelVars
<1>5. CASE FreeReload(f)
  <2>1. v.pc = "reload" /\ CheckBreak(f, rec[v.lp].end_page)
    BY <1>5 DEF FreeReload
  <2>2. rec[v.lp].end_page \in Nat
    BY <1>0, <2>1 DEF FreeOK
  <2>3. /\ lpLock' \in Freer \cup {None}
        /\ freer' \in [Freer -> Free] /\ \A g \in Freer : FreeOK(freer'[g])
    BY <2>1, <2>2, CheckBreakType
  <2> QED  BY <1>5, <2>3 DEF FreeReload, TypeInv, TypeOK, modVars, poolVars, kernelVars
<1>6. CASE FreeMiddle(f)
  <2>1. PICK l \in Lp, n \in lpFree :
          /\ rec' = [rec EXCEPT
               ![n] = [rec[l] EXCEPT !.start_page = FreeEnd(f)],
               ![l] = [rec[l] EXCEPT !.end_page = v.start]]
          /\ tree' = tree \cup {n} /\ lpFree' = lpFree \ {n}
    BY <1>0, <1>6 DEF FreeMiddle
  <2>2. n \in Lp /\ FreeEnd(f) \in Nat /\ rec[l] \in Record
    BY <1>0, <1>6, <2>1 DEF FreeMiddle, TypeInv, TypeOK
  <2>3. /\ [rec[l] EXCEPT !.start_page = FreeEnd(f)] \in Record
        /\ [rec[l] EXCEPT !.end_page = v.start] \in Record
    BY <1>0, <2>2 DEF Record
  <2>4. rec' \in [Lp -> Record]
    BY <2>1, <2>2, <2>3 DEF TypeInv, TypeOK
  <2> QED  BY <1>0, <1>6, <2>1, <2>2, <2>4, <1>a DEF FreeMiddle, TypeInv, TypeOK
<1>7. CASE FreeTail(f)
  <2>1. PICK l \in Lp : rec' = [rec EXCEPT ![l] = [@ EXCEPT !.end_page = v.start]]
    BY <1>0, <1>7 DEF FreeTail
  <2>2. FreeEnd(f) \in Nat /\ [rec[l] EXCEPT !.end_page = v.start] \in Record
    BY <1>0, <1>7 DEF FreeTail, Record
  <2>3. rec' \in [Lp -> Record]
    BY <2>1, <2>2, RecUpdate
  <2> QED  BY <1>7, <2>2, <2>3, <1>a DEF FreeTail, TypeInv, TypeOK, poolVars
<1>8. CASE FreeTailAndMore(f)
  <2>1. PICK l \in Lp : /\ rec' = [rec EXCEPT ![l] = [@ EXCEPT !.end_page = v.start]]
                        /\ CheckBreak(f, rec[l].end_page)
    BY <1>0, <1>8 DEF FreeTailAndMore
  <2>2. [rec[l] EXCEPT !.end_page = v.start] \in Record
    BY <1>0 DEF Record
  <2>3. rec' \in [Lp -> Record]
    BY <2>1, <2>2, RecUpdate
  <2> QED  BY <1>0, <1>8, <2>1, <2>3, <1>a DEF FreeTailAndMore, TypeInv, TypeOK, poolVars
<1> QED  BY <1>1, <1>2, <1>3, <1>4, <1>5, <1>6, <1>7, <1>8 DEF FreeStep

LEMMA TypeKernel == ASSUME TypeInv, KernelStep PROVE TypeInv'
<1>1. CASE \E i \in Inst, k \in Orders, c \in Caller : EntryAllocLp(i, k, c)
  <2>1. PICK i \in Inst, k \in Orders, c \in Caller : EntryAllocLp(i, k, c)
    BY <1>1
  <2>2. PICK l \in lpFree :
          /\ lpFree' = lpFree \ {l}
          /\ rec' = [rec EXCEPT ![l] = [Blank EXCEPT !.order = k]]
          /\ inst' = [inst EXCEPT ![i] = [Idle EXCEPT !.pc = "trace",
                         !.order = k, !.caller = c, !.lp = l]]
    BY <2>1 DEF EntryAllocLp
  <2>3. l \in Lp
    BY <2>2 DEF TypeInv, TypeOK
  <2>4. InstOK([Idle EXCEPT !.pc = "trace", !.order = k, !.caller = c, !.lp = l])
    BY <2>3 DEF InstOK, Instance, Idle, Running, Null
  <2>5. [Blank EXCEPT !.order = k] \in Record
    BY DEF Blank, Record, Null
  <2>6. inst' \in [Inst -> Instance] /\ \A j \in Inst : InstOK(inst'[j])
    BY <2>2, <2>4, InstUpdate
  <2>7. rec' \in [Lp -> Record]
    BY <2>2, <2>3, <2>5, RecUpdate
  <2> QED  BY <2>1, <2>2, <2>6, <2>7 DEF EntryAllocLp, TypeInv, TypeOK, modVars, kernelVars
<1>2. CASE \E i \in Inst, p \in Page : KernelAlloc(i, p)
  <2>1. PICK i \in Inst, p \in Page : KernelAlloc(i, p)
    BY <1>2
  <2>2. InstOK([inst[i] EXCEPT !.pc = "returned", !.page = p])
    BY <2>1 DEF KernelAlloc, InstOK, Instance, Running, TypeInv, TypeOK
  <2>3. inst' \in [Inst -> Instance] /\ \A j \in Inst : InstOK(inst'[j])
    BY <2>1, <2>2, InstUpdate DEF KernelAlloc
  <2>4. busy' \subseteq Page
    BY <2>1 DEF KernelAlloc, IsBlock, TypeInv, TypeOK
  <2> QED  BY <2>1, <2>3, <2>4 DEF KernelAlloc, TypeInv, TypeOK, modVars, poolVars
<1>3. CASE \E i \in Inst : KernelAllocFails(i)
  <2>1. PICK i \in Inst : KernelAllocFails(i)
    BY <1>3
  <2>2. InstOK([inst[i] EXCEPT !.pc = "returned"])
    BY <2>1 DEF KernelAllocFails, InstOK, Instance, Running, TypeInv, TypeOK
  <2>3. inst' \in [Inst -> Instance] /\ \A j \in Inst : InstOK(inst'[j])
    BY <2>1, <2>2, InstUpdate DEF KernelAllocFails
  <2> QED  BY <2>1, <2>3 DEF KernelAllocFails, TypeInv, TypeOK, modVars, poolVars, kernelVars
<1>4. CASE \E p \in Page, k \in Orders : AllocUntraced(p, k)
  <2>1. PICK p \in Page, k \in Orders : AllocUntraced(p, k)
    BY <1>4
  <2>2. [page |-> p, order |-> k, by |-> None] \in Allocation
    BY DEF Allocation
  <2>3. busy' \subseteq Page /\ owner' \in [Page -> Allocation \cup {None}]
    BY <2>1, <2>2 DEF AllocUntraced, IsBlock, TypeInv, TypeOK
  <2> QED  BY <2>1, <2>3 DEF AllocUntraced, TypeInv, TypeOK, modVars, poolVars
<1>5. CASE \E f \in Freer, p \in Page, k \in Orders, fn \in FreeProbe :
             FreeEnter(f, p, k, fn) \/ FreeUnprobed(f, p, k, fn)
  <2>1. PICK f \in Freer, p \in Page, k \in Orders, fn \in FreeProbe :
             FreeEnter(f, p, k, fn) \/ FreeUnprobed(f, p, k, fn)
    BY <1>5
  <2> DEFINE new(pc) ==
        [pc |-> pc, page |-> p, order |-> k, start |-> p, lp |-> None]
  <2>2. \A pc \in {"loop", "release"} : FreeOK(new(pc))
    BY DEF FreeOK, Free, Page
  <2>3. \/ freer' = [freer EXCEPT ![f] = new("loop")]
        \/ freer' = [freer EXCEPT ![f] = new("release")]
    BY <2>1 DEF FreeEnter, FreeUnprobed
  <2> HIDE DEF new
  <2>4. freer' \in [Freer -> Free] /\ \A g \in Freer : FreeOK(freer'[g])
    BY <2>2, <2>3, FreerUpdate
  <2>5. owner' \in [Page -> Allocation \cup {None}]
    BY <2>1 DEF FreeEnter, FreeUnprobed, GiveUp, TypeInv, TypeOK
  <2> QED  BY <2>1, <2>4, <2>5 DEF FreeEnter, FreeUnprobed, TypeInv, TypeOK, modVars, poolVars
<1>6. CASE \E f \in Freer : KernelFree(f)
  <2>1. PICK f \in Freer : KernelFree(f)
    BY <1>6
  <2>2. FreeOK(Done)
    BY DEF FreeOK, Free, Done, Null
  <2>3. freer' \in [Freer -> Free] /\ \A g \in Freer : FreeOK(freer'[g])
    BY <2>1, <2>2, FreerUpdate DEF KernelFree
  <2> QED  BY <2>1, <2>3 DEF KernelFree, TypeInv, TypeOK, modVars, poolVars
<1> QED  BY <1>1, <1>2, <1>3, <1>4, <1>5, <1>6 DEF KernelStep

LEMMA TypeModule == ASSUME TypeInv, ModuleStep PROVE TypeInv'
<1>1. CASE \/ InitLpPool \/ InitStPool \/ InitStPoolFails \/ Register
           \/ RegisterFails \/ Unload \/ UnregisterAlloc \/ UnregisterFree
  <2>1. UNCHANGED <<rec, tree, lpLock, inst, freer, busy, owner>>
    BY <1>1 DEF InitLpPool, InitStPool, InitStPoolFails, Register,
       RegisterFails, Unload, UnregisterAlloc, UnregisterFree, poolVars, kernelVars
  <2>2. /\ phase' \in {"unloaded", "lp_pool", "registering", "live", "unloading"}
        /\ probes' \subseteq Probe
        /\ lpFree' \subseteq Lp /\ stFree' \subseteq St
    BY <1>1 DEF InitLpPool, InitStPool, InitStPoolFails, Register,
       RegisterFails, Unload, UnregisterAlloc, UnregisterFree, NextProbe, Probe,
       poolVars, TypeInv, TypeOK
  <2> QED  BY <2>1, <2>2 DEF TypeInv, TypeOK
<1>2. CASE CleanupInstances
  <2>1. \A i \in Inst : inst[i].pc # "idle" =>
          InstOK([inst[i] EXCEPT !.pc = "orphan"])
    BY DEF InstOK, Instance, Running, TypeInv
  <2>2. /\ inst' = [i \in Inst |-> IF inst[i].pc = "idle" THEN inst[i]
                                   ELSE [inst[i] EXCEPT !.pc = "orphan"]]
        /\ UNCHANGED <<phase, probes, lpFree, stFree, rec, tree, lpLock, freer, busy>>
    BY <1>2 DEF CleanupInstances, modVars, poolVars
  <2>3. inst' \in [Inst -> Instance] /\ \A i \in Inst : InstOK(inst'[i])
    BY <2>1, <2>2 DEF TypeInv, InstOK
  <2>4. ASSUME NEW i \in Inst, inst[i].pc = "returned", inst[i].page # Null
        PROVE  [page |-> inst[i].page, order |-> inst[i].order, by |-> None]
                 \in Allocation
    BY <2>4 DEF TypeInv, InstOK, Instance, Running, Allocation
  <2>5. owner' \in [Page -> Allocation \cup {None}]
    BY <1>2, <2>4 DEF CleanupInstances, TypeInv, TypeOK
  <2> QED  BY <2>2, <2>3, <2>5 DEF TypeInv, TypeOK
<1>3. CASE ExitPools
  <2>1. InstOK(Idle) /\ Blank \in Record
    BY DEF InstOK, Instance, Idle, Running, Null, Blank, Record
  <2>2. inst' \in [Inst -> Instance] /\ \A i \in Inst : InstOK(inst'[i])
    BY <1>3, <2>1 DEF ExitPools, InstOK
  <2>3. rec' \in [Lp -> Record]
    BY <1>3, <2>1 DEF ExitPools
  <2>4. \A a \in Allocation : [a EXCEPT !.by = None] \in Allocation
    BY DEF Allocation
  <2>5. owner' \in [Page -> Allocation \cup {None}]
    BY <1>3, <2>4 DEF ExitPools, TypeInv, TypeOK
  <2> QED  BY <1>3, <2>2, <2>3, <2>5 DEF ExitPools, TypeInv, TypeOK
<1> QED  BY <1>1, <1>2, <1>3 DEF ModuleStep

LEMMA TypeStep == TypeInv /\ [Next]_vars => TypeInv'
<1> SUFFICES ASSUME TypeInv, [Next]_vars PROVE TypeInv'
  OBVIOUS
<1>1. CASE UNCHANGED vars
  BY <1>1 DEF vars, TypeInv, TypeOK
<1> QED  BY <1>1, TypeAllocHandler, TypeFree, TypeKernel, TypeModule DEF Next

\* Every variable keeps its type.
THEOREM TypeCorrect == Spec => []TypeOK
<1>1. TypeInv => TypeOK
  BY DEF TypeInv
<1> QED  BY TypeInit, TypeStep, <1>1, PTL DEF Spec

-----------------------------------------------------------------------------
(* What does not depend on the pages: ControlInv.                            *)

\* What most steps leave alone.
LEMMA AllocFrame ==
  ASSUME NEW i \in Inst, AllocHandlerStep(i)
  PROVE  UNCHANGED <<phase, probes, lpLock, freer, busy>>
BY DEF AllocHandlerStep, EntryAllocSt, EntryTrace, RetFreeLp, RetSetExtent,
       RetInsert, modVars, kernelVars

LEMMA FreeFrame ==
  ASSUME NEW f \in Freer, FreeStep(f)
  PROVE  UNCHANGED <<phase, probes, stFree, inst, busy, owner>>
<1>1. CASE FreeUntracked(f)
  BY <1>1 DEF FreeUntracked, modVars, poolVars, kernelVars
<1>2. CASE FreeHead(f)
  BY <1>2 DEF FreeHead, modVars, poolVars, kernelVars
<1>3. CASE FreeWhole(f)
  BY <1>3 DEF FreeWhole, modVars, poolVars, kernelVars
<1>4. CASE FreeWholeAndMore(f)
  BY <1>4 DEF FreeWholeAndMore, modVars, poolVars, kernelVars
<1>5. CASE FreeReload(f)
  BY <1>5 DEF FreeReload, modVars, poolVars, kernelVars
<1>6. CASE FreeMiddle(f)
  BY <1>6 DEF FreeMiddle, modVars, poolVars, kernelVars
<1>7. CASE FreeTail(f)
  BY <1>7 DEF FreeTail, modVars, poolVars, kernelVars
<1>8. CASE FreeTailAndMore(f)
  BY <1>8 DEF FreeTailAndMore, modVars, poolVars, kernelVars
<1> QED
  BY <1>1, <1>2, <1>3, <1>4, <1>5, <1>6, <1>7, <1>8 DEF FreeStep

LEMMA KernelFrame ==
  ASSUME KernelStep PROVE UNCHANGED <<phase, probes, stFree, tree>>
<1>1. ASSUME NEW i \in Inst,
             \/ \E k \in Orders, c \in Caller : EntryAllocLp(i, k, c)
             \/ \E p \in Page : KernelAlloc(i, p)
             \/ KernelAllocFails(i)
      PROVE  UNCHANGED <<phase, probes, stFree, tree>>
  BY <1>1 DEF EntryAllocLp, KernelAlloc, KernelAllocFails, modVars, poolVars
<1>2. ASSUME NEW p \in Page, NEW k \in Orders, AllocUntraced(p, k)
      PROVE  UNCHANGED <<phase, probes, stFree, tree>>
  BY <1>2 DEF AllocUntraced, modVars, poolVars
<1>3. ASSUME NEW f \in Freer,
             \/ \E p \in Page, k \in Orders, fn \in FreeProbe :
                  FreeEnter(f, p, k, fn) \/ FreeUnprobed(f, p, k, fn)
             \/ KernelFree(f)
      PROVE  UNCHANGED <<phase, probes, stFree, tree>>
  BY <1>3 DEF FreeEnter, FreeUnprobed, KernelFree, modVars, poolVars
<1> QED  BY <1>1, <1>2, <1>3 DEF KernelStep

LEMMA ModuleFrame ==
  ASSUME ModuleStep PROVE UNCHANGED <<lpLock, freer, busy>>
BY DEF ModuleStep, InitLpPool, InitStPool, InitStPoolFails, Register,
       RegisterFails, Unload, UnregisterAlloc, CleanupInstances,
       UnregisterFree, ExitPools, kernelVars

\* What a step of the free loop does to its context and the lock.
LEMMA FreeMoves ==
  ASSUME TypeInv, NEW f \in Freer, FreeStep(f)
  PROVE  /\ freer[f].pc \in {"loop", "reload"}
         /\ \A g \in Freer \ {f} : freer'[g] = freer[g]
         /\ \/ freer'[f].pc \in {"loop", "reload"} /\ lpLock' = lpLock
            \/ freer'[f].pc = "release" /\ lpLock' = None
         /\ freer'[f].page = freer[f].page /\ freer'[f].order = freer[f].order
<1>0. freer \in [Freer -> Free]
  BY DEF TypeInv, TypeOK
<1>1. ASSUME NEW s, CheckBreak(f, s)
      PROVE  /\ \A g \in Freer \ {f} : freer'[g] = freer[g]
             /\ \/ freer'[f].pc = "loop" /\ lpLock' = lpLock
                \/ freer'[f].pc = "release" /\ lpLock' = None
             /\ freer'[f].page = freer[f].page /\ freer'[f].order = freer[f].order
  <2> DEFINE new(pc) == [freer[f] EXCEPT !.pc = pc, !.start = s, !.lp = None]
  <2>1. \/ freer' = [freer EXCEPT ![f] = new("release")] /\ lpLock' = None
        \/ freer' = [freer EXCEPT ![f] = new("loop")] /\ lpLock' = lpLock
    BY <1>1 DEF CheckBreak
  <2>2. \A pc : /\ new(pc).pc = pc /\ new(pc).page = freer[f].page
                /\ new(pc).order = freer[f].order
    BY <1>0 DEF Free
  <2> HIDE DEF new
  <2> QED  BY <1>0, <2>1, <2>2
<1>2. CASE FreeWholeAndMore(f)
  BY <1>0, <1>2 DEF FreeWholeAndMore, Free
<1>3. CASE FreeReload(f)
  BY <1>1, <1>3 DEF FreeReload
<1>4. CASE \/ FreeUntracked(f) \/ FreeHead(f) \/ FreeWhole(f) \/ FreeMiddle(f)
           \/ FreeTail(f) \/ FreeTailAndMore(f)
  <2>1. freer[f].pc = "loop" /\ \E s : CheckBreak(f, s)
    BY <1>4 DEF FreeUntracked, FreeHead, FreeWhole, FreeMiddle, FreeTail,
       FreeTailAndMore
  <2> QED  BY <1>1, <2>1
<1> QED  BY <1>2, <1>3, <1>4 DEF FreeStep

LEMMA LockStep == ASSUME TypeInv, LockInv, [Next]_vars PROVE LockInv'
<1>0. None \notin Freer
  BY NoneAssumption
<1>1. CASE UNCHANGED <<freer, lpLock>>
  BY <1>1 DEF LockInv
<1>2. ASSUME NEW f \in Freer, FreeStep(f) PROVE LockInv'
  <2>1. lpLock = f
    BY <1>2, FreeMoves DEF LockInv
  <2> QED  BY <1>0, <1>2, <2>1, FreeMoves DEF LockInv, TypeInv, TypeOK
<1>3. CASE KernelStep
  <2>1. CASE UNCHANGED <<freer, lpLock>>
    BY <2>1, <1>1
  <2>2. ASSUME NEW f \in Freer, NEW p \in Page, NEW k \in Orders,
               NEW fn \in FreeProbe, FreeEnter(f, p, k, fn)
        PROVE  LockInv'
    BY <1>0, <2>2 DEF FreeEnter, LockInv, TypeInv, TypeOK
  <2>3. ASSUME NEW f \in Freer, NEW p \in Page, NEW k \in Orders,
               NEW fn \in FreeProbe, FreeUnprobed(f, p, k, fn)
        PROVE  LockInv'
    BY <1>0, <2>3 DEF FreeUnprobed, LockInv, TypeInv, TypeOK
  <2>4. ASSUME NEW f \in Freer, KernelFree(f) PROVE LockInv'
    BY <1>0, <2>4 DEF KernelFree, Done, LockInv, TypeInv, TypeOK
  <2> QED  BY <1>3, <2>1, <2>2, <2>3, <2>4 DEF KernelStep, EntryAllocLp,
           KernelAlloc, KernelAllocFails, AllocUntraced
<1> QED  BY <1>1, <1>2, <1>3, AllocFrame, ModuleFrame DEF Next, vars

\* What a step of the allocation handlers does to its instance.
LEMMA AllocMoves ==
  ASSUME TypeInv, NEW i \in Inst, AllocHandlerStep(i)
  PROVE  /\ inst[i].pc \in Running
         /\ \A j \in Inst \ {i} : inst'[j] = inst[j]
         /\ \/ /\ inst'[i].pc \in Running
               /\ inst'[i].lp = inst[i].lp
               /\ UNCHANGED <<lpFree, tree>>
            \/ /\ inst'[i] = Idle
               /\ \/ lpFree' = lpFree \cup {inst[i].lp} /\ UNCHANGED tree
                  \/ tree' = tree \cup {inst[i].lp} /\ UNCHANGED lpFree
<1>0. inst \in [Inst -> Instance]
  BY DEF TypeInv, TypeOK
<1>1. CASE EntryAllocSt(i)
  BY <1>0, <1>1 DEF EntryAllocSt, Instance, Running
<1>2. CASE EntryTrace(i)
  BY <1>0, <1>2 DEF EntryTrace, Instance, Running
<1>3. CASE RetFreeLp(i)
  BY <1>0, <1>3 DEF RetFreeLp, Running
<1>4. CASE RetSetExtent(i)
  BY <1>0, <1>4 DEF RetSetExtent, Instance, Running, poolVars
<1>5. CASE RetInsert(i)
  BY <1>0, <1>5 DEF RetInsert, Running, poolVars
<1> QED  BY <1>1, <1>2, <1>3, <1>4, <1>5 DEF AllocHandlerStep

\* ... and what the kernel's steps do to an instance and the pool.
LEMMA KernelMoves ==
  ASSUME TypeInv, KernelStep
  PROVE  \/ UNCHANGED <<inst, lpFree>>
         \/ \E i \in Inst :
              /\ \A j \in Inst \ {i} : inst'[j] = inst[j]
              /\ \/ /\ inst[i].pc = "idle" /\ inst'[i].pc \in Running
                    /\ "alloc_pages_nodemask" \in probes
                    /\ inst'[i].lp \in lpFree
                    /\ lpFree' = lpFree \ {inst'[i].lp}
                 \/ /\ inst[i].pc \in Running /\ inst'[i].pc \in Running
                    /\ inst'[i].lp = inst[i].lp
                    /\ UNCHANGED lpFree
<1>1. CASE \/ \E p \in Page, k \in Orders : AllocUntraced(p, k)
           \/ \E f \in Freer, p \in Page, k \in Orders, fn \in FreeProbe :
                FreeEnter(f, p, k, fn) \/ FreeUnprobed(f, p, k, fn)
           \/ \E f \in Freer : KernelFree(f)
  BY <1>1 DEF AllocUntraced, FreeEnter, FreeUnprobed, KernelFree, poolVars
<1>2. ASSUME NEW i \in Inst, NEW k \in Orders, NEW c \in Caller,
             EntryAllocLp(i, k, c)
      PROVE  /\ \A j \in Inst \ {i} : inst'[j] = inst[j]
             /\ inst[i].pc = "idle" /\ inst'[i].pc \in Running
             /\ "alloc_pages_nodemask" \in probes
             /\ inst'[i].lp \in lpFree /\ lpFree' = lpFree \ {inst'[i].lp}
  BY <1>2 DEF EntryAllocLp, TypeInv, TypeOK, Idle, Running
<1>3. ASSUME NEW i \in Inst,
             KernelAllocFails(i) \/ \E p \in Page : KernelAlloc(i, p)
      PROVE  /\ \A j \in Inst \ {i} : inst'[j] = inst[j]
             /\ inst[i].pc \in Running /\ inst'[i].pc \in Running
             /\ inst'[i].lp = inst[i].lp /\ UNCHANGED lpFree
  <2>0. inst[i] \in Instance
    BY DEF TypeInv, TypeOK
  <2>1. CASE KernelAllocFails(i)
    BY <2>0, <2>1 DEF KernelAllocFails, TypeInv, TypeOK, Instance, Running,
       poolVars
  <2>2. ASSUME NEW p \in Page, KernelAlloc(i, p)
        PROVE  /\ \A j \in Inst \ {i} : inst'[j] = inst[j]
               /\ inst[i].pc \in Running /\ inst'[i].pc \in Running
               /\ inst'[i].lp = inst[i].lp /\ UNCHANGED lpFree
    BY <2>0, <2>2 DEF KernelAlloc, TypeInv, TypeOK, Instance, Running, poolVars
  <2> QED  BY <1>3, <2>1, <2>2
<1>4. CASE \E i \in Inst, k \in Orders, c \in Caller : EntryAllocLp(i, k, c)
  <2>1. PICK i \in Inst :
          /\ \A j \in Inst \ {i} : inst'[j] = inst[j]
          /\ inst[i].pc = "idle" /\ inst'[i].pc \in Running
          /\ "alloc_pages_nodemask" \in probes
          /\ inst'[i].lp \in lpFree /\ lpFree' = lpFree \ {inst'[i].lp}
    BY <1>2, <1>4
  <2> QED  BY <2>1
<1>5. CASE \/ \E i \in Inst, p \in Page : KernelAlloc(i, p)
           \/ \E i \in Inst : KernelAllocFails(i)
  <2>1. PICK i \in Inst :
          /\ \A j \in Inst \ {i} : inst'[j] = inst[j]
          /\ inst[i].pc \in Running /\ inst'[i].pc \in Running
          /\ inst'[i].lp = inst[i].lp /\ UNCHANGED lpFree
    BY <1>3, <1>5
  <2> QED  BY <2>1
<1>6. \/ \E i \in Inst, k \in Orders, c \in Caller : EntryAllocLp(i, k, c)
      \/ \E i \in Inst, p \in Page : KernelAlloc(i, p)
      \/ \E i \in Inst : KernelAllocFails(i)
      \/ \E p \in Page, k \in Orders : AllocUntraced(p, k)
      \/ \E f \in Freer, p \in Page, k \in Orders, fn \in FreeProbe :
           FreeEnter(f, p, k, fn) \/ FreeUnprobed(f, p, k, fn)
      \/ \E f \in Freer : KernelFree(f)
  BY Zenon DEF KernelStep
<1> QED  BY <1>1, <1>4, <1>5, <1>6

LEMMA IdleStep == ASSUME TypeInv, IdleInv, [Next]_vars PROVE IdleInv'
<1>1. CASE UNCHANGED vars
  BY <1>1 DEF IdleInv, vars
<1>2. ASSUME NEW i \in Inst, AllocHandlerStep(i) PROVE IdleInv'
  BY <1>2, AllocMoves DEF IdleInv, Running, Idle
<1>3. CASE KernelStep
  BY <1>3, KernelMoves DEF IdleInv, Running
<1>4. ASSUME NEW f \in Freer, FreeStep(f) PROVE IdleInv'
  BY <1>4, FreeFrame DEF IdleInv
<1>5. CASE ModuleStep
  <2>1. CASE CleanupInstances
    BY <2>1 DEF CleanupInstances, IdleInv, TypeInv, TypeOK, Instance
  <2>2. CASE ExitPools
    BY <2>2 DEF ExitPools, Idle, IdleInv, TypeInv, TypeOK
  <2>3. CASE \/ InitLpPool \/ InitStPool \/ InitStPoolFails \/ Register
             \/ RegisterFails \/ Unload \/ UnregisterAlloc \/ UnregisterFree
    <3>1. UNCHANGED inst
      BY <2>3 DEF InitLpPool, InitStPool, InitStPoolFails, Register,
         RegisterFails, Unload, UnregisterAlloc, UnregisterFree
    <3> QED  BY <3>1 DEF IdleInv
  <2> QED  BY <1>5, <2>1, <2>2, <2>3 DEF ModuleStep
<1> QED  BY <1>1, <1>2, <1>3, <1>4, <1>5 DEF Next

\* The loop takes a record from the pool for a second one it links, and puts
\* one back that it takes out of the tree.
LEMMA FreeRecords ==
  ASSUME TypeInv, NEW f \in Freer, FreeStep(f)
  PROVE  \/ UNCHANGED <<lpFree, tree>>
         \/ \E l \in tree : lpFree' = lpFree \cup {l} /\ tree' = tree \ {l}
         \/ \E l \in lpFree : lpFree' = lpFree \ {l} /\ tree' = tree \cup {l}
BY DEF FreeStep, FreeUntracked, FreeHead, FreeWhole, FreeWholeAndMore,
       FreeReload, FreeMiddle, FreeTail, FreeTailAndMore, poolVars, find_lp

LEMMA FreeKeepsEmpty ==
  ASSUME NEW f \in Freer, FreeStep(f), tree = {}
  PROVE  tree' = {}
BY DEF FreeStep, FreeUntracked, FreeHead, FreeWhole, FreeWholeAndMore,
       FreeReload, FreeMiddle, FreeTail, FreeTailAndMore, poolVars, find_lp

LEMMA PhaseStep ==
  ASSUME TypeInv, LockInv, PhaseInv, [Next]_vars
  PROVE  PhaseInv'
<1>1. CASE UNCHANGED vars
  BY <1>1 DEF PhaseInv, AllocActive, Watching, vars
<1>2. ASSUME NEW i \in Inst, AllocHandlerStep(i) PROVE PhaseInv'
  BY <1>2, AllocMoves, AllocFrame
     DEF PhaseInv, AllocActive, Watching, Running, Idle
<1>3. CASE KernelStep
  <2>1. \A f \in Freer : freer'[f].pc \in {"loop", "reload"} =>
          freer[f].pc \in {"loop", "reload"} \/ probes # {}
    <3>1. CASE UNCHANGED freer
      BY <3>1
    <3>2. ASSUME NEW f \in Freer, NEW p \in Page, NEW k \in Orders,
                 NEW fn \in FreeProbe,
                 FreeEnter(f, p, k, fn) \/ FreeUnprobed(f, p, k, fn)
          PROVE  \A g \in Freer : freer'[g].pc \in {"loop", "reload"} =>
                   freer[g].pc \in {"loop", "reload"} \/ probes # {}
      BY <3>2 DEF FreeEnter, FreeUnprobed, TypeInv, TypeOK
    <3>3. ASSUME NEW f \in Freer, KernelFree(f)
          PROVE  \A g \in Freer : freer'[g].pc \in {"loop", "reload"} =>
                   freer[g].pc \in {"loop", "reload"}
      BY <3>3 DEF KernelFree, Done, TypeInv, TypeOK
    <3> QED  BY <1>3, <3>1, <3>2, <3>3 DEF KernelStep, EntryAllocLp,
             KernelAlloc, KernelAllocFails, AllocUntraced
  <2>2. AllocActive' => AllocActive
    BY <1>3, KernelFrame, KernelMoves DEF AllocActive, Running
  <2>3. \A i \in Inst : inst'[i].pc # inst[i].pc => AllocActive
    BY <1>3, KernelMoves DEF AllocActive, Running
  <2> QED  BY <1>3, <2>1, <2>2, <2>3, KernelFrame
           DEF PhaseInv, AllocActive, Watching, Running
<1>4. ASSUME NEW f \in Freer, FreeStep(f) PROVE PhaseInv'
  <2>1. /\ phase \notin {"unloaded", "lp_pool"}
        /\ tree = {} => tree' = {}
    BY <1>4, FreeMoves, FreeKeepsEmpty DEF PhaseInv
  <2> QED  BY <1>4, <2>1, FreeFrame DEF PhaseInv, AllocActive, Watching
<1>5. CASE ModuleStep
  <2>1. CASE InitLpPool \/ InitStPool \/ InitStPoolFails \/ RegisterFails \/ Unload
    BY <2>1 DEF InitLpPool, InitStPool, InitStPoolFails, RegisterFails, Unload,
       PhaseInv, AllocActive, Watching, poolVars
  <2>2. CASE Register
    BY <2>2 DEF Register, NextProbe, PhaseInv, AllocActive, Watching, Probe,
       FreeProbe, TypeInv, TypeOK, Running
  <2>3. CASE UnregisterAlloc
    BY <2>3 DEF UnregisterAlloc, PhaseInv, AllocActive, Watching, FreeProbe
  <2>4. CASE CleanupInstances
    <3>1. \A i \in Inst : inst'[i].pc \in {"idle", "orphan"}
      BY <2>4 DEF CleanupInstances, TypeInv, TypeOK, Instance
    <3> QED  BY <2>4, <3>1 DEF CleanupInstances, PhaseInv, AllocActive, Watching, modVars,
             Running
  <2>5. CASE UnregisterFree
    BY <2>5 DEF UnregisterFree, PhaseInv, AllocActive, InstancesGone, Running
  <2>6. CASE ExitPools
    BY <2>6 DEF ExitPools, PhaseInv, AllocActive, InFree, Idle, Running
  <2> QED  BY <1>5, <2>1, <2>2, <2>3, <2>4, <2>5, <2>6 DEF ModuleStep
<1> QED  BY <1>1, <1>2, <1>3, <1>4, <1>5 DEF Next

LEMMA AccountedStep ==
  ASSUME TypeInv, PhaseInv, IdleInv, RecordsAccounted, [Next]_vars
  PROVE  RecordsAccounted'
<1>1. CASE UNCHANGED vars
  BY <1>1 DEF RecordsAccounted, HeldBy, vars
<1>2. ASSUME NEW i \in Inst, AllocHandlerStep(i) PROVE RecordsAccounted'
  <2>1. HeldBy(i) = {inst[i].lp}
    BY <1>2, AllocMoves, NoneAssumption DEF HeldBy, TypeInv, InstOK
  <2>2. \A j \in Inst \ {i} : HeldBy(j)' = HeldBy(j)
    BY <1>2, AllocMoves DEF HeldBy
  <2>3. \/ HeldBy(i)' = HeldBy(i) /\ UNCHANGED <<lpFree, tree>>
        \/ /\ HeldBy(i)' = {}
           /\ lpFree' \cup tree' = lpFree \cup tree \cup HeldBy(i)
           /\ lpFree' = lpFree \/ tree' = tree
    <3>1. CASE inst'[i].lp = inst[i].lp /\ UNCHANGED <<lpFree, tree>>
      BY <3>1 DEF HeldBy
    <3>2. CASE inst'[i] = Idle
      <4>1. HeldBy(i)' = {}
        BY <3>2 DEF HeldBy, Idle
      <4>2. \/ lpFree' = lpFree \cup {inst[i].lp} /\ tree' = tree
            \/ tree' = tree \cup {inst[i].lp} /\ lpFree' = lpFree
        BY <1>2, <3>2, AllocMoves DEF Idle, Running
      <4> QED  BY <2>1, <4>1, <4>2
    <3> QED  BY <1>2, <3>1, <3>2, AllocMoves
  <2>4. lpFree' \cap tree' = {}
    BY <1>2, <2>1, AllocMoves DEF RecordsAccounted
  <2> HIDE DEF HeldBy
  <2> QED  BY <1>2, <2>2, <2>3, <2>4, AllocFrame DEF RecordsAccounted
<1>3. CASE KernelStep
  <2>1. CASE UNCHANGED <<inst, lpFree>>
    BY <1>3, <2>1, KernelFrame DEF RecordsAccounted, HeldBy
  <2>2. CASE ~ UNCHANGED <<inst, lpFree>>
    <3>1. PICK i \in Inst :
            /\ \A j \in Inst \ {i} : inst'[j] = inst[j]
            /\ \/ /\ inst[i].pc = "idle" /\ inst'[i].lp \in lpFree
                  /\ lpFree' = lpFree \ {inst'[i].lp}
               \/ inst'[i].lp = inst[i].lp /\ UNCHANGED lpFree
      BY <1>3, <2>2, KernelMoves
    <3>2. \A j \in Inst \ {i} : HeldBy(j)' = HeldBy(j)
      BY <3>1 DEF HeldBy
    <3>3. \/ HeldBy(i)' = HeldBy(i) /\ UNCHANGED lpFree
          \/ /\ HeldBy(i) = {} /\ HeldBy(i)' \subseteq lpFree
             /\ lpFree' = lpFree \ HeldBy(i)'
      BY <3>1, NoneAssumption DEF HeldBy, IdleInv, TypeInv, TypeOK
    <3> HIDE DEF HeldBy
    <3> QED  BY <1>3, <3>2, <3>3, KernelFrame DEF RecordsAccounted
  <2> QED  BY <2>1, <2>2
<1>4. ASSUME NEW f \in Freer, FreeStep(f) PROVE RecordsAccounted'
  BY <1>4, FreeFrame, FreeRecords DEF RecordsAccounted, HeldBy
<1>5. CASE InitLpPool \/ InitStPool \/ InitStPoolFails
  BY <1>5, IdleInv DEF InitLpPool, InitStPool, InitStPoolFails, PhaseInv,
     RecordsAccounted, HeldBy, IdleInv
<1>6. CASE Register \/ RegisterFails \/ Unload \/ UnregisterAlloc \/ UnregisterFree
  BY <1>6 DEF Register, RegisterFails, Unload, UnregisterAlloc,
     UnregisterFree, poolVars, PhaseInv, RecordsAccounted, HeldBy
<1>7. CASE CleanupInstances
  <2>1. \A i \in Inst : HeldBy(i)' = HeldBy(i)
    BY <1>7 DEF CleanupInstances, HeldBy, TypeInv, TypeOK, Instance
  <2> HIDE DEF HeldBy
  <2> QED  BY <1>7, <2>1 DEF CleanupInstances, RecordsAccounted, modVars, poolVars
<1>8. CASE ExitPools
  BY <1>8 DEF ExitPools, RecordsAccounted, HeldBy, Idle
<1> QED  BY <1>1, <1>2, <1>3, <1>4, <1>5, <1>6, <1>7, <1>8
         DEF Next, ModuleStep

LEMMA ControlInit == Init => ControlInv
<1> SUFFICES ASSUME Init PROVE ControlInv
  OBVIOUS
<1>1. LockInv
  BY NoneAssumption DEF Init, LockInv, Done
<1>2. PhaseInv
  BY DEF Init, PhaseInv, AllocActive, Idle, Done, Running
<1>3. IdleInv /\ RecordsAccounted
  BY DEF Init, IdleInv, RecordsAccounted, HeldBy, Idle
<1> QED  BY <1>1, <1>2, <1>3 DEF ControlInv

LEMMA ControlStep == TypeInv /\ ControlInv /\ [Next]_vars => ControlInv'
BY LockStep, PhaseStep, IdleStep, AccountedStep DEF ControlInv

LEMMA ControlCorrect == Spec => [](TypeInv /\ ControlInv)
BY TypeInit, TypeStep, ControlInit, ControlStep, PTL DEF Spec

\* However the kernel allocates and frees, and whatever a free covers, a
\* record is in one place, and none is lost while the module is loaded.
THEOREM RecordsAccountedCorrect == Spec => []RecordsAccounted
<1>1. TypeInv /\ ControlInv => RecordsAccounted
  BY DEF ControlInv
<1> QED  BY ControlCorrect, <1>1, PTL

-----------------------------------------------------------------------------
(* Blocks: BlockInv.                                                         *)

LEMMA SpanBlk ==
  ASSUME NEW p \in Nat, NEW k \in Orders \cup {0}, NEW q \in Page
  PROVE  q \in Span(p, k) <=> Blk(q, p, k)
BY EndType DEF Span, Blk, Page

LEMMA BlockEnd ==
  ASSUME NEW p \in Page, NEW k \in Orders, IsBlock(p, k)
  PROVE  End(p, k) <= NrPages + 1
<1>1. p \in Nat /\ End(p, k) \in Nat /\ End(p, k) > p
  BY EndType DEF Page
<1>2. End(p, k) - 1 \in Span(p, k)
  BY <1>1 DEF Span
<1> QED  BY <1>1, <1>2, PageAssumption DEF IsBlock, Page

\* A step that leaves the allocator's data alone, and the contexts' blocks.
LEMMA BlockFrame ==
  ASSUME OwnerInv, FreedInv, GrantInv, UNCHANGED <<busy, owner>>,
         \A i \in Inst : Pending(i)' =>
           Pending(i) /\ inst'[i].page = inst[i].page
                      /\ inst'[i].order = inst[i].order,
         \A f \in Freer : freer'[f].pc # "idle" =>
           /\ freer[f].pc # "idle"
           /\ freer'[f].page = freer[f].page /\ freer'[f].order = freer[f].order
  PROVE  OwnerInv' /\ FreedInv' /\ GrantInv'
<1> USE DEF InFreed, InGrant, FreeEnd
<1>1. OwnerInv'
  BY DEF OwnerInv
<1>2. FreedInv'
  BY DEF FreedInv
<1>3. GrantInv'
  BY DEF GrantInv
<1> QED  BY <1>1, <1>2, <1>3

LEMMA BlockAllocHandler ==
  ASSUME TypeInv, OwnerInv, FreedInv, GrantInv, CallInv, NEW i \in Inst,
         AllocHandlerStep(i)
  PROVE  OwnerInv' /\ FreedInv' /\ GrantInv'
<1>0. inst \in [Inst -> Instance] /\ InstOK(inst[i])
  BY DEF TypeInv, TypeOK
<1>1. CASE ~RetInsert(i)
  <2>1. UNCHANGED <<busy, owner, freer>>
    BY <1>1 DEF AllocHandlerStep, EntryAllocSt, EntryTrace, RetFreeLp,
       RetSetExtent, kernelVars
  <2>2. /\ \A j \in Inst \ {i} : inst'[j] = inst[j]
        /\ inst'[i].page # Null => /\ inst'[i].page = inst[i].page
                                   /\ inst'[i].order = inst[i].order
        /\ inst'[i].pc \in Granted /\ inst'[i].page # Null => inst[i].pc \in Granted
    <3>1. CASE EntryAllocSt(i)
      BY <1>0, <3>1 DEF EntryAllocSt, Instance, Granted
    <3>2. CASE EntryTrace(i)
      BY <1>0, <3>2 DEF EntryTrace, Instance, Granted
    <3>3. CASE RetFreeLp(i)
      BY <1>0, <3>3 DEF RetFreeLp, Idle
    <3>4. CASE RetSetExtent(i)
      BY <1>0, <3>4 DEF RetSetExtent, Instance, Granted
    <3> QED  BY <1>1, <3>1, <3>2, <3>3, <3>4 DEF AllocHandlerStep
  <2> QED  BY <2>1, <2>2, BlockFrame DEF Pending
<1>2. CASE RetInsert(i)
  <2> DEFINE p == inst[i].page
             k == inst[i].order
  <2>1. /\ p \in Page /\ k \in Orders /\ Pending(i)
        /\ lpLock = None /\ UNCHANGED <<freer, busy>>
        /\ inst' = [inst EXCEPT ![i] = Idle]
        /\ \A q \in Page : owner'[q] = IF q \in Span(p, k)
             THEN [page |-> p, order |-> k, by |-> inst[i].caller] ELSE owner[q]
    BY <1>0, <1>2 DEF RetInsert, InstOK, Running, Pending, Granted, Page, Null
  <2>2. \A q \in Page : q \in Span(p, k) <=> InGrant(q, i)
    BY <2>1, SpanBlk DEF InGrant, Page
  <2>3. /\ \A j \in Inst : Pending(j)' => j # i /\ Pending(j)
        /\ \A j \in Inst \ {i} : inst'[j] = inst[j]
    BY <1>0, <2>1 DEF Pending, Idle, Granted
  <2>4. OwnerInv'
    <3> SUFFICES ASSUME NEW q \in Page, owner'[q] # None
                 PROVE  q \in busy' /\ Blk(q, owner'[q].page, owner'[q].order)
      BY DEF OwnerInv
    <3>1. CASE InGrant(q, i)
      BY <2>1, <2>2, <3>1 DEF GrantInv, InGrant
    <3>2. CASE ~InGrant(q, i)
      BY <2>1, <2>2, <3>2 DEF OwnerInv
    <3> QED  BY <3>1, <3>2
  <2>5. FreedInv'
    BY <2>1, <2>2 DEF FreedInv, GrantInv, InFreed, FreeEnd
  <2>6. GrantInv'
    <3> SUFFICES ASSUME NEW j \in Inst, Pending(j)'
                 PROVE  /\ End(inst[j].page, inst[j].order) <= NrPages + 1
                        /\ \A q \in Page : InGrant(q, j) => q \in busy /\ owner'[q] = None
                        /\ \A h \in Inst \ {j} : Pending(h)' =>
                             \A q \in Page : ~(InGrant(q, j) /\ InGrant(q, h))
                        /\ \A f \in Freer : freer[f].pc # "idle" =>
                             \A q \in Page : ~(InGrant(q, j) /\ InFreed(q, f))
      BY <2>1, <2>3 DEF GrantInv, InGrant, InFreed
    <3>1. j # i /\ Pending(j)
      BY <2>3
    <3> QED  BY <2>1, <2>2, <2>3, <3>1 DEF GrantInv
  <2> QED  BY <2>4, <2>5, <2>6
<1> QED  BY <1>1, <1>2

LEMMA BlockKernelAlloc ==
  ASSUME TypeInv, OwnerInv, FreedInv, GrantInv, NEW i \in Inst, NEW p \in Page,
         KernelAlloc(i, p)
  PROVE  OwnerInv' /\ FreedInv' /\ GrantInv'
<1> DEFINE k == inst[i].order
<1>1. /\ k \in Orders
      /\ IsBlock(p, k)
      /\ inst' = [inst EXCEPT ![i] = [@ EXCEPT !.pc = "returned", !.page = p]]
      /\ busy' = busy \cup Span(p, k) /\ UNCHANGED <<owner, freer>>
      /\ \A q \in Page : q \in Span(p, k) => q \notin busy
      /\ inst[i] \in Instance /\ inst \in [Inst -> Instance]
  BY DEF KernelAlloc, TypeInv, TypeOK, InstOK, Running
<1>2. /\ \A j \in Inst \ {i} : inst'[j] = inst[j]
      /\ inst'[i].page = p /\ inst'[i].order = k
  BY <1>1 DEF Instance
<1>3. /\ \A q \in Page : InGrant(q, i)' <=> q \in Span(p, k)
      /\ \A j \in Inst \ {i} : \A q \in Page : InGrant(q, j)' <=> InGrant(q, j)
      /\ \A j \in Inst \ {i} : Pending(j)' <=> Pending(j)
      /\ \A f \in Freer : \A q \in Page : InFreed(q, f)' <=> InFreed(q, f)
  BY <1>1, <1>2, SpanBlk DEF InGrant, InFreed, Pending, Page
<1>4. OwnerInv' /\ FreedInv'
  BY <1>1 DEF OwnerInv, FreedInv, InFreed, FreeEnd
<1>5. GrantInv'
  <2> SUFFICES ASSUME NEW j \in Inst, Pending(j)'
               PROVE  /\ End(inst'[j].page, inst'[j].order) <= NrPages + 1
                      /\ \A q \in Page : InGrant(q, j)' => q \in busy' /\ owner[q] = None
                      /\ \A h \in Inst \ {j} : Pending(h)' =>
                           \A q \in Page : ~(InGrant(q, j)' /\ InGrant(q, h)')
                      /\ \A f \in Freer : freer[f].pc # "idle" =>
                           \A q \in Page : ~(InGrant(q, j)' /\ InFreed(q, f))
    BY <1>1, <1>3 DEF GrantInv
  <2>1. CASE j = i
    BY <1>1, <1>2, <1>3, <2>1, BlockEnd DEF OwnerInv, FreedInv, GrantInv
  <2>2. CASE j # i
    BY <1>1, <1>2, <1>3, <2>2 DEF GrantInv
  <2> QED  BY <2>1, <2>2
<1> QED  BY <1>4, <1>5

LEMMA BlockAllocUntraced ==
  ASSUME TypeInv, OwnerInv, FreedInv, GrantInv, NEW p \in Page, NEW k \in Orders,
         AllocUntraced(p, k)
  PROVE  OwnerInv' /\ FreedInv' /\ GrantInv'
<1>1. /\ IsBlock(p, k) /\ Span(p, k) \cap busy = {}
      /\ busy' = busy \cup Span(p, k)
      /\ \A q \in Page : owner'[q] = IF q \in Span(p, k)
           THEN [page |-> p, order |-> k, by |-> None] ELSE owner[q]
      /\ UNCHANGED <<inst, freer>>
  BY DEF AllocUntraced
<1>2. \A q \in Page : q \in Span(p, k) <=> Blk(q, p, k)
  BY SpanBlk DEF Page
<1>3. OwnerInv'
  <2> SUFFICES ASSUME NEW q \in Page, owner'[q] # None
               PROVE  q \in busy' /\ Blk(q, owner'[q].page, owner'[q].order)
    BY DEF OwnerInv
  <2>1. CASE q \in Span(p, k)
    BY <1>1, <1>2, <2>1
  <2>2. CASE q \notin Span(p, k)
    BY <1>1, <2>2 DEF OwnerInv
  <2> QED  BY <2>1, <2>2
<1>4. FreedInv'
  BY <1>1 DEF FreedInv, InFreed, FreeEnd
<1>5. GrantInv'
  BY <1>1 DEF GrantInv, InGrant, InFreed, Pending
<1> QED  BY <1>3, <1>4, <1>5

\* The owners give a block up: nobody else's block is touched.
LEMMA BlockGiveUp ==
  ASSUME TypeInv, OwnerInv, FreedInv, GrantInv, NEW f \in Freer, NEW p \in Page,
         NEW k \in Orders, NEW fn \in FreeProbe,
         FreeEnter(f, p, k, fn) \/ FreeUnprobed(f, p, k, fn)
  PROVE  OwnerInv' /\ FreedInv' /\ GrantInv'
<1>1. /\ IsBlock(p, k) /\ \A q \in Page : q \in Span(p, k) => owner[q] # None
      /\ freer[f].pc = "idle" /\ freer'[f].page = p /\ freer'[f].order = k
      /\ \A g \in Freer \ {f} : freer'[g] = freer[g]
      /\ \A q \in Page : owner'[q] = IF q \in Span(p, k) THEN None ELSE owner[q]
      /\ UNCHANGED <<inst, busy>>
  BY DEF FreeEnter, FreeUnprobed, Freeable, GiveUp, TypeInv, TypeOK
<1>2. /\ \A q \in Page : InFreed(q, f)' <=> q \in Span(p, k)
      /\ \A q \in Page, g \in Freer \ {f} : InFreed(q, g)' <=> InFreed(q, g)
      /\ FreeEnd(f)' = End(p, k)
      /\ \A g \in Freer \ {f} : FreeEnd(g)' = FreeEnd(g)
  BY <1>1, SpanBlk DEF InFreed, FreeEnd, Page
<1>3. OwnerInv'
  BY <1>1 DEF OwnerInv
<1>4. FreedInv'
  <2> SUFFICES ASSUME NEW g \in Freer, freer'[g].pc # "idle"
               PROVE  /\ FreeEnd(g)' <= NrPages + 1
                      /\ \A q \in Page : InFreed(q, g)' => q \in busy /\ owner'[q] = None
                      /\ \A h \in Freer \ {g} : freer'[h].pc # "idle" =>
                           \A q \in Page : ~(InFreed(q, g)' /\ InFreed(q, h)')
    BY <1>1 DEF FreedInv
  <2>1. CASE g = f
    BY <1>1, <1>2, <2>1, BlockEnd DEF OwnerInv, FreedInv
  <2>2. CASE g # f
    BY <1>1, <1>2, <2>2 DEF FreedInv
  <2> QED  BY <2>1, <2>2
<1>5. GrantInv'
  <2>1. \A q \in Page, i \in Inst : InGrant(q, i)' <=> InGrant(q, i)
    BY <1>1 DEF InGrant
  <2>2. \A i \in Inst : Pending(i)' <=> Pending(i)
    BY <1>1 DEF Pending
  <2>3. \A i \in Inst : Pending(i) => \A q \in Page : ~(InGrant(q, i) /\ q \in Span(p, k))
    BY <1>1 DEF GrantInv
  <2>4. \A i \in Inst : Pending(i)' =>
          \A g \in Freer : freer'[g].pc # "idle" =>
            \A q \in Page : ~(InGrant(q, i)' /\ InFreed(q, g)')
    <3> SUFFICES ASSUME NEW i \in Inst, Pending(i)', NEW g \in Freer,
                        freer'[g].pc # "idle", NEW q \in Page
                 PROVE  ~(InGrant(q, i)' /\ InFreed(q, g)')
      OBVIOUS
    <3>1. CASE g = f
      BY <1>2, <2>1, <2>2, <2>3, <3>1
    <3>2. CASE g # f
      BY <1>1, <1>2, <2>1, <2>2, <3>2 DEF GrantInv
    <3> QED  BY <3>1, <3>2
  <2> QED  BY <1>1, <2>1, <2>2, <2>4 DEF GrantInv
<1> QED  BY <1>3, <1>4, <1>5

LEMMA BlockKernelFree ==
  ASSUME TypeInv, OwnerInv, FreedInv, GrantInv, NEW f \in Freer, KernelFree(f)
  PROVE  OwnerInv' /\ FreedInv' /\ GrantInv'
<1>1. /\ freer[f].pc # "idle" /\ freer'[f].pc = "idle"
      /\ \A g \in Freer \ {f} : freer'[g] = freer[g]
      /\ busy' = busy \ Span(freer[f].page, freer[f].order)
      /\ UNCHANGED <<inst, owner>>
      /\ freer[f].page \in Nat /\ freer[f].order \in Orders
  BY DEF KernelFree, TypeInv, TypeOK, FreeOK, Done, Page
<1>2. \A q \in Page : q \in busy /\ ~InFreed(q, f) => q \in busy'
  BY <1>1, SpanBlk DEF InFreed
<1>3. OwnerInv'
  BY <1>1, <1>2 DEF OwnerInv, FreedInv
<1>4. FreedInv'
  BY <1>1, <1>2 DEF FreedInv, InFreed, FreeEnd
<1>5. GrantInv'
  BY <1>1, <1>2 DEF GrantInv, InGrant, InFreed, Pending
<1> QED  BY <1>3, <1>4, <1>5

LEMMA BlockModule ==
  ASSUME TypeInv, OwnerInv, FreedInv, GrantInv, ModuleStep
  PROVE  OwnerInv' /\ FreedInv' /\ GrantInv'
<1>0. UNCHANGED <<busy, freer>>
  BY ModuleFrame
<1>1. CASE UNCHANGED <<inst, owner>>
  BY <1>0, <1>1, BlockFrame DEF Pending
<1>2. CASE CleanupInstances
  <2> DEFINE Lost(i, q) == /\ inst[i].pc = "returned" /\ inst[i].page # Null
                           /\ q \in Span(inst[i].page, inst[i].order)
  <2>1. \A i \in Inst : ~Pending(i)'
    BY <1>2 DEF CleanupInstances, Pending, Granted, TypeInv, TypeOK, Instance
  <2>2. \A i \in Inst, q \in Page : Lost(i, q) => Pending(i) /\ InGrant(q, i)
    <3> SUFFICES ASSUME NEW i \in Inst, NEW q \in Page, Lost(i, q)
                 PROVE  Pending(i) /\ InGrant(q, i)
      OBVIOUS
    <3>1. inst[i].page \in Nat /\ inst[i].order \in Orders \cup {0}
      BY DEF TypeInv, TypeOK, Instance, Page, Null
    <3> QED  BY <3>1, SpanBlk DEF Pending, Granted, InGrant
  <2>3. ASSUME NEW q \in Page
        PROVE  \/ owner'[q] = owner[q] /\ \A i \in Inst : ~Lost(i, q)
               \/ \E i \in Inst : Lost(i, q) /\
                    owner'[q] = [page |-> inst[i].page, order |-> inst[i].order,
                                 by |-> None]
    <3>1. owner'[q] = IF \E i \in Inst : Lost(i, q)
                      THEN LET i == CHOOSE j \in Inst : Lost(j, q)
                           IN [page |-> inst[i].page, order |-> inst[i].order,
                               by |-> None]
                      ELSE owner[q]
      BY <1>2 DEF CleanupInstances
    <3> HIDE DEF Lost
    <3> QED  BY <3>1
  <2> HIDE DEF Lost
  <2>4. OwnerInv'
    <3> SUFFICES ASSUME NEW q \in Page, owner'[q] # None
                 PROVE  q \in busy /\ Blk(q, owner'[q].page, owner'[q].order)
      BY <1>0 DEF OwnerInv
    <3>1. CASE owner'[q] = owner[q]
      BY <3>1 DEF OwnerInv
    <3>2. ASSUME NEW i \in Inst, Lost(i, q),
                 owner'[q] = [page |-> inst[i].page, order |-> inst[i].order,
                              by |-> None]
          PROVE  q \in busy /\ Blk(q, owner'[q].page, owner'[q].order)
      BY <2>2, <3>2 DEF GrantInv, InGrant
    <3> QED  BY <2>3, <3>1, <3>2
  <2>5. FreedInv'
    <3>1. \A f \in Freer, q \in Page :
            freer[f].pc # "idle" /\ InFreed(q, f) => owner'[q] = owner[q]
      BY <2>2, <2>3 DEF GrantInv
    <3> QED  BY <1>0, <3>1 DEF FreedInv, InFreed, FreeEnd
  <2> QED  BY <2>1, <2>4, <2>5 DEF GrantInv
<1>3. CASE ExitPools
  <2>1. \A i \in Inst : ~Pending(i)'
    BY <1>3 DEF ExitPools, Pending, Granted, Idle
  <2>2. \A q \in Page : owner'[q] = IF owner[q] = None THEN None
                                    ELSE [owner[q] EXCEPT !.by = None]
    BY <1>3 DEF ExitPools
  <2>3. OwnerInv'
    <3> SUFFICES ASSUME NEW q \in Page, owner'[q] # None
                 PROVE  q \in busy /\ Blk(q, owner'[q].page, owner'[q].order)
      BY <1>0 DEF OwnerInv
    <3>1. owner[q] # None /\ owner[q] \in Allocation
      BY <2>2 DEF TypeInv, TypeOK
    <3>2. owner'[q].page = owner[q].page /\ owner'[q].order = owner[q].order
      BY <2>2, <3>1 DEF Allocation
    <3> QED  BY <3>1, <3>2 DEF OwnerInv
  <2>4. FreedInv'
    BY <1>0, <2>2 DEF FreedInv, InFreed, FreeEnd
  <2> QED  BY <2>1, <2>3, <2>4 DEF GrantInv
<1> QED  BY <1>1, <1>2, <1>3 DEF ModuleStep, InitLpPool, InitStPool,
         InitStPoolFails, Register, RegisterFails, Unload, UnregisterAlloc,
         UnregisterFree, kernelVars

\* The loop writes records of the tree and of the pool only.
LEMMA FreeKeepsOthers ==
  ASSUME TypeInv, NEW f \in Freer, FreeStep(f)
  PROVE  \A l \in Lp : l \notin tree /\ l \notin lpFree => rec'[l] = rec[l]
BY DEF FreeStep, FreeUntracked, FreeHead, FreeWhole, FreeWholeAndMore,
       FreeReload, FreeMiddle, FreeTail, FreeTailAndMore, poolVars, find_lp,
       TypeInv, TypeOK

\* What the record of instance j says of its call.
LEMMA CallFrame ==
  ASSUME CallInv, NEW j \in Inst, inst'[j] = inst[j],
         inst[j].pc \in Running => rec'[inst[j].lp] = rec[inst[j].lp]
  PROVE  /\ inst'[j].pc \in Running \ Granted => inst'[j].page = Null
         /\ inst'[j].pc \in Running => rec'[inst'[j].lp].order = inst'[j].order
         /\ inst'[j].pc \in {"called", "returned", "insert"} =>
              rec'[inst'[j].lp].entries = inst'[j].caller
         /\ inst'[j].pc = "insert" =>
              /\ rec'[inst'[j].lp].start_page = inst'[j].page
              /\ rec'[inst'[j].lp].end_page = End(inst'[j].page, inst'[j].order)
BY DEF CallInv, Running

\* Only one call has moved.
LEMMA CallOthers ==
  ASSUME CallInv, NEW i \in Inst,
         \A j \in Inst \ {i} : inst'[j] = inst[j],
         \A j \in Inst \ {i} :
           inst[j].pc \in Running => rec'[inst[j].lp] = rec[inst[j].lp],
         ~(inst'[i].pc \in Running \ Granted) \/ inst'[i].page = Null,
         /\ rec'[inst'[i].lp].order = inst'[i].order
         /\ rec'[inst'[i].lp].entries = inst'[i].caller
         /\ inst'[i].pc = "insert" =>
              /\ rec'[inst'[i].lp].start_page = inst'[i].page
              /\ rec'[inst'[i].lp].end_page = End(inst'[i].page, inst'[i].order)
  PROVE  CallInv'
BY CallFrame DEF CallInv

LEMMA CallStep ==
  ASSUME TypeInv, ControlInv, CallInv, [Next]_vars
  PROVE  CallInv'
<1>0. /\ inst \in [Inst -> Instance] /\ rec \in [Lp -> Record]
      /\ \A i \in Inst : inst[i].pc \in Running =>
           /\ inst[i].lp \in Lp /\ inst[i].lp \notin lpFree /\ inst[i].lp \notin tree
           /\ \A j \in Inst \ {i} : inst[j].lp # inst[i].lp
  BY NoneAssumption
     DEF TypeInv, TypeOK, InstOK, ControlInv, RecordsAccounted, HeldBy
<1>1. CASE UNCHANGED <<inst, rec>>
  BY <1>1 DEF CallInv
<1>2. ASSUME NEW i \in Inst, AllocHandlerStep(i) PROVE CallInv'
  <2>1. inst[i].pc \in Running /\ \A j \in Inst \ {i} : inst'[j] = inst[j]
    BY <1>2, AllocMoves
  <2>2. \A l \in Lp \ {inst[i].lp} : rec'[l] = rec[l]
    BY <1>0, <1>2 DEF AllocHandlerStep, EntryAllocSt, EntryTrace, RetFreeLp,
       RetSetExtent, RetInsert
  <2>3. ASSUME NEW j \in Inst \ {i}
        PROVE  inst[j].pc \in Running => rec'[inst[j].lp] = rec[inst[j].lp]
    BY <1>0, <2>1, <2>2
  <2>4. CASE RetFreeLp(i) \/ RetInsert(i)
    <3>1. inst'[i] = Idle
      BY <1>0, <2>4 DEF RetFreeLp, RetInsert
    <3> QED  BY <2>1, <2>3, <3>1, CallFrame DEF CallInv, Idle, Running
  <2>5. CASE EntryAllocSt(i)
    <3>1. /\ inst'[i].pc = "unwind" /\ inst[i].pc = "trace" /\ rec' = rec
          /\ inst'[i].lp = inst[i].lp /\ inst'[i].order = inst[i].order
          /\ inst'[i].page = inst[i].page
      BY <1>0, <2>5 DEF EntryAllocSt, Instance
    <3> QED  BY <2>1, <2>3, <3>1, CallFrame DEF CallInv, Running, Granted
  <2>6. CASE EntryTrace(i)
    <3>0. inst[i] \in Instance /\ rec[inst[i].lp] \in Record
      BY <1>0, <2>1
    <3>1. /\ inst'[i].pc = "called" /\ inst[i].pc = "unwind"
          /\ inst'[i].lp = inst[i].lp /\ inst'[i].order = inst[i].order
          /\ inst'[i].page = inst[i].page /\ inst'[i].caller = inst[i].caller
      BY <1>0, <2>6, <3>0 DEF EntryTrace, Instance
    <3>2. /\ rec'[inst[i].lp].order = rec[inst[i].lp].order
          /\ rec'[inst[i].lp].entries = inst[i].caller
      BY <1>0, <2>1, <2>6, <3>0 DEF EntryTrace, Record
    <3>3. ~(inst'[i].pc \in Running \ Granted) \/ inst'[i].page = Null
      BY <3>1 DEF CallInv, Running, Granted
    <3>4. /\ rec'[inst'[i].lp].order = inst'[i].order
          /\ rec'[inst'[i].lp].entries = inst'[i].caller
          /\ inst'[i].pc = "insert" =>
               /\ rec'[inst'[i].lp].start_page = inst'[i].page
               /\ rec'[inst'[i].lp].end_page = End(inst'[i].page, inst'[i].order)
      BY <3>1, <3>2 DEF CallInv, Running
    <3> QED  BY <2>1, <2>3, <3>3, <3>4, CallOthers
  <2>7. CASE RetSetExtent(i)
    <3>0. inst[i] \in Instance /\ rec[inst[i].lp] \in Record
      BY <1>0, <2>1
    <3>1. /\ inst'[i].pc = "insert" /\ inst[i].pc = "returned"
          /\ inst'[i].lp = inst[i].lp /\ inst'[i].order = inst[i].order
          /\ inst'[i].page = inst[i].page /\ inst'[i].caller = inst[i].caller
      BY <1>0, <2>7, <3>0 DEF RetSetExtent, Instance
    <3>2. /\ rec'[inst[i].lp].order = rec[inst[i].lp].order
          /\ rec'[inst[i].lp].entries = rec[inst[i].lp].entries
          /\ rec'[inst[i].lp].start_page = inst[i].page
          /\ rec'[inst[i].lp].end_page = End(inst[i].page, rec[inst[i].lp].order)
      BY <1>0, <2>1, <2>7, <3>0 DEF RetSetExtent, Record
    <3>3. ~(inst'[i].pc \in Running \ Granted) \/ inst'[i].page = Null
      BY <3>1 DEF CallInv, Running, Granted
    <3>4. /\ rec'[inst'[i].lp].order = inst'[i].order
          /\ rec'[inst'[i].lp].entries = inst'[i].caller
          /\ inst'[i].pc = "insert" =>
               /\ rec'[inst'[i].lp].start_page = inst'[i].page
               /\ rec'[inst'[i].lp].end_page = End(inst'[i].page, inst'[i].order)
      BY <3>1, <3>2 DEF CallInv, Running
    <3> QED  BY <2>1, <2>3, <3>3, <3>4, CallOthers
  <2> QED  BY <1>2, <2>4, <2>5, <2>6, <2>7 DEF AllocHandlerStep
<1>3. ASSUME NEW i \in Inst, NEW k \in Orders, NEW c \in Caller,
             EntryAllocLp(i, k, c)
      PROVE  CallInv'
  <2>1. PICK l \in lpFree :
          /\ l \in Lp
          /\ rec' = [rec EXCEPT ![l] = [Blank EXCEPT !.order = k]]
          /\ inst' = [inst EXCEPT ![i] = [Idle EXCEPT !.pc = "trace",
                         !.order = k, !.caller = c, !.lp = l]]
    BY <1>3 DEF EntryAllocLp, TypeInv, TypeOK
  <2>2. \A j \in Inst \ {i} : inst[j].pc \in Running =>
          rec'[inst[j].lp] = rec[inst[j].lp]
    BY <1>0, <2>1
  <2>3. /\ inst'[i].pc = "trace" /\ inst'[i].page = Null
        /\ inst'[i].order = k /\ rec'[inst'[i].lp].order = k
    BY <1>0, <2>1 DEF Idle, Blank
  <2> QED  BY <1>0, <2>1, <2>2, <2>3, CallFrame DEF CallInv, Running
<1>4. ASSUME NEW i \in Inst,
             KernelAllocFails(i) \/ \E p \in Page : KernelAlloc(i, p)
      PROVE  CallInv'
  <2>1. /\ inst[i].pc = "called" /\ inst'[i].pc = "returned"
        /\ inst'[i].lp = inst[i].lp /\ inst'[i].order = inst[i].order
        /\ inst'[i].caller = inst[i].caller
        /\ \A j \in Inst \ {i} : inst'[j] = inst[j]
        /\ UNCHANGED rec
    <3>1. CASE KernelAllocFails(i)
      BY <1>0, <3>1 DEF KernelAllocFails, Instance
    <3>2. ASSUME NEW p \in Page, KernelAlloc(i, p)
          PROVE  /\ inst[i].pc = "called" /\ inst'[i].pc = "returned"
                 /\ inst'[i].lp = inst[i].lp /\ inst'[i].order = inst[i].order
                 /\ inst'[i].caller = inst[i].caller
                 /\ \A j \in Inst \ {i} : inst'[j] = inst[j]
                 /\ UNCHANGED rec
      BY <1>0, <3>2 DEF KernelAlloc, Instance
    <3> QED  BY <1>4, <3>1, <3>2
  <2> QED  BY <2>1, CallFrame DEF CallInv, Running, Granted
<1>5. ASSUME NEW f \in Freer, FreeStep(f) PROVE CallInv'
  <2>1. \A i \in Inst : inst[i].pc \in Running => rec'[inst[i].lp] = rec[inst[i].lp]
    BY <1>0, <1>5, FreeKeepsOthers
  <2> QED  BY <1>5, <2>1, FreeFrame, CallFrame DEF CallInv
<1>6. CASE CleanupInstances
  <2>1. \A i \in Inst : inst'[i].pc \notin Running
    BY <1>0, <1>6 DEF CleanupInstances, Running, Instance
  <2> QED  BY <2>1 DEF CallInv, Running
<1>7. CASE ExitPools
  <2>1. \A i \in Inst : inst'[i].pc \notin Running
    BY <1>7 DEF ExitPools, Running, Idle
  <2> QED  BY <2>1 DEF CallInv, Running
<1>8. CASE KernelStep
  BY <1>1, <1>3, <1>4, <1>8 DEF KernelStep, AllocUntraced, FreeEnter,
     FreeUnprobed, KernelFree
<1>9. CASE ModuleStep
  BY <1>1, <1>6, <1>7, <1>9 DEF ModuleStep, InitLpPool, InitStPool,
     InitStPoolFails, Register, RegisterFails, Unload, UnregisterAlloc,
     UnregisterFree
<1> QED  BY <1>1, <1>2, <1>5, <1>8, <1>9 DEF Next, vars

LEMMA BlockInit == Init => BlockInv
<1> SUFFICES ASSUME Init PROVE BlockInv
  OBVIOUS
<1> QED  BY DEF Init, BlockInv, OwnerInv, FreedInv, GrantInv, CallInv, Pending,
            Granted, Running, Idle, Done

LEMMA BlockStep == TypeInv /\ ControlInv /\ BlockInv /\ [Next]_vars => BlockInv'
<1> SUFFICES ASSUME TypeInv, ControlInv, BlockInv, [Next]_vars
             PROVE  OwnerInv' /\ FreedInv' /\ GrantInv'
  BY CallStep DEF BlockInv
<1> USE DEF BlockInv
<1>0. inst \in [Inst -> Instance]
  BY DEF TypeInv, TypeOK
<1>1. CASE UNCHANGED vars
  BY <1>1, BlockFrame DEF vars, Pending
<1>2. ASSUME NEW f \in Freer, FreeStep(f) PROVE OwnerInv' /\ FreedInv' /\ GrantInv'
  BY <1>2, FreeFrame, FreeMoves, BlockFrame DEF Pending
<1>3. ASSUME NEW i \in Inst, NEW k \in Orders, NEW c \in Caller,
             EntryAllocLp(i, k, c)
      PROVE  OwnerInv' /\ FreedInv' /\ GrantInv'
  <2>1. \A j \in Inst \ {i} : inst'[j] = inst[j]
    BY <1>0, <1>3 DEF EntryAllocLp
  <2>2. inst'[i].pc = "trace"
    BY <1>0, <1>3 DEF EntryAllocLp, Idle
  <2>3. UNCHANGED <<freer, busy, owner>>
    BY <1>3 DEF EntryAllocLp, kernelVars
  <2> QED  BY <2>1, <2>2, <2>3, BlockFrame DEF Pending, Granted
<1>4. ASSUME NEW i \in Inst, KernelAllocFails(i)
      PROVE  OwnerInv' /\ FreedInv' /\ GrantInv'
  <2>1. \A j \in Inst \ {i} : inst'[j] = inst[j]
    BY <1>0, <1>4 DEF KernelAllocFails
  <2>2. inst'[i].page = Null
    BY <1>0, <1>4 DEF KernelAllocFails, CallInv, Instance, Running, Granted
  <2>3. UNCHANGED <<freer, busy, owner>>
    BY <1>4 DEF KernelAllocFails, kernelVars
  <2> QED  BY <2>1, <2>2, <2>3, BlockFrame DEF Pending
<1>5. CASE KernelStep
  BY <1>3, <1>4, <1>5, BlockKernelAlloc, BlockAllocUntraced, BlockGiveUp,
     BlockKernelFree DEF KernelStep
<1> QED  BY <1>1, <1>2, <1>5, BlockAllocHandler, BlockModule DEF Next
=============================================================================
