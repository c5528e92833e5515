------------------------------ MODULE MCLogPage ------------------------------
(***************************************************************************)
(* Small instances of LogPage for TLC.  Records, buffers, instances and    *)
(* contexts are each interchangeable, and there are too many of them for   *)
(* TLC's symmetry reduction: the safety runs tell states apart by View,    *)
(* which names none of them.                                               *)
(***************************************************************************)
EXTENDS LogPageInv

\* How many elements of S have each value of f.
Count(S, f(_)) ==
  [v \in {f(x) : x \in S} |-> Cardinality({x \in S : f(x) = v})]

Contents(l) == IF l = None THEN None ELSE <<rec[l], l \in lpFree, l \in tree>>

InstView(i) ==
  <<[inst[i] EXCEPT !.lp = Contents(inst[i].lp), !.st = @ = None],
    {f \in Freer : freer[f].lp # None /\ freer[f].lp = inst[i].lp} # {}>>

FreerView(f) ==
  <<[freer[f] EXCEPT !.lp = Contents(freer[f].lp)], lpLock = f>>

View == <<phase, probes, Cardinality(lpFree), Cardinality(stFree),
          Count(tree, Contents), Count(Inst, InstView),
          Count(Freer, FreerView), busy, owner>>

\* The module, once loaded, stays: what happens between insmod and rmmod, with
\* as many pages as every case of do_log_page_free needs.
StayNext ==
  \/ KernelStep
  \/ \E i \in Inst : AllocHandlerStep(i)
  \/ \E f \in Freer : FreeStep(f)
  \/ InitLpPool \/ InitStPool \/ InitStPoolFails \/ Register

StaySpec == Init /\ [][StayNext]_vars
=============================================================================
