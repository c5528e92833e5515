----------------------------- MODULE LogPageCold -----------------------------
(***************************************************************************)
(* LogPage with the frees that page reclaim makes: the kernel calls        *)
(* free_hot_cold_page(page, cold) with cold = 1, and jfree_hot_cold_page,  *)
(* which declares that argument as the order, hands it to log_page_free.   *)
(* The handler takes two pages out of the log, the kernel frees one.       *)
(***************************************************************************)
EXTENDS LogPage

VARIABLE cold   \* the contexts whose free has the flag set

coldVars == <<vars, cold>>

\* The probe's handler begins, with the order 1, for a single page.
FreeEnterCold(f, p) ==
  /\ freer[f].pc = "idle"
  /\ Freeable(p, 0)
  /\ "free_hot_cold_page" \in probes
  /\ CpuFree
  /\ lpLock = None
  /\ lpLock' = f
  /\ freer' = [freer EXCEPT ![f] =
       [pc |-> "loop", page |-> p, order |-> 1, start |-> p, lp |-> None]]
  /\ GiveUp(p, 0)
  /\ cold' = cold \cup {f}
  /\ UNCHANGED <<modVars, poolVars, rec, tree, inst, busy>>

\* The kernel frees the one page.
KernelFreeCold(f) ==
  /\ f \in cold
  /\ freer[f].pc = "release"
  /\ busy' = busy \ {freer[f].page}
  /\ freer' = [freer EXCEPT ![f] = Done]
  /\ cold' = cold \ {f}
  /\ UNCHANGED <<modVars, poolVars, rec, tree, lpLock, inst, owner>>

ColdInit == Init /\ cold = {}

ColdNext ==
  \/ /\ Next
     /\ \A f \in cold : freer[f].pc = "release" => freer'[f] = freer[f]
     /\ UNCHANGED cold
  \/ \E f \in Freer : KernelFreeCold(f) \/ \E p \in Page : FreeEnterCold(f, p)

ColdSpec == ColdInit /\ [][ColdNext]_coldVars
=============================================================================
