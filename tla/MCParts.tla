------------------------------- MODULE MCParts -------------------------------
(***************************************************************************)
(* The parts of the kernel modules that the larger specifications take for *)
(* what they should be: the tree of the records, a free list, the capture  *)
(* of a trace and the order of the locks; the iterator over a priority     *)
(* search tree; and the /proc listing.  They share no state: an execution  *)
(* is of one part, and the others stay where they begin, with the simplest *)
(* of their inputs.                                                        *)
(***************************************************************************)
EXTENDS LpTree, FreeList, MCCallStack, IrqLock, MCPrioTree, RmapSeq

VARIABLE part
vars == <<treeVars, listVars, stackVars, lockVars, prioVars, seqVars, part>>

Init ==
  /\ part \in {"tree", "list", "stack", "locks", "prio", "seq"}
  /\ TreeInit /\ LockInit /\ SeqInit
  /\ ListInit /\ (part # "list" => next = [n \in Node |-> NULL])
  /\ IF part = "stack" THEN StackInit ELSE StackBegin(<<>>)
  /\ IF part = "prio" THEN PrioInit ELSE PrioBegin(TreeOf({}, 1, {}), 0)

Next ==
  \/ /\ part = "tree" /\ TreeNext
     /\ UNCHANGED <<listVars, stackVars, lockVars, prioVars, seqVars, part>>
  \/ /\ part = "list" /\ ListNext
     /\ UNCHANGED <<treeVars, stackVars, lockVars, prioVars, seqVars, part>>
  \/ /\ part = "stack" /\ StackNext
     /\ UNCHANGED <<treeVars, listVars, lockVars, prioVars, seqVars, part>>
  \/ /\ part = "locks" /\ LockNext
     /\ UNCHANGED <<treeVars, listVars, stackVars, prioVars, seqVars, part>>
  \/ /\ part = "prio" /\ PrioNext
     /\ UNCHANGED <<treeVars, listVars, stackVars, lockVars, seqVars, part>>
  \/ /\ part = "seq" /\ SeqNext
     /\ UNCHANGED <<treeVars, listVars, stackVars, lockVars, prioVars, part>>

\* The fairness of the parts that have properties which need it.
Spec ==
  /\ Init /\ [][Next]_vars
  /\ WF_prioVars(part = "prio" /\ PrioNext) /\ WF_seqVars(part = "seq" /\ SeqNext)

-----------------------------------------------------------------------------
(* Properties.                                                              *)

\* The iterator over a priority tree and the reader of /proc/rmap both come to
\* their end.
WalksEnd == WalkEnds /\ ListingEnds
=============================================================================
