----------------------------- MODULE MCUserSpace -----------------------------
(***************************************************************************)
(* MmWalk and PageWalk, which share no state: an execution is of either    *)
(* one, with the other at a state it can begin in.                         *)
(***************************************************************************)
EXTENDS MmWalk, PageWalk, TLC

CONSTANTS init, c1, c2, t1, m1, m2, m3

\* One caller and another process.  c2, which may call too, is yet to be forked:
\* as a thread of c1 or t1, as a process of its own or as a kernel thread.
MCFirst == init :> None @@ c1 :> m1 @@ t1 :> m2
MCSucc == init :> c1 @@ c1 :> t1 @@ t1 :> init

-----------------------------------------------------------------------------
(* Page directories: at each level one index leads anywhere the level below *)
(* can, and the others to a few things that could be taken for it.          *)

\* One entry from a set, the others all the same one of a few.
Around(n, entries, others) ==
  {[i \in 0..n - 1 |-> IF i = k THEN e ELSE d] :
     k \in 0..n - 1, e \in entries, d \in others}

Ptes == [0..PTRS_PER_PTE - 1 -> {Absent, Leaf(1), Leaf(6)}]
PmdEntries == {Absent, Leaf(0), Leaf(5), Leaf(6), Leaf(7)} \cup {Lower(t) : t \in Ptes}
SomePte == Lower([i \in 0..PTRS_PER_PTE - 1 |-> Leaf(6 + i)])
Pmds == Around(PTRS_PER_PMD, PmdEntries, {Absent, Leaf(6), SomePte})
PudEntries == {Absent, Leaf(0), Leaf(4), Leaf(5)} \cup {Lower(t) : t \in Pmds}
SomePmd == Lower([i \in 0..PTRS_PER_PMD - 1 |-> SomePte])
Puds == Around(PTRS_PER_PUD, PudEntries, {Absent, Leaf(4), SomePmd})
SomePud == Lower([i \in 0..PTRS_PER_PUD - 1 |-> SomePmd])
Empty == [i \in 0..PTRS_PER_PGD - 1 |-> Absent]
PgdChoices == Around(PTRS_PER_PGD, {Lower(t) : t \in Puds}, {Absent, SomePud}) \cup {Empty}
PaddrChoices == {0, 3, 10, 13, 15}

-----------------------------------------------------------------------------
VARIABLE part
MCInit ==
  /\ Init
  /\ \/ part = "tasks" /\ pgd = Empty /\ paddr = 0
        /\ printed = {} /\ done = FALSE
     \/ part = "tables" /\ TablesInit

MCNext ==
  /\ UNCHANGED part
  /\ \/ part = "tasks" /\ Next /\ UNCHANGED tablesVars
     \/ part = "tables" /\ TablesNext /\ UNCHANGED vars

MCSpec == MCInit /\ [][MCNext]_<<vars, tablesVars, part>> /\ Fairness
=============================================================================
