-------------------------------- MODULE LpTree --------------------------------
(***************************************************************************)
(* The tree of mem_leak/kerspace/huawei_log_page.c that LogPage takes for  *)
(* a set: log_page_insert and find_lp go down from lp_root comparing one   *)
(* end of a record's extent, while do_log_page_free moves the ends of      *)
(* linked records in place.  Every operation is under lp_lock, one step.   *)
(*                                                                         *)
(* The red-black balancing is the kernel's: any rotation may happen at any *)
(* time, and rb_erase takes out a node with at most one child, which       *)
(* rotations can make of every node.                                       *)
(***************************************************************************)
EXTENDS Integers, FiniteSets, Sequences, SequencesExt

CONSTANTS
  Lp,       \* log records
  NrPages,
  None

Page == 1..NrPages

ASSUME LpTreeAssumption == NrPages \in Nat \ {0} /\ None \notin Lp

VARIABLES
  root, left, right,     \* lp_root, rb_left and rb_right
  start_page, end_page,  \* the extents
  linked                 \* the records that were inserted and not erased
shape == <<root, left, right>>
treeVars == <<shape, start_page, end_page, linked>>

Extent(l) == start_page[l]..end_page[l] - 1
Tracked == UNION {Extent(l) : l \in linked}

TreeInit ==
  /\ root = None
  /\ left = [l \in Lp |-> None] /\ right = left
  /\ start_page = [l \in Lp |-> 0] /\ end_page = start_page
  /\ linked = {}

-----------------------------------------------------------------------------
\* find_lp: the record a search for page p ends at.
find_lp(p) ==
  LET from[l \in linked \cup {None}] ==
        IF l = None THEN None
        ELSE IF p < start_page[l] THEN from[left[l]]
        ELSE IF p >= end_page[l] THEN from[right[l]]
        ELSE l IN
    from[root]

\* Mutant: a record that ends where the other begins goes right.
GoesLeftStrict(end, this) == end < start_page[this]

\* log_page_insert: on which side of a node it goes on.
GoesLeft(end, this) == end <= start_page[this]

\* The empty place, <<parent, side>>, where it ends.
Place(end) ==
  LET from[l \in linked] ==
        LET side == IF GoesLeft(end, l) THEN "left" ELSE "right"
            child == IF side = "left" THEN left[l] ELSE right[l] IN
          IF child = None THEN <<l, side>> ELSE from[child] IN
    from[root]

\* rb_link_node of a new record l with extent a..b - 1.
log_page_insert(l, a, b) ==
  /\ linked' = linked \cup {l}
  /\ IF root = None THEN root' = l /\ UNCHANGED <<left, right>>
     ELSE LET at == Place(b) IN
       /\ UNCHANGED root
       /\ left' = IF at[2] = "left" THEN [left EXCEPT ![at[1]] = l] ELSE left
       /\ right' = IF at[2] = "right" THEN [right EXCEPT ![at[1]] = l] ELSE right

\* A block that was allocated: pages of no linked record.
Insert(l, a, b) ==
  /\ l \notin linked /\ a < b /\ a..b - 1 \subseteq Page \ Tracked
  /\ log_page_insert(l, a, b)
  /\ start_page' = [start_page EXCEPT ![l] = a]
  /\ end_page' = [end_page EXCEPT ![l] = b]

\* The place of node l is taken by node m.
Replace(l, m) ==
  /\ root' = IF root = l THEN m ELSE root
  /\ left' = [n \in Lp |-> IF n = l THEN None ELSE IF left[n] = l THEN m ELSE left[n]]
  /\ right' = [n \in Lp |-> IF n = l THEN None ELSE IF right[n] = l THEN m ELSE right[n]]

\* Cases 2.2 and 2.3: rb_erase.
Erase(l) ==
  /\ l \in linked /\ None \in {left[l], right[l]}
  /\ linked' = linked \ {l}
  /\ Replace(l, IF left[l] = None THEN right[l] ELSE left[l])
  /\ UNCHANGED <<start_page, end_page>>

\* Case 2.1: the head of a record is freed, up to page e.
ShrinkHead(l, e) ==
  /\ l \in linked /\ start_page[l] < e /\ e < end_page[l]
  /\ start_page' = [start_page EXCEPT ![l] = e]
  /\ UNCHANGED <<shape, end_page, linked>>

\* Cases 3.2 and 3.3: the tail of a record is freed, from page s on.
ShrinkTail(l, s) ==
  /\ l \in linked /\ start_page[l] < s /\ s < end_page[l]
  /\ end_page' = [end_page EXCEPT ![l] = s]
  /\ UNCHANGED <<shape, start_page, linked>>

\* Case 3.1: the middle s..e - 1 of a record is freed; the rest is a new one.
Split(l, n, s, e) ==
  /\ l \in linked /\ n \notin linked
  /\ start_page[l] < s /\ s < e /\ e < end_page[l]
  /\ start_page' = [start_page EXCEPT ![n] = e]
  /\ end_page' = [end_page EXCEPT ![n] = end_page[l], ![l] = s]
  /\ log_page_insert(n, e, end_page[l])

\* The nodes under each node, in the order of rb_first and rb_next.
InOrder(n) ==
  LET from[l \in linked \cup {None}] ==
        IF l = None THEN <<>>
        ELSE from[left[l]] \o <<l>> \o from[right[l]] IN
    from[n]

\* print_log_page_all: what it prints.  On an empty tree that is rb_entry(NULL),
\* and what comes after it is anything.
print_log_page_all ==
  IF root = None THEN <<None>> ELSE InOrder(root)

\* (kernel) Rotations: a child m comes up in l's place.
RotateLeft(l) ==
  LET m == right[l] IN
    /\ l \in linked /\ m # None
    /\ root' = IF root = l THEN m ELSE root
    /\ left' = [n \in Lp |-> IF n = m THEN l ELSE IF left[n] = l THEN m ELSE left[n]]
    /\ right' = [n \in Lp |-> IF n = l THEN left[m]
                              ELSE IF right[n] = l THEN m ELSE right[n]]
    /\ UNCHANGED <<start_page, end_page, linked>>

RotateRight(l) ==
  LET m == left[l] IN
    /\ l \in linked /\ m # None
    /\ root' = IF root = l THEN m ELSE root
    /\ right' = [n \in Lp |-> IF n = m THEN l ELSE IF right[n] = l THEN m ELSE right[n]]
    /\ left' = [n \in Lp |-> IF n = l THEN right[m]
                             ELSE IF left[n] = l THEN m ELSE left[n]]
    /\ UNCHANGED <<start_page, end_page, linked>>

TreeNext ==
  \E l \in Lp :
       \/ \E a, b \in 1..NrPages + 1 : Insert(l, a, b)
       \/ Erase(l) \/ RotateLeft(l) \/ RotateRight(l)
       \/ \E p \in Page : ShrinkHead(l, p) \/ ShrinkTail(l, p)
       \/ \E n \in Lp, s, e \in Page : Split(l, n, s, e)

TreeSpec == TreeInit /\ [][TreeNext]_treeVars

-----------------------------------------------------------------------------
(* Properties.                                                              *)

\* Every variable has its type, and the linked records are the nodes of a tree.
LpTreeTypeOK ==
  /\ root \in linked \cup {None} /\ linked \subseteq Lp
  /\ left \in [Lp -> linked \cup {None}] /\ right \in [Lp -> linked \cup {None}]
  /\ start_page \in [Lp -> 0..NrPages] /\ end_page \in [Lp -> 0..NrPages + 1]
  /\ \A l \in linked :
       Cardinality({n \in linked : left[n] = l}) + Cardinality({n \in linked : right[n] = l})
         = IF l = root THEN 0 ELSE 1

Precedes(l, n) == end_page[l] <= start_page[n]

\* The node n and all under it.
Below(n) ==
  IF n = None THEN {}
  ELSE {l \in linked : \A C \in SUBSET linked :
          n \in C /\ (\A x \in C : {left[x], right[x]} \ {None} \subseteq C) => l \in C}

\* All linked records are under the root, a record's left before it and its right
\* behind it; no two have a page in common.
TreeShape ==
  /\ IsFiniteSet(linked) /\ \A l \in linked : start_page[l] < end_page[l]
  /\ \A l, n \in linked : l = n \/ Precedes(l, n) \/ Precedes(n, l)
  /\ Below(root) = linked
  /\ \A n \in linked : /\ \A l \in Below(left[n]) : Precedes(l, n)
                       /\ \A l \in Below(right[n]) : Precedes(n, l)
  /\ \A l \in Lp \ linked : left[l] = None /\ right[l] = None

\* A search finds the record that holds the page, whatever order the records
\* came in, were balanced, shrunk and split in; and finds nothing else.
FindExact ==
  \A p \in Page :
    LET holders == {l \in linked : p \in Extent(l)} IN
      IF holders = {} THEN find_lp(p) = None ELSE holders = {find_lp(p)}

\* print_log_page_all prints every record once, by address, if there is one.
PrintsAll ==
  linked # {} =>
    LET all == print_log_page_all IN
      /\ ToSet(all) = linked /\ IsInjective(all)
      /\ \A i \in 1..Len(all) - 1 : end_page[all[i]] <= start_page[all[i + 1]]

\* The tree, with whatever became of it, is the set of disjoint extents for which
\* find_lp, do_log_page_free and the listing take it.
TreeInv == LpTreeTypeOK /\ TreeShape /\ FindExact /\ PrintsAll
=============================================================================
