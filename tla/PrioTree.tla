------------------------------- MODULE PrioTree -------------------------------
(***************************************************************************)
(* vma_prio_tree_foreach_user of mem_leak/rmap/rmap.c: the module's copy   *)
(* of the kernel's iterator over a priority search tree, which must meet   *)
(* every vma that maps page pgoff of a file, and no vma twice.             *)
(*                                                                         *)
(* A node is an interval <<radix index, heap index>> of pages: no interval *)
(* is in the tree twice, and the vmas of one interval hang on its node.  A *)
(* parent's heap index is no smaller than its children's; the radix index  *)
(* decides, from its highest of index_bits bits on, who goes right; below  *)
(* the last bit, the size does.  mask, value and size_level say where in   *)
(* this scheme the cursor is, and are undone on the way up.                *)
(***************************************************************************)
EXTENDS Integers, Sequences, SequencesExt

CONSTANTS
  BITS_PER_LONG,
  Trees,  \* [root, left, right, parent, index_bits, more]: more is how many
          \* vmas hang on a node behind the first
  Stabs,  \* the pages asked for
  NoNode

-----------------------------------------------------------------------------
(* The tree, which lib/prio_tree.c of the kernel builds.                    *)

radix(n) == n[1]
heap(n) == n[2]
Nodes(t) == DOMAIN t.left

\* How far below the root a node is.
Depth(t) ==
  LET depth[n \in Nodes(t)] == IF n = t.root THEN 0 ELSE 1 + depth[t.parent[n]] IN depth

\* Two radix indexes that share their first d bits of index_bits differ by less.
Unit(t, d) == 2^(IF d < t.index_bits THEN t.index_bits - d ELSE 0)

\* c is a child of n, right of it if side is 1 and left if it is 0.
IsChild(t, n, c, side) ==
  LET d == Depth(t)[n] IN
    /\ c \in Nodes(t) \ {t.root} /\ t.parent[c] = n
    /\ heap(c) <= heap(n)
    /\ IF d < t.index_bits
       THEN radix(c) \div Unit(t, d + 1) = 2 * (radix(n) \div Unit(t, d)) + side
       ELSE radix(c) = radix(n)

IsPrioTree(t) ==
  /\ t.index_bits \in 1..BITS_PER_LONG
  /\ NoNode \notin Nodes(t) /\ (t.root = NoNode <=> Nodes(t) = {})
  /\ t.root \in Nodes(t) \cup {NoNode}
  /\ Depth(t) \in [Nodes(t) -> 0..t.index_bits + BITS_PER_LONG]
  /\ t.parent \in [Nodes(t) -> Nodes(t)] /\ t.more \in [Nodes(t) -> Nat]
  /\ t.left \in [Nodes(t) -> Nodes(t) \cup {NoNode}]
  /\ t.right \in [Nodes(t) -> Nodes(t) \cup {NoNode}]
  /\ \A n \in Nodes(t) :
       /\ radix(n) \in 0..2^t.index_bits - 1 /\ heap(n) \in Nat
       /\ Depth(t)[n] = IF n = t.root THEN 0 ELSE 1 + Depth(t)[t.parent[n]]
       /\ n # t.root => n \in {t.left[t.parent[n]], t.right[t.parent[n]]}
       /\ t.left[n] # NoNode => IsChild(t, n, t.left[n], 0) /\ t.left[n] # t.right[n]
       /\ t.right[n] # NoNode => IsChild(t, n, t.right[n], 1)

ASSUME PrioAssumption ==
  /\ BITS_PER_LONG \in Nat \ {0}
  /\ \A t \in Trees : IsPrioTree(t)
  /\ Stabs \subseteq 0..2^BITS_PER_LONG - 1

\* What a shift by one place is.
ASSUME PowersOfTwo ==
  2^0 = 1 /\ \A k \in 0..BITS_PER_LONG - 1 : 2^k \in Nat /\ 2^(k + 1) = 2 * 2^k

-----------------------------------------------------------------------------
VARIABLES
  tree,
  stab,   \* iter->r_index and iter->h_index: the code asks for one page
  iter,   \* cur, mask, value and size_level
  at,     \* where the code is: in prio_tree_first_user, or in one of the three
          \* loops of prio_tree_next_user
  vma,    \* the node and the place behind it of the vma that was returned
  found   \* all that were returned
prioVars == <<tree, stab, iter, at, vma, found>>

ULONG_MAX == 2^BITS_PER_LONG - 1
Bit(v, mask) == (v \div mask) % 2 = 1
Overlap(n) == radix(n) <= stab /\ stab <= heap(n)

\* INIT_PRIO_TREE_ITER.
PrioBegin(t, page) ==
  /\ tree = t /\ stab = page
  /\ iter = [cur |-> NoNode, mask |-> 0, value |-> 0, size_level |-> 0]
  /\ at = "start" /\ vma = NoNode /\ found = <<>>

PrioInit == \E t \in Trees, page \in Stabs : PrioBegin(t, page)

-----------------------------------------------------------------------------
\* The cursor on a child: mask and size_level go one level down.
Descend(child, value) ==
  LET m == iter.mask \div 2 IN
    iter' = [cur |-> child, value |-> value,
             mask |-> IF m # 0 THEN m
                      ELSE IF iter.size_level # 0 THEN ULONG_MAX
                      ELSE 2^(BITS_PER_LONG - 1),
             size_level |-> IF iter.size_level # 0 THEN iter.size_level + 1
                            ELSE IF m = 0 THEN 1 ELSE 0]

\* Mutant: < for <=.
LeftPrunes == tree.left[iter.cur] # NoNode /\ stab < heap(tree.left[iter.cur])

\* prio_tree_left_user and prio_tree_right_user succeed.
Left == tree.left[iter.cur] # NoNode /\ stab <= heap(tree.left[iter.cur])
RightValue ==
  IF iter.size_level # 0 \/ Bit(iter.value, iter.mask) THEN iter.value
  ELSE iter.value + iter.mask
Right == /\ tree.right[iter.cur] # NoNode
         /\ stab >= RightValue /\ stab <= heap(tree.right[iter.cur])

\* Mutant: the bit of value stays set.
prio_tree_parent_userKeeps ==
  LET level == IF iter.size_level = 0 THEN 0 ELSE iter.size_level - 1
      mask == IF iter.mask = ULONG_MAX \/ iter.size_level = 1 THEN 1
              ELSE (2 * iter.mask) % 2^BITS_PER_LONG IN
    iter' = [cur |-> tree.parent[iter.cur], mask |-> mask, size_level |-> level,
             value |-> iter.value]

prio_tree_parent_user ==
  LET level == IF iter.size_level = 0 THEN 0 ELSE iter.size_level - 1
      mask == IF iter.mask = ULONG_MAX \/ iter.size_level = 1 THEN 1
              ELSE (2 * iter.mask) % 2^BITS_PER_LONG IN
    iter' = [cur |-> tree.parent[iter.cur], mask |-> mask, size_level |-> level,
             value |-> IF level = 0 /\ Bit(iter.value, mask) THEN iter.value - mask
                       ELSE iter.value]

IsRoot == iter.cur = tree.root

\* The vma of a node is returned; the iterator gives NULL.
Give(n) == /\ at' = "returned" /\ vma' = <<n, 0>>
           /\ found' = Append(found, <<n, 0>>)
Finish == at' = "end" /\ UNCHANGED <<vma, found>>
GoOn(where) == at' = where /\ UNCHANGED <<vma, found>>

-----------------------------------------------------------------------------
\* prio_tree_first_user, up to its loop ...
First ==
  /\ at = "start"
  /\ IF tree.root = NoNode \/ stab > heap(tree.root)
     THEN Finish /\ UNCHANGED iter
     ELSE /\ iter' = [iter EXCEPT !.cur = tree.root, !.mask = 2^(tree.index_bits - 1)]
          /\ GoOn("first")
  /\ UNCHANGED <<tree, stab>>

\* ... and a round of it.
FirstLoop ==
  /\ at = "first"
  /\ \/ Overlap(iter.cur) /\ Give(iter.cur) /\ UNCHANGED iter
     \/ /\ ~Overlap(iter.cur) /\ Left
        /\ Descend(tree.left[iter.cur], iter.value) /\ GoOn("first")
     \/ /\ ~Overlap(iter.cur) /\ ~Left /\ Right
        /\ Descend(tree.right[iter.cur], RightValue) /\ GoOn("first")
     \/ ~Overlap(iter.cur) /\ ~Left /\ ~Right /\ Finish /\ UNCHANGED iter
  /\ UNCHANGED <<tree, stab>>

\* vma_prio_tree_next_user: the next vma of the same interval, or on.
NextVma ==
  /\ at = "returned"
  /\ IF vma[2] < tree.more[vma[1]]
     THEN LET v == <<vma[1], vma[2] + 1>> IN
            vma' = v /\ found' = Append(found, v) /\ UNCHANGED at
     ELSE GoOn("left")
  /\ UNCHANGED <<tree, stab, iter>>

\* prio_tree_next_user: as far left as there is something to find ...
LeftLoop ==
  /\ at = "left"
  /\ IF Left
     THEN LET n == tree.left[iter.cur] IN
            /\ Descend(n, iter.value)
            /\ IF Overlap(n) THEN Give(n) ELSE GoOn("left")
     ELSE GoOn("right") /\ UNCHANGED iter
  /\ UNCHANGED <<tree, stab>>

\* ... then one to the right ...
RightLoop ==
  /\ at = "right"
  /\ IF Right
     THEN LET n == tree.right[iter.cur] IN
            /\ Descend(n, RightValue)
            /\ IF Overlap(n) THEN Give(n) ELSE GoOn("left")
     ELSE GoOn("up") /\ UNCHANGED iter
  /\ UNCHANGED <<tree, stab>>

\* Mutant: up one level, whichever side it was.
UpLoopOnce ==
  /\ at = "up"
  /\ \/ IsRoot /\ Finish /\ UNCHANGED iter
     \/ ~IsRoot /\ prio_tree_parent_user /\ GoOn("right")
  /\ UNCHANGED <<tree, stab>>

\* ... or up, past every node whose right side is done.
UpLoop ==
  /\ at = "up"
  /\ \/ IsRoot /\ Finish /\ UNCHANGED iter
     \/ /\ ~IsRoot /\ tree.right[tree.parent[iter.cur]] = iter.cur
        /\ prio_tree_parent_user /\ GoOn("up")
     \/ /\ ~IsRoot /\ tree.right[tree.parent[iter.cur]] # iter.cur
        /\ prio_tree_parent_user /\ GoOn("right")
  /\ UNCHANGED <<tree, stab>>

PrioNext == First \/ FirstLoop \/ NextVma \/ LeftLoop \/ RightLoop \/ UpLoop

\* One thread that runs on.
PrioSpec == PrioInit /\ [][PrioNext]_prioVars /\ WF_prioVars(PrioNext)

-----------------------------------------------------------------------------
(* Properties.                                                              *)

Mapping ==
  UNION {{<<n, k>> : k \in 0..tree.more[n]} : n \in {m \in Nodes(tree) : Overlap(m)}}

\* No vma is returned twice, and none that does not map the page.
FoundOnce == IsInjective(found) /\ ToSet(found) \subseteq Mapping

\* When the iterator gives NULL, every vma that maps the page has been returned:
\* no subtree was pruned that held one.
FoundAll == at = "end" => Mapping \subseteq ToSet(found)

\* The vmas that map the page are found, each once, and no others.
VmasExact == FoundOnce /\ FoundAll

\* Wherever the cursor has come from, mask, value and size_level are what its
\* depth and the radix bits above it say: the way up undoes the way down.
IterMatchesPath ==
  at \notin {"start", "end"} =>
    LET d == Depth(tree)[iter.cur]
        bits == tree.index_bits IN
      /\ iter.size_level = IF d < bits THEN 0 ELSE d - bits + 1
      /\ iter.mask = IF d < bits THEN 2^(bits - 1 - d)
                     ELSE IF d - bits = BITS_PER_LONG THEN ULONG_MAX
                     ELSE 2^(BITS_PER_LONG - 1 - (d - bits))
      /\ iter.value = (radix(iter.cur) \div Unit(tree, d)) * Unit(tree, d)

\* The iterator comes to its end.
WalkEnds == at # "start" ~> at = "end"
=============================================================================
