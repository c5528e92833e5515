------------------------------ MODULE MCPrioTree ------------------------------
(***************************************************************************)
(* Trees for PrioTree: the trees the kernel builds from sets of intervals. *)
(* All the intervals that begin at page 0 make the one long path there is, *)
(* down to the last bit of the size; others are added on the way.          *)
(***************************************************************************)
EXTENDS PrioTree, FiniteSetsExt

\* The node that becomes the root of a subtree.
Top(S) ==
  CHOOSE n \in S : \A k \in S :
    heap(n) > heap(k) \/ (heap(n) = heap(k) /\ radix(n) <= radix(k))

\* The edges of the tree of S, whose root is split by bit b: of the radix
\* index, or of the size.
RECURSIVE Edges(_, _, _)
Edges(S, b, bySize) ==
  IF S = {} THEN {}
  ELSE
    LET n == Top(S)
        index(k) == IF bySize THEN heap(k) - radix(k) ELSE radix(k)
        R == {k \in S \ {n} : Bit(index(k), 2^b)}
        L == (S \ {n}) \ R
        c == IF b = 0 THEN BITS_PER_LONG - 1 ELSE b - 1 IN
      {<<n, side, Top(T)>> : <<side, T>> \in {x \in {<<"l", L>>, <<"r", R>>} : x[2] # {}}}
        \cup Edges(L, c, bySize \/ b = 0) \cup Edges(R, c, bySize \/ b = 0)

TreeOf(S, bits, more) ==
  LET E == Edges(S, bits - 1, FALSE)
      child(n, s) == IF \E e \in E : e[1] = n /\ e[2] = s
                     THEN (CHOOSE e \in E : e[1] = n /\ e[2] = s)[3] ELSE NoNode IN
    [root |-> IF S = {} THEN NoNode ELSE Top(S),
     left |-> [n \in S |-> child(n, "l")], right |-> [n \in S |-> child(n, "r")],
     parent |-> [n \in S |-> IF \E e \in E : e[3] = n
                             THEN (CHOOSE e \in E : e[3] = n)[1] ELSE n],
     index_bits |-> bits, more |-> [n \in S |-> IF n \in more THEN 2 ELSE 0]]

MaxIndex == 2^BITS_PER_LONG - 1
AtZero == {<<0, h>> : h \in 0..MaxIndex}
Others == {<<3, 4>>, <<4, 4>>, <<4, 7>>}

\* The whole path, and what few intervals leave of it.
Paths == {AtZero} \cup UNION {kSubset(k, AtZero) : k \in 0..3}

MCTrees ==
  {TreeOf(S \cup T, BITS_PER_LONG, {<<0, 3>>, <<4, 4>>}) :
     S \in Paths, T \in SUBSET Others}
  \cup {TreeOf(S, b, {}) : b \in 1..BITS_PER_LONG, S \in SUBSET {<<0, 0>>, <<0, 1>>, <<1, 1>>}}
MCStabs == 0..MaxIndex
=============================================================================
