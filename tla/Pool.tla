--------------------------------- MODULE Pool ---------------------------------
(***************************************************************************)
(* What lp_pool and st_pool promise, and LogPage takes for granted: a set  *)
(* of elements, of which every context holds at most one at a time.        *)
(***************************************************************************)
CONSTANTS Node, User, None

VARIABLES
  free,  \* the elements in the pool
  held   \* per context: the element it holds, or None

Init == free = {} /\ held = [u \in User |-> None]

\* init_lp_pool puts an element in.
Fill(n) ==
  /\ n \in Node \ free /\ \A u \in User : held[u] # n
  /\ free' = free \cup {n} /\ UNCHANGED held

\* alloc_lp, alloc_st: any free element.
Take(u) ==
  /\ held[u] = None
  /\ \E n \in free : held' = [held EXCEPT ![u] = n] /\ free' = free \ {n}

\* free_lp, free_st.
Give(u) ==
  /\ held[u] # None
  /\ free' = free \cup {held[u]} /\ held' = [held EXCEPT ![u] = None]

Next == (\E n \in Node : Fill(n)) \/ \E u \in User : Take(u) \/ Give(u)

Spec == Init /\ [][Next]_<<free, held>>
=============================================================================
