------------------------------- MODULE FreeList -------------------------------
(***************************************************************************)
(* The free list of lp_pool in mem_leak/kerspace/huawei_log_page.c, one    *)
(* access to memory at a time: __alloc_lp and __free_lp under lp_pool_lock *)
(* on several processors.  A free record's next shares its memory with the *)
(* order of a record in use.  The list of st_pool (349-377) is the same,   *)
(* without the memset and with a field of its own for next.                *)
(***************************************************************************)
EXTENDS Integers, FiniteSets

CONSTANTS
  NrLp,   \* the records of the pool: an array
  User,   \* the contexts that take a record and give it back
  Order,  \* an order, as a value of the shared field
  NULL    \* and what memset leaves

Node == 1..NrLp

ASSUME FreeListAssumption ==
  /\ NrLp \in Nat /\ IsFiniteSet(User) /\ Cardinality(User) <= NrLp
  /\ NULL \notin Node \cup User /\ Order \notin Node \cup {NULL}

VARIABLES
  filled,  \* how many records init_lp_pool has put on the list
  free,    \* lp_pool.free
  next,    \* per record: next, or order
  lock,    \* the holder of lp_pool_lock
  user     \* per context: where it is, and its lp
listVars == <<filled, free, next, lock, user>>

Idle == [pc |-> "idle", lp |-> NULL]
Goto(u, pc) == user' = [user EXCEPT ![u].pc = pc]

ListInit ==
  /\ filled = 0 /\ free = NULL /\ lock = NULL
  /\ next \in [Node -> {Order, NULL}]
  /\ user = [u \in User |-> Idle]

\* A round of init_lp_pool's loop, before any probe is planted.
FillPool ==
  /\ filled < NrLp
  /\ filled' = filled + 1
  /\ next' = [next EXCEPT ![filled + 1] = free] /\ free' = filled + 1
  /\ UNCHANGED <<lock, user>>

\* spin_lock(&lp_pool_lock).
Acquire(u, from, to) ==
  user[u].pc = from /\ lock = NULL /\ lock' = u /\ Goto(u, to)

-----------------------------------------------------------------------------
\* __alloc_lp: the lock, lp = lp_pool.free, ...
AllocLock(u) ==
  /\ filled = NrLp
  /\ Acquire(u, "idle", "read")
  /\ UNCHANGED <<filled, free, next>>

\* Mutant: the lock is given back too early.
AllocReadUnlocks(u) ==
  /\ user[u].pc = "read"
  /\ user' = [user EXCEPT ![u] = [pc |-> "pop", lp |-> free]]
  /\ lock' = NULL
  /\ UNCHANGED <<filled, free, next>>

AllocRead(u) ==
  /\ user[u].pc = "read"
  /\ user' = [user EXCEPT ![u] = [pc |-> "pop", lp |-> free]]
  /\ UNCHANGED <<filled, free, next, lock>>

\* ... lp_pool.free = lp->next, ...
AllocPop(u) ==
  /\ user[u].pc = "pop" /\ user[u].lp \in Node
  /\ free' = next[user[u].lp]
  /\ Goto(u, "memset")
  /\ UNCHANGED <<filled, next, lock>>

\* ... memset and unlock.
AllocMemset(u) ==
  /\ user[u].pc = "memset"
  /\ next' = [next EXCEPT ![user[u].lp] = NULL]
  /\ lock' = NULL
  /\ Goto(u, "own")
  /\ UNCHANGED <<filled, free>>

\* lp->order = regs->si, without the lock.
WriteOrder(u) ==
  /\ user[u].pc = "own"
  /\ next' = [next EXCEPT ![user[u].lp] = Order]
  /\ UNCHANGED <<filled, free, lock, user>>

\* __free_lp: the lock, ...
FreeLock(u) ==
  /\ Acquire(u, "own", "link")
  /\ UNCHANGED <<filled, free, next>>

\* ... lp->next = lp_pool.free, ...
FreeLink(u) ==
  /\ user[u].pc = "link"
  /\ next' = [next EXCEPT ![user[u].lp] = free]
  /\ Goto(u, "push")
  /\ UNCHANGED <<filled, free, lock>>

\* Mutant: the list is not moved to the record.
FreePushNot(u) ==
  /\ user[u].pc = "push"
  /\ lock' = NULL
  /\ user' = [user EXCEPT ![u] = Idle]
  /\ UNCHANGED <<filled, free, next>>

\* ... lp_pool.free = lp and unlock.
FreePush(u) ==
  /\ user[u].pc = "push"
  /\ free' = user[u].lp
  /\ lock' = NULL
  /\ user' = [user EXCEPT ![u] = Idle]
  /\ UNCHANGED <<filled, next>>

UserStep(u) ==
  \/ AllocLock(u) \/ AllocRead(u) \/ AllocPop(u) \/ AllocMemset(u)
  \/ WriteOrder(u) \/ FreeLock(u) \/ FreeLink(u) \/ FreePush(u)

ListNext == FillPool \/ \E u \in User : UserStep(u)

ListSpec == ListInit /\ [][ListNext]_listVars

-----------------------------------------------------------------------------
(* Properties.                                                              *)

\* Every variable has its type; only the holder of the lock is inside.
FreeListTypeOK ==
  /\ filled \in 0..NrLp /\ free \in Node \cup {NULL}
  /\ next \in [Node -> Node \cup {Order, NULL}]
  /\ lock \in User \cup {NULL}
  /\ user \in [User -> [pc : {"idle", "read", "pop", "memset", "own", "link", "push"},
                       lp : Node \cup {NULL}]]
  /\ \A u \in User : user[u].pc \in {"idle", "own"} <=> lock # u

\* The records on the list: no smaller set has the first and, of each, the next.
Chain ==
  {l \in Node : \A X \in SUBSET Node :
     ({free} \cup {next[k] : k \in X}) \cap Node \subseteq X => l \in X}

Held(u) == IF user[u].pc \in {"read", "pop"} THEN NULL ELSE user[u].lp

\* Why: the list is a stack that ends, of the records that nobody has.
Stacked(depth, stack) ==
  /\ free = IF depth = 0 THEN NULL ELSE stack[depth]
  /\ \A i \in 1..depth :
       /\ next[stack[i]] = IF i = 1 THEN NULL ELSE stack[i - 1]
       /\ \A j \in 1..depth : stack[i] = stack[j] => i = j
  /\ 1..filled = {stack[i] : i \in 1..depth} \cup ({Held(u) : u \in User} \ {NULL})
  /\ \A i \in 1..depth, u \in User : stack[i] # Held(u)

OneStack == \E depth \in 0..NrLp : \E stack \in [1..depth -> Node] : Stacked(depth, stack)

\* ... and where every context is with its record.
Accesses ==
  \A u \in User :
    /\ user[u].pc = "idle" => user[u].lp = NULL
    /\ user[u].pc = "pop" => user[u].lp = free
    /\ user[u].pc \in {"memset", "own", "link", "push"} => user[u].lp # NULL
    /\ user[u].pc = "push" => next[user[u].lp] = free
    /\ \A v \in User : Held(u) = Held(v) /\ Held(u) # NULL => u = v
    /\ filled < NrLp => user[u].pc = "idle"

\* lp_pool.free is never NULL when a record is taken: the comment at
\* huawei_log_page.c:187.
NeverNull == \A u \in User : user[u].pc = "pop" => user[u].lp # NULL

\* Nobody but the holder of lp_pool_lock is between the reads and writes of the
\* list, and it never finds it empty: the records that are free are linked once
\* each, down to the NULL.
FreeListInv == FreeListTypeOK /\ NeverNull /\ OneStack /\ Accesses

\* The list, whatever the processors' order of accesses and whatever the shared
\* field held, is a pool: no record is lost or given out twice.
Abstract == INSTANCE Pool WITH free <- Chain, held <- [u \in User |-> Held(u)],
                               None <- NULL
PoolSpec == Abstract!Spec
=============================================================================
